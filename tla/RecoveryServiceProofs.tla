----------------------- MODULE RecoveryServiceProofs -----------------------
(***************************************************************************)
(* Proofs about RecoveryService: the monitor's counts and metrics, for any *)
(* number of polls and messages; what the orchestrator may send back, for  *)
(* any set of error texts; and that the priority queue, an array searched  *)
(* by halves, implements the abstract queue MostUrgent, for any messages,  *)
(* capacity and delays.  The parts have no variable in common, so each     *)
(* invariant is proved of its part and holds while the others move.        *)
(***************************************************************************)
EXTENDS RecoveryService, SequenceFacts, FiniteSetTheorems, TLAPS

----------------------------------------------------------------------------
(* The orchestrator *)

\* The first test that matches decides: what it says of the earlier ones
LEMMA AnalyzeDecides ==
    ASSUME NEW text
    PROVE  /\ Analyze(text) = "network" =>
                 "network" \in text /\ text \cap Nonce = {} /\ "funds" \notin text /\ "gas" \notin text
           /\ Analyze(text) = "unknown" =>
                 text \cap Nonce = {} /\ text \cap {"funds", "gas", "network", "timeout", "address"} = {}
<1> DEFINE matches(type) == IF type = "nonce" THEN text \cap Nonce # {} ELSE type \in text
           order == <<"nonce", "funds", "gas", "network", "timeout", "address">>
           I == {i \in 1..Len(order) : matches(order[i])}
           i == IF I # {} THEN Min(I) ELSE 0
<1>1. Analyze(text) = IF i = 0 THEN "unknown" ELSE order[i]
  BY DEF Analyze, SelectInSeq
<1>2. /\ Len(order) = 6 /\ order[1] = "nonce" /\ order[2] = "funds" /\ order[3] = "gas"
      /\ order[4] = "network" /\ order[5] = "timeout" /\ order[6] = "address"
  OBVIOUS
<1>3. /\ 1 \in I <=> text \cap Nonce # {}
      /\ 2 \in I <=> "funds" \in text
      /\ 3 \in I <=> "gas" \in text
      /\ 4 \in I <=> "network" \in text
      /\ 5 \in I <=> "timeout" \in text
      /\ 6 \in I <=> "address" \in text
  BY <1>2
<1>4. I \subseteq 1..6
  BY <1>2
<1> HIDE DEF I, order
<1>5. CASE I = {}
  BY <1>1, <1>2, <1>3, <1>5
<1>6. CASE I # {}
  <2>2. Min(I) \in I /\ \A n \in I : Min(I) <= n
    BY <1>4, <1>6, MinIn
  <2>3. PICK m \in 1..6 : m = Min(I)
    BY <1>4, <2>2
  <2>4. Analyze(text) = order[m]
    BY <1>1, <1>6, <2>3
  <2>5. m # 4 => order[m] \notin {"network", "unknown"}
    BY <1>2, <2>3
  <2>6. m = 4 => /\ 4 \in I /\ 1 \notin I /\ 2 \notin I /\ 3 \notin I
                 /\ order[m] # "unknown"
    BY <1>2, <2>2, <2>3
  <2> QED
    BY <1>3, <2>4, <2>5, <2>6
<1> QED
  BY <1>5, <1>6

OrchestratorInv ==
    /\ call = [at |-> call.at, queue |-> call.queue, text |-> call.text]
    /\ call.at = "delay" =>
           /\ Analyze(call.text) \in {"network", "unknown"}
           /\ returned = {} /\ ~result.success
    /\ OnlyMendableReturned

LEMMA OrchestratorInitInv ==
    ASSUME OrchestratorInit
    PROVE  OrchestratorInv
BY DEF OrchestratorInit, OrchestratorInv, OnlyMendableReturned, NoResult, Result

LEMMA ProcessKeeps ==
    ASSUME OrchestratorInv, NEW q, NEW text, ProcessMessage(q, text)
    PROVE  OrchestratorInv'
<1> DEFINE type == Analyze(text)
           strategy == Strategy(type)
           waits == CanRecover(strategy, type) /\ strategy \in {"network", "unknown"}
<1>1. /\ call' = [at |-> IF waits THEN "delay" ELSE "done", queue |-> q, text |-> text]
      /\ result' \in CASE waits \/ ~CanRecover(strategy, type) -> {NoResult}
                       [] CanRecover(strategy, type) /\ strategy = "nonce" -> NonceResults(text)
                       [] CanRecover(strategy, type) /\ strategy = "gas" -> {GasResult}
      /\ returned' = {}
  BY DEF ProcessMessage
<1>2. waits => type \in {"network", "unknown"}
  BY DEF CanRecover
<1>3. strategy \in Strategies
  BY DEF Strategy, Strategies
<1>4. result' \in {NoResult, GasResult} \cup NonceResults(text)
  BY <1>1, <1>3 DEF Strategies
<1>5. \A r \in {NoResult, GasResult} : ~r.success
  BY DEF NoResult, GasResult, Result
<1>6. \A r \in NonceResults(text) : r.success => "nonceTooLow" \in text
  BY DEF NonceResults, Result
<1>7. waits => result' = NoResult
  BY <1>1
<1> HIDE DEF type, waits
<1>8. call'.at = "delay" => waits
  BY <1>1
<1>9. call'.text = text /\ call' = [at |-> call'.at, queue |-> call'.queue, text |-> call'.text]
  BY <1>1
<1> QED
  BY <1>1, <1>2, <1>4, <1>5, <1>6, <1>7, <1>8, <1>9
  DEF OrchestratorInv, OnlyMendableReturned, type

LEMMA RequeueKeeps ==
    ASSUME OrchestratorInv, Requeue
    PROVE  OrchestratorInv'
<1>1. /\ call.at = "delay" /\ returned = {}
      /\ Analyze(call.text) \in {"network", "unknown"}
  BY DEF OrchestratorInv, Requeue
<1>2. /\ call.text \cap (Nonce \cup {"funds", "gas"}) = {}
      /\ "network" \in call.text \/ call.text \cap {"timeout", "address"} = {}
  BY <1>1, AnalyzeDecides
<1>3. /\ call'.at = "done" /\ call'.text = call.text /\ call'.queue = call.queue
      /\ call' = [at |-> call'.at, queue |-> call'.queue, text |-> call'.text]
  BY DEF Requeue, OrchestratorInv
<1>4. \/ returned' = {call.queue}
      \/ returned' \in {{}, {call.queue}} /\ ~result'.success
  BY <1>1 DEF Requeue, TargetQueue, Result
<1> QED
  BY <1>2, <1>3, <1>4 DEF OrchestratorInv, OnlyMendableReturned

----------------------------------------------------------------------------
(* The monitor *)

GoodPoll(x) ==
    /\ x \in [at : Stages, rest : Seq(Deliveries)]
    /\ x.at \in {"next", "delete"} => x.rest # <<>>

Deleting == {p \in Polls : poll[p].at = "delete"}

MetricsOK ==
    /\ metric \in [Msgs -> Statuses] /\ timers \in [Msgs -> Nat]
    /\ count \in [received : Nat, processed : Nat, succeeded : Nat, failed : Nat]

MonitorInv ==
    /\ running \in BOOLEAN
    /\ dlq \in [Msgs -> [place : Places, receipt : 0..MaxReceives]]
    /\ poll = [p \in Polls |-> poll[p]] /\ \A p \in Polls : GoodPoll(poll[p])
    /\ MetricsOK
    /\ IsFiniteSet(Deleting)
    /\ CountedOnce
    /\ EntriesEnd

\* The message in hand, and what the poll is left with after it
LEMMA HandFacts ==
    ASSUME MonitorInv, NEW p \in Polls, poll[p].at \in {"next", "delete"}
    PROVE  /\ InHand(p) \in Msgs /\ Head(poll[p].rest) \in Deliveries
           /\ GoodPoll(Rest(p)) /\ Rest(p).at \in {"idle", "next"}
<1>1. poll[p].rest \in Seq(Deliveries) /\ poll[p].rest # <<>>
  BY DEF MonitorInv, GoodPoll
<1>2. Head(poll[p].rest) \in Deliveries /\ Tail(poll[p].rest) \in Seq(Deliveries)
  BY <1>1
<1>3. InHand(p) \in Msgs
  BY <1>2 DEF InHand, Deliveries
<1> QED
  BY <1>2, <1>3 DEF Rest, GoodPoll, Idle, Stages

LEMMA StartEffect ==
    ASSUME MetricsOK, NEW m \in Msgs, StartProcessing(m)
    PROVE  /\ MetricsOK'
           /\ metric' = [metric EXCEPT ![m] = "processing"] /\ UNCHANGED timers
           /\ count'.received = count.received + 1
           /\ count'.processed = count.processed /\ count'.succeeded = count.succeeded
           /\ count'.failed = count.failed
BY DEF MetricsOK, StartProcessing, Statuses

LEMMA EndedFacts ==
    ASSUME NEW c \in [received : Nat, processed : Nat, succeeded : Nat, failed : Nat],
           NEW success \in BOOLEAN, c.processed = c.succeeded + c.failed
    PROVE  /\ Ended(c, success) \in [received : Nat, processed : Nat, succeeded : Nat, failed : Nat]
           /\ Ended(c, success).received = c.received
           /\ Ended(c, success).processed = c.processed + 1
           /\ Ended(c, success).processed = Ended(c, success).succeeded + Ended(c, success).failed
<1>1. PICK good \in Nat, bad \in Nat :
         /\ good = IF success THEN c.succeeded + 1 ELSE c.succeeded
         /\ bad = IF success THEN c.failed ELSE c.failed + 1
         /\ c.processed + 1 = good + bad
  OBVIOUS
<1>2. Ended(c, success) =
        [c EXCEPT !.processed = c.processed + 1, !.succeeded = good, !.failed = bad]
  BY <1>1 DEF Ended
<1>3. c.processed + 1 \in Nat
  OBVIOUS
<1>4. Ended(c, success) \in [received : Nat, processed : Nat, succeeded : Nat, failed : Nat]
  BY <1>2, <1>3
<1>5. /\ Ended(c, success).received = c.received
      /\ Ended(c, success).processed = c.processed + 1
      /\ Ended(c, success).succeeded = good /\ Ended(c, success).failed = bad
  BY <1>2
<1> QED
  BY <1>1, <1>4, <1>5

LEMMA FailEffect ==
    ASSUME MetricsOK, NEW m \in Msgs, StartAndFail(m),
           count.processed = count.succeeded + count.failed
    PROVE  /\ MetricsOK'
           /\ metric' = [metric EXCEPT ![m] = "failed"]
           /\ timers' = [timers EXCEPT ![m] = timers[m] + 1]
           /\ count'.received = count.received + 1 /\ count'.processed = count.processed + 1
           /\ count'.processed = count'.succeeded + count'.failed
<1> DEFINE c == [count EXCEPT !.received = @ + 1]
<1>1. /\ c \in [received : Nat, processed : Nat, succeeded : Nat, failed : Nat]
      /\ c.received = count.received + 1 /\ c.processed = count.processed
      /\ c.processed = c.succeeded + c.failed
  BY DEF MetricsOK
<1>2. count' = Ended(c, FALSE)
  BY DEF StartAndFail
<1> HIDE DEF c
<1>3. /\ count' \in [received : Nat, processed : Nat, succeeded : Nat, failed : Nat]
      /\ count'.received = c.received /\ count'.processed = c.processed + 1
      /\ count'.processed = count'.succeeded + count'.failed
  BY <1>1, <1>2, EndedFacts
<1>4. metric' = [metric EXCEPT ![m] = "failed"] /\ timers' = [timers EXCEPT ![m] = timers[m] + 1]
  BY DEF StartAndFail
<1> QED
  BY <1>1, <1>3, <1>4 DEF MetricsOK, Statuses

LEMMA CompleteEffect ==
    ASSUME MetricsOK, NEW m \in Msgs, NEW success \in BOOLEAN, CompleteProcessing(m, success),
           count.processed = count.succeeded + count.failed
    PROVE  /\ MetricsOK'
           /\ \A n \in Msgs \ {m} : metric'[n] = metric[n] /\ timers'[n] = timers[n]
           /\ metric'[m] # "none" => metric'[m] \in {"completed", "failed"} /\ timers'[m] > 0
           /\ count'.received = count.received
           /\ count'.processed \in {count.processed, count.processed + 1}
           /\ count'.processed = count'.succeeded + count'.failed
<1>1. CASE metric[m] = "none"
  <2>1. UNCHANGED <<metric, timers, count>>
    BY <1>1 DEF CompleteProcessing
  <2> QED
    BY <1>1, <2>1 DEF MetricsOK
<1>2. CASE metric[m] # "none"
  <2>1. /\ metric' = [metric EXCEPT ![m] = IF success THEN "completed" ELSE "failed"]
        /\ timers' = [timers EXCEPT ![m] = timers[m] + 1]
        /\ count' = Ended(count, success)
    BY <1>2 DEF CompleteProcessing
  <2>2. /\ count' \in [received : Nat, processed : Nat, succeeded : Nat, failed : Nat]
        /\ count'.received = count.received /\ count'.processed = count.processed + 1
        /\ count'.processed = count'.succeeded + count'.failed
    BY <2>1, EndedFacts DEF MetricsOK
  <2>3. (IF success THEN "completed" ELSE "failed") \in {"completed", "failed"}
    OBVIOUS
  <2> QED
    BY <2>1, <2>2, <2>3 DEF MetricsOK, Statuses
<1> QED
  BY <1>1, <1>2

\* A poll that moves is in a deletion afterwards, or it is not
LEMMA PollWritten ==
    ASSUME MonitorInv, NEW p \in Polls, NEW x, GoodPoll(x), poll' = [poll EXCEPT ![p] = x]
    PROVE  /\ poll' = [q \in Polls |-> poll'[q]] /\ \A q \in Polls : GoodPoll(poll'[q])
           /\ poll'[p] = x /\ \A q \in Polls \ {p} : poll'[q] = poll[q]
           /\ Deleting' = IF x.at = "delete" THEN Deleting \cup {p} ELSE Deleting \ {p}
           /\ IsFiniteSet(Deleting')
<1>1. /\ poll' = [q \in Polls |-> poll'[q]] /\ \A q \in Polls : GoodPoll(poll'[q])
      /\ poll'[p] = x /\ \A q \in Polls \ {p} : poll'[q] = poll[q]
  BY DEF MonitorInv
<1>2. Deleting' = IF x.at = "delete" THEN Deleting \cup {p} ELSE Deleting \ {p}
  BY <1>1 DEF Deleting
<1>3. IsFiniteSet(Deleting')
  BY <1>2, FS_AddElement, FS_RemoveElement DEF MonitorInv
<1> QED
  BY <1>1, <1>2, <1>3

\* What is counted when the deletions and the counts change together
LEMMA CountedStays ==
    ASSUME MonitorInv, MetricsOK', count'.processed = count'.succeeded + count'.failed,
           count'.processed + Cardinality(Deleting') - count'.received
               <= count.processed + Cardinality(Deleting) - count.received,
           IsFiniteSet(Deleting')
    PROVE  CountedOnce'
<1>1. Cardinality(Deleting) \in Nat /\ Cardinality(Deleting') \in Nat
  BY FS_CardinalityType DEF MonitorInv
<1>2. count.processed + Cardinality(Deleting) <= count.received
  BY DEF MonitorInv, CountedOnce, Deleting
<1>3. count'.processed + Cardinality(Deleting') <= count'.received
  BY <1>1, <1>2 DEF MonitorInv, MetricsOK
<1> QED
  BY <1>3 DEF CountedOnce, Deleting

\* A poll that waits, receives or begins: no count and no metric changes
LEMMA QuietPoll ==
    ASSUME MonitorInv, NEW p \in Polls, NEW x, GoodPoll(x), x.at # "delete",
           poll[p].at # "delete", poll' = [poll EXCEPT ![p] = x],
           running' \in BOOLEAN, dlq' \in [Msgs -> [place : Places, receipt : 0..MaxReceives]],
           UNCHANGED <<metric, timers, count>>
    PROVE  MonitorInv'
<1>1. MetricsOK'
  BY DEF MonitorInv, MetricsOK
<1>2. Deleting' = Deleting
  BY PollWritten DEF Deleting
<1>3. CountedOnce'
  BY <1>2 DEF MonitorInv, CountedOnce, Deleting
<1>4. EntriesEnd'
  <2> SUFFICES ASSUME NEW m \in Msgs, metric[m] = "processing"
               PROVE  \E q \in Polls : poll'[q].at = "delete" /\ InHand(q)' = m
    BY DEF MonitorInv, EntriesEnd
  <2>1. PICK q \in Polls : poll[q].at = "delete" /\ InHand(q) = m
    BY DEF MonitorInv, EntriesEnd
  <2> QED
    BY <2>1, PollWritten DEF InHand
<1> QED
  BY <1>1, <1>2, <1>3, <1>4, PollWritten DEF MonitorInv

\* What the batch of a poll becomes in its hands
LEMMA ReceivedBatch ==
    ASSUME MonitorInv, NEW batch \in Batches,
           dlq' = [m \in Msgs |-> IF m \in Range(batch)
                                  THEN [place |-> "hidden", receipt |-> dlq[m].receipt + 1]
                                  ELSE dlq[m]]
    PROVE  /\ dlq' \in [Msgs -> [place : Places, receipt : 0..MaxReceives]]
           /\ [i \in DOMAIN batch |-> [msg |-> batch[i], receipt |-> dlq'[batch[i]].receipt]]
                  \in Seq(Deliveries)
           /\ batch # <<>> =>
                [i \in DOMAIN batch |-> [msg |-> batch[i], receipt |-> dlq'[batch[i]].receipt]]
                  # <<>>
<1> DEFINE S == {m \in Msgs : dlq[m].place = "visible" /\ dlq[m].receipt < MaxReceives}
<1>1. PICK n \in Nat : batch \in [1..n -> S]
  <2>1. CASE batch = <<>>
    <3>1. batch \in [1..0 -> S]
      BY <2>1
    <3> QED
      BY <3>1
  <2>2. CASE batch # <<>>
    <3>1. PICK n \in 0..BatchSize : batch \in [1..n -> S]
      BY <2>2 DEF Batches, SeqOf
    <3> QED
      BY <3>1
  <2> QED
    BY <2>1, <2>2
<1>2. Range(batch) \subseteq S
  BY <1>1 DEF Range
<1>3. \A m \in S : dlq[m].receipt + 1 \in 1..MaxReceives
  BY MonitorAssumption DEF MonitorInv
<1>4. dlq' \in [Msgs -> [place : Places, receipt : 0..MaxReceives]]
  BY <1>2, <1>3, MonitorAssumption DEF MonitorInv, Places
<1>5. \A i \in 1..n : /\ batch[i] \in Msgs
                      /\ dlq'[batch[i]].receipt \in 1..MaxReceives
  BY <1>1, <1>3 DEF Range
<1> DEFINE rest == [i \in DOMAIN batch |-> [msg |-> batch[i], receipt |-> dlq'[batch[i]].receipt]]
<1>6. DOMAIN batch = 1..n
  BY <1>1
<1>7. rest \in [1..n -> Deliveries]
  BY <1>5, <1>6 DEF Deliveries
<1> HIDE DEF rest
<1>8. rest \in Seq(Deliveries)
  BY <1>7
<1>9. batch # <<>> => rest # <<>>
  BY <1>1, <1>7
<1> QED
  BY <1>4, <1>8, <1>9 DEF rest

LEMMA ReceiveKeeps ==
    ASSUME MonitorInv, NEW p \in Polls, Receive(p)
    PROVE  MonitorInv'
<1>1. PICK batch \in Batches :
         /\ dlq' = [m \in Msgs |-> IF m \in Range(batch)
                                   THEN [place |-> "hidden", receipt |-> dlq[m].receipt + 1]
                                   ELSE dlq[m]]
         /\ poll' = [poll EXCEPT ![p] =
                         IF batch = <<>> THEN Idle
                         ELSE [at |-> "next",
                               rest |-> [i \in DOMAIN batch |->
                                             [msg |-> batch[i], receipt |-> dlq'[batch[i]].receipt]]]]
  BY DEF Receive
<1> DEFINE rest == [i \in DOMAIN batch |-> [msg |-> batch[i], receipt |-> dlq'[batch[i]].receipt]]
           x == IF batch = <<>> THEN Idle ELSE [at |-> "next", rest |-> rest]
<1>2. /\ dlq' \in [Msgs -> [place : Places, receipt : 0..MaxReceives]]
      /\ rest \in Seq(Deliveries)
      /\ batch # <<>> => rest # <<>>
  BY <1>1, ReceivedBatch
<1> HIDE DEF rest
<1>3. GoodPoll(x) /\ x.at # "delete"
  BY <1>2 DEF GoodPoll, Idle, Stages
<1>4. poll' = [poll EXCEPT ![p] = x]
  BY <1>1 DEF rest
<1>5. poll[p].at # "delete" /\ running' \in BOOLEAN /\ UNCHANGED <<metric, timers, count>>
  BY DEF Receive, MonitorInv
<1> HIDE DEF x
<1> QED
  BY <1>2, <1>3, <1>4, <1>5, QuietPoll

LEMMA StartPollKeeps ==
    ASSUME MonitorInv, NEW p \in Polls, StartPoll(p)
    PROVE  MonitorInv'
<1> DEFINE x == [poll[p] EXCEPT !.at = "waiting"]
<1>1. poll' = [poll EXCEPT ![p] = x]
  BY DEF StartPoll
<1>2. GoodPoll(x) /\ x.at # "delete"
  BY DEF MonitorInv, GoodPoll, Stages
<1>3. poll[p].at # "delete"
  BY DEF StartPoll, Idle
<1> HIDE DEF x
<1> QED
  BY <1>1, <1>2, <1>3, QuietPoll DEF StartPoll, MonitorInv

\* The steps that move no poll
LEMMA RestKeeps ==
    ASSUME MonitorInv, StopMonitor \/ \E m \in Msgs : Reappear(m) \/ CleanUp(m)
    PROVE  MonitorInv'
<1>1. CASE StopMonitor \/ \E m \in Msgs : Reappear(m)
  <2>1. UNCHANGED <<poll, metric, timers, count>>
    BY <1>1 DEF StopMonitor, Reappear
  <2>2. running' \in BOOLEAN /\ dlq' \in [Msgs -> [place : Places, receipt : 0..MaxReceives]]
    BY <1>1 DEF StopMonitor, Reappear, MonitorInv, Places
  <2> QED
    BY <2>1, <2>2 DEF MonitorInv, MetricsOK, Deleting, CountedOnce, EntriesEnd, InHand
<1>2. ASSUME NEW m \in Msgs, CleanUp(m)
      PROVE  MonitorInv'
  <2>1. /\ timers' = [timers EXCEPT ![m] = timers[m] - 1] /\ timers[m] > 0
        /\ metric' = [metric EXCEPT ![m] = "none"]
        /\ UNCHANGED <<running, dlq, poll, count>>
    BY <1>2 DEF CleanUp
  <2>2. MetricsOK'
    BY <2>1 DEF MonitorInv, MetricsOK, Statuses
  <2>3. EntriesEnd'
    BY <2>1 DEF MonitorInv, MetricsOK, EntriesEnd, InHand
  <2> QED
    BY <2>1, <2>2, <2>3 DEF MonitorInv, Deleting, CountedOnce
<1> QED
  BY <1>1, <1>2

LEMMA ProcessPollKeeps ==
    ASSUME MonitorInv, NEW p \in Polls, Process(p)
    PROVE  MonitorInv'
<1> DEFINE m == InHand(p)
<1>1. poll[p].at = "next" /\ UNCHANGED <<running, dlq>>
  BY DEF Process
<1>2. m \in Msgs /\ GoodPoll(Rest(p)) /\ Rest(p).at # "delete"
  BY <1>1, HandFacts
<1>3. IsFiniteSet(Deleting) /\ Cardinality(Deleting) \in Nat /\ p \notin Deleting
  BY <1>1, FS_CardinalityType DEF MonitorInv, Deleting
<1>4. MetricsOK /\ count.processed = count.succeeded + count.failed
  BY DEF MonitorInv, CountedOnce
<1>5. CASE StartProcessing(m) /\ poll' = [poll EXCEPT ![p].at = "delete"]
  <2> DEFINE x == [poll[p] EXCEPT !.at = "delete"]
  <2>1. /\ GoodPoll(x) /\ x.at = "delete" /\ x.rest = poll[p].rest
        /\ poll' = [poll EXCEPT ![p] = x]
    BY <1>1, <1>5 DEF MonitorInv, GoodPoll, Stages
  <2> HIDE DEF x
  <2>2. Deleting' = Deleting \cup {p} /\ IsFiniteSet(Deleting')
    BY <2>1, PollWritten
  <2>3. Cardinality(Deleting') = Cardinality(Deleting) + 1
    BY <1>3, <2>2, FS_AddElement
  <2>4. /\ MetricsOK' /\ metric' = [metric EXCEPT ![m] = "processing"] /\ UNCHANGED timers
        /\ count'.received = count.received + 1 /\ count'.processed = count.processed
        /\ count'.processed = count'.succeeded + count'.failed
    BY <1>2, <1>4, <1>5, StartEffect
  <2>5. CountedOnce'
    <3>1. count'.processed + Cardinality(Deleting') - count'.received
            <= count.processed + Cardinality(Deleting) - count.received
      BY <1>3, <1>4, <2>3, <2>4 DEF MetricsOK
    <3> QED
      BY <2>2, <2>4, <3>1, CountedStays
  <2>6. EntriesEnd'
    <3>1. poll'[p].at = "delete" /\ InHand(p)' = m
      BY <2>1, PollWritten DEF InHand
    <3>2. ASSUME NEW q \in Polls, poll[q].at = "delete"
          PROVE  poll'[q].at = "delete" /\ InHand(q)' = InHand(q)
      BY <1>1, <2>1, <3>2, PollWritten DEF InHand
    <3> HIDE DEF m
    <3> QED
      BY <1>2, <1>4, <2>4, <3>1, <3>2 DEF MonitorInv, MetricsOK, EntriesEnd
  <2> QED
    BY <1>1, <2>1, <2>2, <2>4, <2>5, <2>6, PollWritten DEF MonitorInv
<1>6. CASE StartAndFail(m) /\ poll' = [poll EXCEPT ![p] = Rest(p)]
  <2>1. Deleting' = Deleting
    <3>1. Deleting' = Deleting \ {p}
      BY <1>2, <1>6, PollWritten
    <3> QED
      BY <1>3, <3>1
  <2>2. /\ MetricsOK' /\ metric' = [metric EXCEPT ![m] = "failed"]
        /\ timers' = [timers EXCEPT ![m] = timers[m] + 1]
        /\ count'.received = count.received + 1 /\ count'.processed = count.processed + 1
        /\ count'.processed = count'.succeeded + count'.failed
    BY <1>2, <1>4, <1>6, FailEffect
  <2>3. CountedOnce'
    <3>1. count'.processed + Cardinality(Deleting') - count'.received
            <= count.processed + Cardinality(Deleting) - count.received
      BY <1>3, <1>4, <2>1, <2>2 DEF MetricsOK
    <3> QED
      BY <1>3, <2>1, <2>2, <3>1, CountedStays
  <2>4. EntriesEnd'
    <3>1. ASSUME NEW q \in Polls, poll[q].at = "delete"
          PROVE  poll'[q].at = "delete" /\ InHand(q)' = InHand(q)
      BY <1>1, <1>2, <1>6, <3>1, PollWritten DEF InHand
    <3> HIDE DEF m
    <3> QED
      BY <1>2, <1>4, <2>2, <3>1 DEF MonitorInv, MetricsOK, EntriesEnd
  <2> QED
    BY <1>1, <1>2, <1>3, <1>6, <2>1, <2>2, <2>3, <2>4, PollWritten DEF MonitorInv
<1> QED
  BY <1>5, <1>6 DEF Process

LEMMA DeleteKeeps ==
    ASSUME MonitorInv, NEW p \in Polls, Delete(p)
    PROVE  MonitorInv'
<1> DEFINE m == InHand(p)
<1>1. poll[p].at = "delete" /\ UNCHANGED running /\ poll' = [poll EXCEPT ![p] = Rest(p)]
  BY DEF Delete
<1>2. m \in Msgs /\ Head(poll[p].rest) \in Deliveries /\ GoodPoll(Rest(p)) /\ Rest(p).at # "delete"
  BY <1>1, HandFacts
<1>3. IsFiniteSet(Deleting) /\ Cardinality(Deleting) \in Nat /\ p \in Deleting
  BY <1>1, FS_CardinalityType DEF MonitorInv, Deleting
<1>4. MetricsOK /\ count.processed = count.succeeded + count.failed
  BY DEF MonitorInv, CountedOnce
<1>5. PICK success \in BOOLEAN : CompleteProcessing(m, success)
  BY DEF Delete
<1>6. dlq' \in [Msgs -> [place : Places, receipt : 0..MaxReceives]]
  <2>1. dlq' \in {dlq} \cup Deleted(Head(poll[p].rest))
    BY DEF Delete
  <2>2. dlq' \in {dlq, [dlq EXCEPT ![Head(poll[p].rest).msg].place = "deleted"]}
    BY <2>1 DEF Deleted
  <2>3. Head(poll[p].rest).msg \in Msgs
    BY <1>2 DEF Deliveries
  <2> QED
    BY <2>2, <2>3 DEF MonitorInv, Places
<1>7. Deleting' = Deleting \ {p} /\ IsFiniteSet(Deleting')
  BY <1>1, <1>2, PollWritten
<1>8. Cardinality(Deleting') = Cardinality(Deleting) - 1
  BY <1>3, <1>7, FS_RemoveElement
<1>9. /\ MetricsOK'
      /\ \A n \in Msgs \ {m} : metric'[n] = metric[n] /\ timers'[n] = timers[n]
      /\ metric'[m] # "none" => metric'[m] \in {"completed", "failed"} /\ timers'[m] > 0
      /\ count'.received = count.received
      /\ count'.processed \in {count.processed, count.processed + 1}
      /\ count'.processed = count'.succeeded + count'.failed
  BY <1>2, <1>4, <1>5, CompleteEffect
<1>10. CountedOnce'
  <2>1. count'.processed + Cardinality(Deleting') - count'.received
          <= count.processed + Cardinality(Deleting) - count.received
    BY <1>3, <1>4, <1>8, <1>9 DEF MetricsOK
  <2> QED
    BY <1>7, <1>9, <2>1, CountedStays
<1>11. EntriesEnd'
  <2>1. ASSUME NEW q \in Polls, poll[q].at = "delete", InHand(q) # m
        PROVE  poll'[q].at = "delete" /\ InHand(q)' = InHand(q)
    BY <1>1, <1>2, <2>1, PollWritten DEF InHand
  <2> HIDE DEF m
  <2> SUFFICES ASSUME NEW n \in Msgs
               PROVE  CASE metric'[n] = "processing" ->
                               \E q \in Polls : poll'[q].at = "delete" /\ InHand(q)' = n
                        [] metric'[n] \in {"completed", "failed"} -> timers'[n] > 0
                        [] OTHER -> TRUE
    BY DEF EntriesEnd
  <2>2. CASE n = m
    BY <1>9, <2>2
  <2>3. CASE n # m
    BY <1>9, <2>1, <2>3 DEF MonitorInv, EntriesEnd
  <2> QED
    BY <2>2, <2>3
<1> QED
  BY <1>1, <1>2, <1>6, <1>7, <1>9, <1>10, <1>11, PollWritten DEF MonitorInv

LEMMA MonitorInitInv ==
    ASSUME MonitorInit
    PROVE  MonitorInv
<1>1. 0 \in 0..MaxReceives
  BY MonitorAssumption
<1>2. Deleting = {}
  BY DEF MonitorInit, Deleting, Idle
<1>3. IsFiniteSet(Deleting) /\ Cardinality(Deleting) = 0
  BY <1>2, FS_EmptySet
<1>4. CountedOnce
  BY <1>3 DEF MonitorInit, CountedOnce, Deleting
<1>5. poll = [p \in Polls |-> poll[p]] /\ \A p \in Polls : GoodPoll(poll[p])
  BY DEF MonitorInit, GoodPoll, Idle, Stages
<1>6. MetricsOK /\ EntriesEnd
  BY DEF MonitorInit, Statuses, MetricsOK, EntriesEnd
<1> QED
  BY <1>1, <1>3, <1>4, <1>5, <1>6 DEF MonitorInit, MonitorInv, Places

LEMMA MonitorNextInv ==
    ASSUME MonitorInv, MonitorNext
    PROVE  MonitorInv'
BY StartPollKeeps, ReceiveKeeps, ProcessPollKeeps, DeleteKeeps, RestKeeps DEF MonitorNext

----------------------------------------------------------------------------
(* The binary search *)

\* One turn of the loop of findInsertionIndex, where f answers for smaller windows
Turn(f, p, w) ==
    LET left == w[1]
        right == w[2]
        mid == (left + right) \div 2
    IN  IF left >= right THEN left
        ELSE IF queue[mid + 1].prio >= p THEN f[<<mid + 1, right>>]
        ELSE f[<<left, mid>>]

Searches(f, p) == f = [w \in Windows |-> Turn(f, p, w)]

\* What the search finds when the first b messages, and no other, stay before p
Found(b) ==
    [w \in Windows |-> IF w[1] >= w[2] THEN w[1]
                       ELSE IF b < w[1] THEN w[1] ELSE IF b > w[2] THEN w[2] ELSE b]

Boundary(b, p) == b \in 0..Len(queue) /\ \A i \in 1..Len(queue) : queue[i].prio >= p <=> i <= b

LEMMA TurnFacts ==
    ASSUME Len(queue) \in Nat, NEW w \in Windows, w[1] < w[2]
    PROVE  LET mid == (w[1] + w[2]) \div 2
           IN  /\ mid \in Nat /\ w[1] <= mid /\ mid + 1 <= w[2] /\ mid + 1 \in 1..Len(queue)
               /\ <<mid + 1, w[2]>> \in Windows /\ <<w[1], mid>> \in Windows
<1> DEFINE mid == (w[1] + w[2]) \div 2
<1>1. w[1] \in 0..Len(queue) /\ w[2] \in 0..Len(queue)
  BY DEF Windows
<1>2. w[1] \in Nat /\ w[2] \in Nat /\ w[2] <= Len(queue)
  BY <1>1
<1>3. mid \in Nat /\ w[1] <= mid /\ mid + 1 <= w[2]
  BY <1>2
<1> HIDE DEF mid
<1>4. mid + 1 \in 1..Len(queue) /\ mid \in 0..Len(queue) /\ mid + 1 \in 0..Len(queue)
  BY <1>2, <1>3
<1> QED
  BY <1>1, <1>3, <1>4 DEF Windows, mid

LEMMA FoundSearches ==
    ASSUME Len(queue) \in Nat, NEW p, NEW b, Boundary(b, p)
    PROVE  Searches(Found(b), p)
<1> SUFFICES ASSUME NEW w \in Windows
             PROVE  Found(b)[w] = Turn(Found(b), p, w)
  BY DEF Searches, Found
<1> DEFINE mid == (w[1] + w[2]) \div 2
<1>1. w[1] \in Nat /\ w[2] \in Nat /\ b \in Nat
  BY DEF Windows, Boundary
<1>2. CASE w[1] >= w[2]
  BY <1>2 DEF Turn, Found
<1>3. CASE w[1] < w[2]
  <2>1. /\ mid \in Nat /\ w[1] <= mid /\ mid + 1 <= w[2] /\ mid + 1 \in 1..Len(queue)
        /\ <<mid + 1, w[2]>> \in Windows /\ <<w[1], mid>> \in Windows
    BY <1>3, TurnFacts
  <2>2. queue[mid + 1].prio >= p <=> mid + 1 <= b
    BY <2>1 DEF Boundary
  <2>3. Turn(Found(b), p, w) = IF queue[mid + 1].prio >= p THEN Found(b)[<<mid + 1, w[2]>>]
                               ELSE Found(b)[<<w[1], mid>>]
    BY <1>1, <1>3 DEF Turn
  <2>4. Found(b)[<<mid + 1, w[2]>>] =
           IF mid + 1 >= w[2] THEN mid + 1
           ELSE IF b < mid + 1 THEN mid + 1 ELSE IF b > w[2] THEN w[2] ELSE b
    BY <2>1 DEF Found
  <2>5. Found(b)[<<w[1], mid>>] =
           IF w[1] >= mid THEN w[1]
           ELSE IF b < w[1] THEN w[1] ELSE IF b > mid THEN mid ELSE b
    BY <2>1 DEF Found
  <2>6. Found(b)[w] = IF b < w[1] THEN w[1] ELSE IF b > w[2] THEN w[2] ELSE b
    BY <1>1, <1>3 DEF Found
  <2> HIDE DEF mid
  <2> QED
    BY <1>1, <1>3, <2>1, <2>2, <2>3, <2>4, <2>5, <2>6
<1> QED
  BY <1>1, <1>2, <1>3

\* The loop ends: an answer for the smaller windows leaves one for each
LEMMA SearchUnique ==
    ASSUME Len(queue) \in Nat, NEW p, NEW f, Searches(f, p), NEW g, Searches(g, p)
    PROVE  \A w \in Windows : f[w] = g[w]
<1> DEFINE Bad == {n \in Nat : \E w \in Windows : w[2] - w[1] = n /\ f[w] # g[w]}
<1>1. ASSUME NEW w \in Windows
      PROVE  /\ f[w] = Turn(f, p, w) /\ g[w] = Turn(g, p, w)
             /\ w[1] \in Nat /\ w[2] \in Nat
             /\ w[1] >= w[2] => f[w] = g[w]
  <2>1. f[w] = Turn(f, p, w) /\ g[w] = Turn(g, p, w)
    BY DEF Searches
  <2>2. w[1] \in Nat /\ w[2] \in Nat
    BY DEF Windows
  <2> QED
    BY <2>1, <2>2 DEF Turn
<1>2. ASSUME Bad # {}
      PROVE  FALSE
  <2>1. PICK n \in Bad : \A m \in Bad : n <= m
    BY <1>2, MinIn
  <2>2. PICK w \in Windows : w[2] - w[1] = n /\ f[w] # g[w]
    BY <2>1
  <2> DEFINE mid == (w[1] + w[2]) \div 2
  <2>3. w[1] < w[2]
    BY <1>1, <2>2
  <2>4. /\ mid \in Nat /\ w[1] <= mid /\ mid + 1 <= w[2]
        /\ <<mid + 1, w[2]>> \in Windows /\ <<w[1], mid>> \in Windows
    BY <2>3, TurnFacts
  <2>5. /\ f[w] = IF queue[mid + 1].prio >= p THEN f[<<mid + 1, w[2]>>] ELSE f[<<w[1], mid>>]
        /\ g[w] = IF queue[mid + 1].prio >= p THEN g[<<mid + 1, w[2]>>] ELSE g[<<w[1], mid>>]
    BY <1>1, <2>3 DEF Turn
  <2> HIDE DEF mid
  <2>6. f[<<mid + 1, w[2]>>] = g[<<mid + 1, w[2]>>]
    <3>1. w[2] - (mid + 1) \in Nat /\ w[2] - (mid + 1) < n
      BY <1>1, <2>2, <2>4
    <3>2. w[2] - (mid + 1) \notin Bad
      BY <2>1, <3>1
    <3> QED
      BY <2>4, <3>1, <3>2
  <2>7. f[<<w[1], mid>>] = g[<<w[1], mid>>]
    <3>1. mid - w[1] \in Nat /\ mid - w[1] < n
      BY <1>1, <2>2, <2>4
    <3>2. mid - w[1] \notin Bad
      BY <2>1, <3>1
    <3> QED
      BY <2>4, <3>1, <3>2
  <2> QED
    BY <2>2, <2>5, <2>6, <2>7
<1>3. ASSUME NEW w \in Windows
      PROVE  f[w] = g[w]
  <2>1. CASE w[1] < w[2]
    <3>1. w[2] - w[1] \in Nat
      BY <1>1, <2>1
    <3> QED
      BY <1>2, <3>1
  <2> QED
    BY <1>1, <2>1
<1> QED
  BY <1>3

LEMMA IndexIsBoundary ==
    ASSUME Len(queue) \in Nat, NEW p, NEW b, Boundary(b, p)
    PROVE  InsertionIndex(p) = b
<1> DEFINE f == CHOOSE f : Searches(f, p)
<1>1. InsertionIndex(p) = f[<<0, Len(queue)>>]
  BY Zenon DEF InsertionIndex, Searches, Turn
<1>2. Searches(f, p)
  BY FoundSearches
<1> HIDE DEF f
<1>3. <<0, Len(queue)>> \in Windows
  BY DEF Windows
<1>4. f[<<0, Len(queue)>>] = Found(b)[<<0, Len(queue)>>]
  BY <1>2, <1>3, FoundSearches, SearchUnique
<1>5. Found(b)[<<0, Len(queue)>>] = b
  BY <1>3 DEF Found, Boundary
<1> QED
  BY <1>1, <1>4, <1>5

----------------------------------------------------------------------------
(* The filter *)

LeftTurn(f, id, n) ==
    IF n = 0 THEN <<>>
    ELSE IF queue[n].id = id THEN f[n - 1]
    ELSE Append(f[n - 1], queue[n])

LeavesUpTo(f, id, N) == f = [n \in 0..N |-> LeftTurn(f, id, n)]

LEMMA FilterExists ==
    ASSUME NEW id
    PROVE  \A N \in Nat : \E f : LeavesUpTo(f, id, N)
<1> DEFINE Bad == {N \in Nat : ~ \E f : LeavesUpTo(f, id, N)}
<1>1. ASSUME Bad # {}
      PROVE  FALSE
  <2>1. PICK N \in Bad : \A m \in Bad : N <= m
    BY <1>1, MinIn
  <2>2. CASE N = 0
    <3> DEFINE f == [n \in 0..0 |-> <<>>]
    <3>1. \A n \in 0..0 : LeftTurn(f, id, n) = <<>>
      BY DEF LeftTurn
    <3>2. f = [n \in 0..0 |-> LeftTurn(f, id, n)]
      BY <3>1
    <3>3. LeavesUpTo(f, id, 0)
      BY Zenon, <3>2 DEF LeavesUpTo
    <3> QED
      BY <2>1, <2>2, <3>3
  <2>3. CASE N # 0
    <3>1. N - 1 \in Nat /\ N - 1 \notin Bad
      BY <2>1, <2>3
    <3>2. PICK g : LeavesUpTo(g, id, N - 1)
      BY <3>1
    <3> DEFINE f == [n \in 0..N |-> IF n = N THEN LeftTurn(g, id, N) ELSE g[n]]
    <3>3. ASSUME NEW n \in 0..N
          PROVE  f[n] = LeftTurn(f, id, n)
      <4>1. n # 0 => n - 1 \in 0..(N - 1) /\ n - 1 \in 0..N /\ n - 1 # N
        BY <3>1
      <4>2. n # 0 => f[n - 1] = g[n - 1]
        BY <4>1
      <4>3. LeftTurn(f, id, n) = LeftTurn(g, id, n)
        BY <4>2 DEF LeftTurn
      <4>4. CASE n = N
        BY <4>3, <4>4
      <4>5. CASE n # N
        <5>1. n \in 0..(N - 1)
          BY <3>1, <4>5
        <5>2. g[n] = LeftTurn(g, id, n)
          BY <3>2, <5>1 DEF LeavesUpTo
        <5> QED
          BY <4>3, <4>5, <5>2
      <4> QED
        BY <4>4, <4>5
    <3>4. LeavesUpTo(f, id, N)
      BY <3>3 DEF LeavesUpTo
    <3> QED
      BY <2>1, <3>4
  <2> QED
    BY <2>2, <2>3
<1> QED
  BY <1>1

Before(m, n) ==
    \/ m.prio > n.prio
    \/ m.prio = n.prio /\ m.born < n.born

Ordered(s) == \A i, j \in 1..Len(s) : i < j => Before(s[i], s[j])

\* s is what the filter leaves of the first n messages
IsLeft(s, id, n) ==
    /\ s \in Seq(PriorityMessages) /\ Len(s) <= n
    /\ Ordered(s)
    /\ \A i \in 1..Len(s) : \E j \in 1..n : s[i] = queue[j] /\ queue[j].id # id
    /\ \A j \in 1..n : queue[j].id # id => \E i \in 1..Len(s) : s[i] = queue[j]

LEMMA LeftTurnKeeps ==
    ASSUME queue \in Seq(PriorityMessages), Ordered(queue), NEW id,
           NEW n \in 1..Len(queue), NEW s, IsLeft(s, id, n - 1)
    PROVE  IsLeft(IF queue[n].id = id THEN s ELSE Append(s, queue[n]), id, n)
<1>1. n \in Nat /\ n - 1 \in Nat /\ n <= Len(queue) /\ Len(queue) \in Nat
  OBVIOUS
<1>2. s \in Seq(PriorityMessages) /\ Len(s) \in Nat /\ Len(s) <= n - 1
  BY DEF IsLeft
<1>3. CASE queue[n].id = id
  <2>1. \A j \in 1..n : j = n \/ j \in 1..(n - 1)
    BY <1>1
  <2>2. \A j \in 1..(n - 1) : j \in 1..n
    BY <1>1
  <2> QED
    BY <1>1, <1>2, <1>3, <2>1, <2>2 DEF IsLeft
<1>4. CASE queue[n].id # id
  <2> DEFINE t == Append(s, queue[n])
  <2>1. /\ t \in Seq(PriorityMessages) /\ Len(t) = Len(s) + 1
        /\ \A i \in 1..Len(s) : t[i] = s[i]
        /\ t[Len(s) + 1] = queue[n]
    BY <1>2
  <2> HIDE DEF t
  <2>2. \A i \in 1..Len(t) : i = Len(s) + 1 \/ i \in 1..Len(s)
    BY <1>2, <2>1
  <2>3. \A i \in 1..Len(s) : Before(s[i], queue[n])
    <3> SUFFICES ASSUME NEW i \in 1..Len(s) PROVE Before(s[i], queue[n])
      OBVIOUS
    <3>1. PICK j \in 1..(n - 1) : s[i] = queue[j]
      BY DEF IsLeft
    <3>2. j \in 1..Len(queue) /\ j < n
      BY <1>1
    <3> QED
      BY <3>1, <3>2 DEF Ordered
  <2>4. Ordered(t)
    <3> SUFFICES ASSUME NEW i \in 1..Len(t), NEW j \in 1..Len(t), i < j
                 PROVE  Before(t[i], t[j])
      BY DEF Ordered
    <3>1. i \in 1..Len(s)
      BY <1>2, <2>1
    <3>2. CASE j = Len(s) + 1
      BY <2>1, <2>3, <3>1, <3>2
    <3>3. CASE j \in 1..Len(s)
      BY <2>1, <3>1, <3>3 DEF IsLeft, Ordered
    <3> QED
      BY <2>2, <3>2, <3>3
  <2>5. \A i \in 1..Len(t) : \E j \in 1..n : t[i] = queue[j] /\ queue[j].id # id
    <3> SUFFICES ASSUME NEW i \in 1..Len(t)
                 PROVE  \E j \in 1..n : t[i] = queue[j] /\ queue[j].id # id
      OBVIOUS
    <3>1. CASE i = Len(s) + 1
      BY <1>1, <1>4, <2>1, <3>1
    <3>2. CASE i \in 1..Len(s)
      <4>1. PICK j \in 1..(n - 1) : s[i] = queue[j] /\ queue[j].id # id
        BY <3>2 DEF IsLeft
      <4>2. j \in 1..n
        BY <1>1
      <4> QED
        BY <2>1, <3>2, <4>1, <4>2
    <3> QED
      BY <2>2, <3>1, <3>2
  <2>6. \A j \in 1..n : queue[j].id # id => \E i \in 1..Len(t) : t[i] = queue[j]
    <3> SUFFICES ASSUME NEW j \in 1..n, queue[j].id # id
                 PROVE  \E i \in 1..Len(t) : t[i] = queue[j]
      OBVIOUS
    <3>1. CASE j = n
      <4>1. Len(s) + 1 \in 1..Len(t)
        BY <1>2, <2>1
      <4> QED
        BY <2>1, <3>1, <4>1
    <3>2. CASE j # n
      <4>1. j \in 1..(n - 1)
        BY <1>1, <3>2
      <4>2. PICK i \in 1..Len(s) : s[i] = queue[j]
        BY <4>1 DEF IsLeft
      <4>3. i \in 1..Len(t)
        BY <1>2, <2>1
      <4> QED
        BY <2>1, <4>2, <4>3
    <3> QED
      BY <3>1, <3>2
  <2>7. Len(t) <= n
    BY <1>1, <1>2, <2>1
  <2>8. IsLeft(t, id, n)
    BY <2>1, <2>4, <2>5, <2>6, <2>7 DEF IsLeft
  <2> QED
    BY <1>4, <2>8 DEF t
<1> QED
  BY <1>3, <1>4

LEMMA FilterLeaves ==
    ASSUME queue \in Seq(PriorityMessages), Ordered(queue), NEW id
    PROVE  IsLeft(OtherMessages(id), id, Len(queue))
<1> DEFINE f == CHOOSE f : LeavesUpTo(f, id, Len(queue))
           Bad == {n \in Nat : n <= Len(queue) /\ ~IsLeft(f[n], id, n)}
<1>1. OtherMessages(id) = f[Len(queue)]
  BY Zenon DEF OtherMessages, LeavesUpTo, LeftTurn
<1>2. Len(queue) \in Nat
  OBVIOUS
<1>3. LeavesUpTo(f, id, Len(queue))
  <2>1. \E g : LeavesUpTo(g, id, Len(queue))
    BY <1>2, FilterExists
  <2> QED
    BY Zenon, <2>1
<1> HIDE DEF f
<1>4. \A n \in 0..Len(queue) : f[n] = LeftTurn(f, id, n)
  BY <1>3 DEF LeavesUpTo
<1>5. ASSUME Bad # {}
      PROVE  FALSE
  <2>1. PICK n \in Bad : \A m \in Bad : n <= m
    BY <1>5, MinIn
  <2>2. CASE n = 0
    <3>1. f[0] = <<>>
      BY <1>2, <1>4 DEF LeftTurn
    <3>2. IsLeft(<<>>, id, 0)
      BY DEF IsLeft, Ordered
    <3> QED
      BY <2>1, <2>2, <3>1, <3>2
  <2>3. CASE n # 0
    <3>1. n - 1 \in Nat /\ n - 1 <= Len(queue) /\ n \in 1..Len(queue) /\ n \in 0..Len(queue)
      BY <1>2, <2>1, <2>3
    <3>2. n - 1 \notin Bad
      BY <2>1, <3>1
    <3>3. IsLeft(f[n - 1], id, n - 1)
      BY <3>1, <3>2
    <3>4. f[n] = IF queue[n].id = id THEN f[n - 1] ELSE Append(f[n - 1], queue[n])
      BY <1>4, <2>3, <3>1 DEF LeftTurn
    <3> QED
      BY <2>1, <3>1, <3>3, <3>4, LeftTurnKeeps
  <2> QED
    BY <2>2, <2>3
<1>6. IsLeft(f[Len(queue)], id, Len(queue))
  BY <1>2, <1>5
<1> QED
  BY <1>1, <1>6

----------------------------------------------------------------------------
(* The queue *)

QueueInv ==
    /\ QueueTypeOK
    /\ \A i \in 1..Len(queue) : queue[i].born <= born
    /\ Ordered(queue)

LEMMA MessageFacts ==
    ASSUME NEW m \in PriorityMessages
    PROVE  /\ m.prio \in LOW..CRITICAL /\ m.prio \in Int
           /\ m.born \in 1..MaxBorn /\ m.born \in Int
           /\ m.due \in 0..MaxTime /\ m.due \in Int
BY QueueAssumption DEF PriorityMessages, LOW, CRITICAL

LEMMA BoundaryExists ==
    ASSUME QueueInv, NEW p \in Int
    PROVE  \E b : Boundary(b, p)
<1> DEFINE L == Len(queue)
           I == {i \in 1..L : queue[i].prio < p}
           k == IF I # {} THEN Min(I) ELSE 0
           b == IF k = 0 THEN L ELSE k - 1
<1>1. L \in Nat /\ \A i \in 1..L : queue[i].prio \in Int /\ queue[i].born \in Int
  BY MessageFacts DEF QueueInv, QueueTypeOK
<1>2. I \subseteq 1..L
  OBVIOUS
<1>3. /\ k # 0 => k \in I /\ \A i \in I : k <= i
      /\ k = 0 => I = {}
  <2> HIDE DEF I
  <2> QED
    BY <1>1, <1>2, FirstOf
<1> HIDE DEF k
<1>4. k # 0 => k \in 1..L /\ queue[k].prio < p
  BY <1>3
<1>5. b \in 0..L
  BY <1>1, <1>4
<1>6. \A i \in 1..L : queue[i].prio >= p => i <= b
  <2> SUFFICES ASSUME NEW i \in 1..L, queue[i].prio >= p, ~(i <= b)
               PROVE  FALSE
    OBVIOUS
  <2>1. k # 0 /\ k <= i
    BY <1>1, <1>4
  <2>2. CASE i = k
    BY <1>1, <1>4, <2>1, <2>2
  <2>3. CASE i # k
    <3>1. Before(queue[k], queue[i])
      BY <1>1, <1>4, <2>1, <2>3 DEF QueueInv, Ordered
    <3> QED
      BY <1>1, <1>4, <2>1, <3>1 DEF Before
  <2> QED
    BY <2>2, <2>3
<1>7. \A i \in 1..L : i <= b => queue[i].prio >= p
  <2> SUFFICES ASSUME NEW i \in 1..L, i <= b, ~(queue[i].prio >= p)
               PROVE  FALSE
    OBVIOUS
  <2>1. i \in I
    BY <1>1
  <2> HIDE DEF I
  <2>2. k # 0 /\ k <= i
    BY <1>3, <2>1
  <2> QED
    BY <1>1, <1>4, <2>2
<1> HIDE DEF b
<1> QED
  BY <1>5, <1>6, <1>7 DEF Boundary

\* Which messages may be compared
LEMMA ElementFacts ==
    ASSUME QueueTypeOK
    PROVE  /\ Len(queue) \in Nat
           /\ \A i \in 1..Len(queue) :
                 /\ queue[i] \in PriorityMessages
                 /\ queue[i].prio \in Int /\ queue[i].born \in Int /\ queue[i].due \in Int
BY MessageFacts DEF QueueTypeOK

\* The message that Enqueue makes
LEMMA NewMessage ==
    ASSUME QueueTypeOK, born < MaxBorn,
           NEW id \in Ids, NEW base \in Bases, NEW type \in Queues, NEW wait \in Waits
    PROVE  LET p == DynamicPriority(base, type, wait)
           IN  /\ p \in LOW..CRITICAL
               /\ [id |-> id, prio |-> p, born |-> born + 1, due |-> 0] \in PriorityMessages
<1> DEFINE p == DynamicPriority(base, type, wait)
<1>1. base \in 1..10
  BY QueueAssumption DEF LOW, CRITICAL
<1>2. WaitBonus(wait) \in 0..3
  BY QueueAssumption DEF WaitBonus
<1>3. QueueBonus[type] \in 0..2
  <2>1. type \in {"broadcast-tx", "signed-tx", "tx-request"}
    BY QueueAssumption DEF QueueBonus
  <2> QED
    BY <2>1 DEF QueueBonus
<1>4. p \in 1..10
  <2> DEFINE q == QueueBonus[type]
             x == WaitBonus(wait)
  <2>1. q \in 0..2 /\ x \in 0..3
    BY <1>2, <1>3
  <2>2. p = IF base + q + x < 10 THEN base + q + x ELSE 10
    BY DEF DynamicPriority, CRITICAL
  <2> HIDE DEF q, x, p
  <2> QED
    BY <1>1, <2>1, <2>2
<1> HIDE DEF p
<1>5. born + 1 \in 1..MaxBorn /\ 0 \in 0..MaxTime
  BY QueueAssumption DEF QueueTypeOK
<1> QED
  BY <1>4, <1>5 DEF p, LOW, CRITICAL, PriorityMessages

LEMMA FewEnough ==
    ASSUME NEW S, NEW s \in Seq(S)
    PROVE  Cardinality(Range(s)) \in Nat /\ Cardinality(Range(s)) <= Len(s)
<1>1. Len(s) \in Nat /\ s \in [1..Len(s) -> Range(s)]
  BY DEF Range
<1>2. s \in Surjection(1..Len(s), Range(s))
  BY <1>1 DEF Surjection, Range
<1>3. IsFiniteSet(1..Len(s)) /\ Cardinality(1..Len(s)) = Len(s)
  BY <1>1, FS_Interval
<1>4. IsFiniteSet(Range(s)) /\ Cardinality(Range(s)) <= Len(s)
  BY <1>2, <1>3, FS_Surjection
<1> QED
  BY <1>4, FS_CardinalityType

\* MostUrgent has the operator under a name of its own
LEMMA SameCardinality ==
    \A S : Urgency!Cardinality(S) = Cardinality(S)
BY Zenon DEF Urgency!Cardinality, Cardinality

LEMMA EnqueueKeeps ==
    ASSUME QueueInv, NEW id \in Ids, NEW base \in Bases, NEW type \in Queues, NEW wait \in Waits,
           Enqueue(id, base, type, wait)
    PROVE  QueueInv' /\ Urgency!Insert
<1> DEFINE p == DynamicPriority(base, type, wait)
           m == [id |-> id, prio |-> p, born |-> born + 1, due |-> 0]
           L == Len(queue)
<1>1. L < MaxQueueSize /\ born < MaxBorn
  BY DEF Enqueue
<1>2. p \in LOW..CRITICAL /\ p \in Int /\ m \in PriorityMessages
  <2>1. p \in LOW..CRITICAL /\ m \in PriorityMessages
    BY <1>1, NewMessage DEF QueueInv
  <2> QED
    BY <2>1 DEF LOW, CRITICAL
<1>3. m.prio = p /\ m.born = born + 1
  OBVIOUS
<1>4. /\ queue' = InsertAt(queue, InsertionIndex(p) + 1, m)
      /\ born' = born + 1 /\ now' = now /\ taken' = taken
  BY DEF Enqueue
<1> HIDE DEF p, m
<1>5. queue \in Seq(PriorityMessages) /\ L \in Nat /\ born \in Nat
  BY QueueAssumption DEF QueueInv, QueueTypeOK
<1>6. PICK b : Boundary(b, p)
  BY <1>2, BoundaryExists
<1>7. InsertionIndex(p) = b /\ b \in 0..L
  BY <1>5, <1>6, IndexIsBoundary DEF Boundary
<1>8. /\ queue' \in Seq(PriorityMessages) /\ Len(queue') = L + 1
      /\ \A i \in 1..b : queue'[i] = queue[i]
      /\ queue'[b + 1] = m
      /\ \A i \in (b + 1)..L : queue'[i + 1] = queue[i]
  <2>1. PICK k : k = b + 1
    OBVIOUS
  <2>2. /\ queue \in Seq(PriorityMessages) /\ k \in 1..(Len(queue) + 1) /\ m \in PriorityMessages
        /\ queue' = InsertAt(queue, k, m)
    BY <1>2, <1>4, <1>5, <1>7, <2>1
  <2>3. /\ queue' \in Seq(PriorityMessages) /\ Len(queue') = Len(queue) + 1
        /\ \A i \in 1..(k - 1) : queue'[i] = queue[i]
        /\ queue'[k] = m
        /\ \A i \in k..Len(queue) : queue'[i + 1] = queue[i]
    BY <2>2, InsertFacts
  <2> QED
    BY <1>5, <1>7, <2>1, <2>3
<1>9. \A i \in 1..(L + 1) : \/ i \in 1..b /\ i \in 1..L /\ queue'[i] = queue[i]
                            \/ i = b + 1 /\ queue'[i] = m
                            \/ i - 1 \in (b + 1)..L /\ i - 1 \in 1..L /\ queue'[i] = queue[i - 1]
  <2> SUFFICES ASSUME NEW i \in 1..(L + 1), ~(i \in 1..b), i # b + 1
               PROVE  i - 1 \in (b + 1)..L /\ i - 1 \in 1..L /\ queue'[i] = queue[i - 1]
    BY <1>5, <1>7, <1>8
  <2>1. i - 1 \in (b + 1)..L /\ i - 1 \in 1..L /\ (i - 1) + 1 = i
    BY <1>5, <1>7
  <2> QED
    BY <1>8, <2>1
<1>10. QueueTypeOK'
  <2>1. L + 1 <= MaxQueueSize /\ born + 1 \in 0..MaxBorn
    BY <1>1, <1>5, QueueAssumption
  <2> QED
    BY <1>4, <1>8, <2>1 DEF QueueInv, QueueTypeOK
<1>11. \A i \in 1..L : queue[i].born <= born /\ queue[i].born \in Int /\ queue[i].prio \in Int
  BY ElementFacts DEF QueueInv
<1>12. \A i \in 1..(L + 1) : queue'[i].born <= born + 1
  <2> SUFFICES ASSUME NEW i \in 1..(L + 1) PROVE queue'[i].born <= born + 1
    OBVIOUS
  <2>1. CASE i \in 1..L /\ queue'[i] = queue[i]
    BY <1>5, <1>11, <2>1
  <2>2. CASE queue'[i] = m
    BY <1>3, <1>5, <2>2
  <2>3. CASE i - 1 \in 1..L /\ queue'[i] = queue[i - 1]
    BY <1>5, <1>11, <2>3
  <2> QED
    BY <1>9, <2>1, <2>2, <2>3
<1>13. \A i \in 1..b : i \in 1..L /\ Before(queue[i], m)
  <2> SUFFICES ASSUME NEW i \in 1..b PROVE i \in 1..L /\ Before(queue[i], m)
    OBVIOUS
  <2>1. i \in 1..L
    BY <1>5, <1>7
  <2>2. queue[i].prio >= p /\ queue[i].born < born + 1
    BY <1>5, <1>6, <1>11, <2>1 DEF Boundary
  <2> QED
    BY <1>2, <1>3, <1>11, <2>1, <2>2 DEF Before
<1>14. \A i \in (b + 1)..L : i \in 1..L /\ Before(m, queue[i])
  <2> SUFFICES ASSUME NEW i \in (b + 1)..L PROVE i \in 1..L /\ Before(m, queue[i])
    OBVIOUS
  <2>1. i \in 1..L /\ ~(i <= b)
    BY <1>5, <1>7
  <2>2. ~(queue[i].prio >= p)
    BY <1>6, <2>1 DEF Boundary
  <2> QED
    BY <1>2, <1>3, <1>11, <2>1, <2>2 DEF Before
<1>15. Ordered(queue')
  <2> SUFFICES ASSUME NEW i \in 1..(L + 1), NEW j \in 1..(L + 1), i < j
               PROVE  Before(queue'[i], queue'[j])
    BY <1>8 DEF Ordered
  <2>1. \A k, l \in 1..L : k < l => Before(queue[k], queue[l])
    BY DEF QueueInv, Ordered
  <2>2. CASE i \in 1..b /\ i \in 1..L /\ queue'[i] = queue[i]
    <3>1. CASE j \in 1..L /\ queue'[j] = queue[j]
      BY <2>1, <2>2, <3>1
    <3>2. CASE queue'[j] = m
      BY <1>13, <2>2, <3>2
    <3>3. CASE j - 1 \in (b + 1)..L /\ j - 1 \in 1..L /\ queue'[j] = queue[j - 1]
      <4>1. i < j - 1
        BY <1>5, <1>7, <2>2, <3>3
      <4> QED
        BY <2>1, <2>2, <3>3, <4>1
    <3> QED
      BY <1>9, <3>1, <3>2, <3>3
  <2>3. CASE i = b + 1 /\ queue'[i] = m
    <3>1. j - 1 \in (b + 1)..L /\ queue'[j] = queue[j - 1]
      BY <1>5, <1>7, <1>9, <2>3
    <3> QED
      BY <1>14, <2>3, <3>1
  <2>4. CASE i - 1 \in (b + 1)..L /\ i - 1 \in 1..L /\ queue'[i] = queue[i - 1]
    <3>1. j - 1 \in 1..L /\ queue'[j] = queue[j - 1] /\ i - 1 < j - 1
      BY <1>5, <1>7, <1>9, <2>4
    <3> QED
      BY <2>1, <2>4, <3>1
  <2> QED
    BY <1>9, <2>2, <2>3, <2>4
<1>16. Range(queue') = Range(queue) \cup {m} /\ m \in Range(queue') /\ m \notin Range(queue)
  <2>1. DOMAIN queue = 1..L /\ DOMAIN queue' = 1..(L + 1)
    BY <1>5, <1>8
  <2>2. b + 1 \in 1..(L + 1)
    BY <1>5, <1>7
  <2>3. \A i \in 1..(L + 1) : queue'[i] = m \/ \E j \in 1..L : queue'[i] = queue[j]
    BY <1>9
  <2>4. \A j \in 1..L : \E i \in 1..(L + 1) : queue'[i] = queue[j]
    <3> SUFFICES ASSUME NEW j \in 1..L PROVE \E i \in 1..(L + 1) : queue'[i] = queue[j]
      OBVIOUS
    <3>1. CASE j <= b
      <4>1. j \in 1..b /\ j \in 1..(L + 1)
        BY <1>5, <1>7, <3>1
      <4> QED
        BY <1>8, <4>1
    <3>2. CASE ~(j <= b)
      <4>1. j \in (b + 1)..L /\ j + 1 \in 1..(L + 1)
        BY <1>5, <1>7, <3>2
      <4> QED
        BY <1>8, <4>1
    <3> QED
      BY <3>1, <3>2
  <2>5. \A j \in 1..L : queue[j] # m
    <3>1. m.born > born
      BY <1>3, <1>5
    <3> QED
      BY <1>5, <1>11, <3>1
  <2>6. \A x : x \in Range(queue) <=> \E j \in 1..L : x = queue[j]
    BY <2>1 DEF Range
  <2>7. \A x : x \in Range(queue') <=> \E i \in 1..(L + 1) : x = queue'[i]
    BY <2>1 DEF Range
  <2>8. m \in Range(queue')
    BY <1>8, <2>2, <2>7
  <2>9. m \notin Range(queue)
    BY <2>5, <2>6
  <2>10. \A x : x \in Range(queue') <=> x \in Range(queue) \/ x = m
    BY <2>3, <2>4, <2>6, <2>7, <2>8
  <2> QED
    BY <2>8, <2>9, <2>10
<1>17. Cardinality(Range(queue)) < MaxQueueSize
  <2>1. Cardinality(Range(queue)) <= L /\ Cardinality(Range(queue)) \in Nat
    BY <1>5, FewEnough
  <2> QED
    BY <1>1, <1>5, <2>1, QueueAssumption
<1> QED
  <2>1. QueueInv'
    BY <1>4, <1>8, <1>10, <1>12, <1>15 DEF QueueInv
  <2>2. Urgency!Cardinality(Range(queue)) < MaxQueueSize
    BY <1>17, SameCardinality
  <2>3. Urgency!Insert
    BY <1>4, <1>16, <2>2 DEF Urgency!Insert
  <2> QED
    BY <2>1, <2>3

LEMMA DequeueKeeps ==
    ASSUME QueueInv, Dequeue
    PROVE  QueueInv' /\ Urgency!Take
<1> DEFINE L == Len(queue)
           I == {i \in 1..L : Ready(queue[i])}
           k == IF I # {} THEN Min(I) ELSE 0
<1>1. /\ k # 0 /\ queue' = RemoveAt(queue, k) /\ taken' = queue[k]
      /\ now' = now /\ born' = born
  BY DEF Dequeue, SelectInSeq
<1>2. queue \in Seq(PriorityMessages) /\ L \in Nat /\ born \in Nat
  BY QueueAssumption DEF QueueInv, QueueTypeOK
<1>3. k \in I /\ \A i \in I : k <= i
  <2>1. I \subseteq 1..L
    OBVIOUS
  <2> HIDE DEF I
  <2> QED
    BY <1>1, <1>2, <2>1, FirstOf
<1>4. k \in 1..L /\ Ready(queue[k]) /\ \A i \in 1..L : Ready(queue[i]) => k <= i
  BY <1>3
<1> HIDE DEF k
<1>5. /\ queue' \in Seq(PriorityMessages) /\ Len(queue') = L - 1
      /\ \A i \in 1..(k - 1) : queue'[i] = queue[i]
      /\ \A i \in k..(L - 1) : queue'[i] = queue[i + 1]
  BY <1>1, <1>2, <1>4, RemoveFacts
<1>6. \A i, j \in 1..L : i < j => Before(queue[i], queue[j])
  BY DEF QueueInv, Ordered
<1>7. \A i \in 1..L : queue[i].born <= born /\ queue[i].born \in Int /\ queue[i].prio \in Int
  BY ElementFacts DEF QueueInv
<1>8. \A i, j \in 1..L : queue[i] = queue[j] => i = j
  <2> SUFFICES ASSUME NEW i \in 1..L, NEW j \in 1..L, i < j, queue[i] = queue[j]
               PROVE  FALSE
    BY <1>2
  <2> QED
    BY <1>6, <1>7 DEF Before
<1> DEFINE from(i) == IF i < k THEN i ELSE i + 1
<1>9. \A i \in 1..(L - 1) : from(i) \in 1..L /\ from(i) # k /\ queue'[i] = queue[from(i)]
  <2> SUFFICES ASSUME NEW i \in 1..(L - 1)
               PROVE  from(i) \in 1..L /\ from(i) # k /\ queue'[i] = queue[from(i)]
    OBVIOUS
  <2>1. CASE i < k
    <3>1. i \in 1..(k - 1)
      BY <1>2, <1>4, <2>1
    <3> QED
      BY <1>2, <1>4, <1>5, <2>1, <3>1
  <2>2. CASE ~(i < k)
    <3>1. i \in k..(L - 1)
      BY <1>2, <1>4, <2>2
    <3> QED
      BY <1>2, <1>4, <1>5, <2>2, <3>1
  <2> QED
    BY <2>1, <2>2
<1>10. \A i, j \in 1..(L - 1) : i < j => from(i) < from(j)
  BY <1>2, <1>4
<1>11. QueueInv'
  <2>1. QueueTypeOK'
    <3>1. taken' \in PriorityMessages
      BY <1>1, <1>2, <1>4
    <3>2. Len(queue') <= MaxQueueSize
      BY <1>2, <1>5, QueueAssumption DEF QueueInv, QueueTypeOK
    <3> QED
      BY <1>1, <1>5, <3>1, <3>2 DEF QueueInv, QueueTypeOK
  <2>2. \A i \in 1..Len(queue') : queue'[i].born <= born'
    BY <1>1, <1>5, <1>7, <1>9
  <2>3. Ordered(queue')
    BY <1>5, <1>6, <1>9, <1>10 DEF Ordered
  <2> QED
    BY <2>1, <2>2, <2>3 DEF QueueInv
<1>12. Range(queue') = Range(queue) \ {queue[k]}
  <2>1. \A x : x \in Range(queue) <=> \E j \in 1..L : x = queue[j]
    BY <1>2 DEF Range
  <2>2. \A x : x \in Range(queue') <=> \E i \in 1..(L - 1) : x = queue'[i]
    BY <1>5 DEF Range
  <2>3. \A i \in 1..(L - 1) : \E j \in 1..L : j # k /\ queue'[i] = queue[j]
    BY <1>9
  <2>4. ASSUME NEW j \in 1..L, j # k
        PROVE  \E i \in 1..(L - 1) : queue'[i] = queue[j]
    <3>1. CASE j < k
      <4>1. j \in 1..(L - 1) /\ from(j) = j
        BY <1>2, <1>4, <3>1
      <4> QED
        BY <1>9, <4>1
    <3>2. CASE j > k
      <4>1. j - 1 \in 1..(L - 1) /\ from(j - 1) = j
        BY <1>2, <1>4, <3>2
      <4> QED
        BY <1>9, <4>1
    <3> QED
      BY <1>2, <1>4, <2>4, <3>1, <3>2
  <2>5. ASSUME NEW x, x \in Range(queue')
        PROVE  x \in Range(queue) /\ x # queue[k]
    <3>1. PICK j \in 1..L : j # k /\ x = queue[j]
      BY <2>2, <2>3, <2>5
    <3> QED
      BY <1>4, <1>8, <2>1, <3>1
  <2>6. ASSUME NEW x, x \in Range(queue), x # queue[k]
        PROVE  x \in Range(queue')
    <3>1. PICK j \in 1..L : j # k /\ x = queue[j]
      BY <2>1, <2>6
    <3>2. PICK i \in 1..(L - 1) : queue'[i] = queue[j]
      BY <2>4, <3>1
    <3> QED
      BY <2>2, <3>1, <3>2
  <2> QED
    BY <2>5, <2>6
<1>13. Urgency!Take
  <2>1. queue[k] \in Range(queue)
    BY <1>2, <1>4 DEF Range
  <2>2. \A m : Urgency!Ready(m) <=> Ready(m)
    BY DEF Urgency!Ready, Ready
  <2>3. \A n \in Range(queue) : Ready(n) /\ n # queue[k] => Urgency!MoreUrgent(queue[k], n)
    <3> SUFFICES ASSUME NEW n \in Range(queue), Ready(n), n # queue[k]
                 PROVE  Urgency!MoreUrgent(queue[k], n)
      OBVIOUS
    <3>1. PICK j \in 1..L : n = queue[j]
      BY <1>2 DEF Range
    <3>2. k < j
      BY <1>2, <1>4, <3>1
    <3>3. Before(queue[k], n)
      BY <1>4, <1>6, <3>1, <3>2
    <3> QED
      BY <3>3 DEF Before, Urgency!MoreUrgent
  <2> QED
    BY <1>1, <1>4, <1>12, <2>1, <2>2, <2>3 DEF Urgency!Take
<1> QED
  BY <1>11, <1>13

\* A delay changes neither the place nor the priority of the message
LEMMA ScheduleRetryKeeps ==
    ASSUME QueueInv, NEW id, NEW delay \in Delays, ScheduleRetry(id, delay)
    PROVE  QueueInv' /\ Urgency!Postpone
<1> DEFINE L == Len(queue)
           I == {i \in 1..L : queue[i].id = id}
           k == IF I # {} THEN Min(I) ELSE 0
           n == [queue[k] EXCEPT !.due = now + delay]
<1>1. /\ k # 0 /\ now + delay <= MaxTime /\ queue' = [queue EXCEPT ![k].due = now + delay]
      /\ now' = now /\ born' = born /\ taken' = taken
  BY DEF ScheduleRetry, SelectInSeq
<1>2. queue \in Seq(PriorityMessages) /\ L \in Nat /\ now \in Nat /\ delay \in Nat
  BY QueueAssumption DEF QueueInv, QueueTypeOK
<1>3. k \in 1..L
  <2>1. I \subseteq 1..L
    OBVIOUS
  <2>2. k \in I
    <3> HIDE DEF I
    <3> QED
      BY <1>1, <1>2, <2>1, FirstOf
  <2> QED
    BY <2>2
<1> HIDE DEF k
<1>4. queue[k] \in PriorityMessages
  BY <1>2, <1>3
<1>5. /\ n \in PriorityMessages /\ n.due = now + delay
      /\ n.id = queue[k].id /\ n.prio = queue[k].prio /\ n.born = queue[k].born
  <2>1. now + delay \in 0..MaxTime
    BY <1>1, <1>2, QueueAssumption
  <2> QED
    BY <1>4, <2>1 DEF PriorityMessages
<1>6. queue' = [queue EXCEPT ![k] = n]
  BY <1>1
<1> HIDE DEF n
<1>7. /\ queue' \in Seq(PriorityMessages) /\ Len(queue') = L
      /\ queue'[k] = n /\ \A i \in 1..L : i # k => queue'[i] = queue[i]
  BY <1>2, <1>3, <1>5, <1>6
<1>8. \A i \in 1..L : queue'[i].prio = queue[i].prio /\ queue'[i].born = queue[i].born
  BY <1>5, <1>7
<1>9. QueueInv'
  <2>1. QueueTypeOK'
    BY <1>1, <1>7 DEF QueueInv, QueueTypeOK
  <2>2. Ordered(queue')
    BY <1>7, <1>8 DEF QueueInv, Ordered, Before
  <2> QED
    BY <1>1, <1>7, <1>8, <2>1, <2>2 DEF QueueInv
<1>10. \A i \in 1..L : i # k => queue[i] # queue[k]
  <2> SUFFICES ASSUME NEW i \in 1..L, i # k, queue[i] = queue[k]
               PROVE  FALSE
    OBVIOUS
  <2>1. Before(queue[i], queue[k]) \/ Before(queue[k], queue[i])
    BY <1>2, <1>3 DEF QueueInv, Ordered
  <2>2. queue[k].prio \in Int /\ queue[k].born \in Int
    BY <1>3, ElementFacts DEF QueueInv
  <2> QED
    BY <2>1, <2>2 DEF Before
<1>11. Range(queue') = (Range(queue) \ {queue[k]}) \cup {n}
  <2>1. \A x : x \in Range(queue) <=> \E j \in 1..L : x = queue[j]
    BY <1>2 DEF Range
  <2>2. \A x : x \in Range(queue') <=> \E j \in 1..L : x = queue'[j]
    BY <1>7 DEF Range
  <2>3. \A x : x \in Range(queue') <=> (x \in Range(queue) /\ x # queue[k]) \/ x = n
    BY <1>3, <1>7, <1>10, <2>1, <2>2
  <2> QED
    BY <2>3
<1>12. Urgency!Postpone
  <2>1. queue[k] \in Range(queue)
    BY <1>2, <1>3 DEF Range
  <2>2. n \in Range(queue')
    BY <1>11
  <2>3. n.due >= now
    BY <1>2, <1>5
  <2> QED
    BY <1>1, <1>5, <1>11, <2>1, <2>2, <2>3 DEF Urgency!Postpone
<1> QED
  BY <1>9, <1>12

LEMMA RemoveMessageKeeps ==
    ASSUME QueueInv, NEW id, RemoveMessage(id)
    PROVE  QueueInv' /\ Urgency!Discard
<1> DEFINE L == Len(queue)
           I == {i \in 1..L : queue[i].id = id}
           k == IF I # {} THEN Min(I) ELSE 0
<1>1. /\ k # 0 /\ queue' = OtherMessages(id)
      /\ now' = now /\ born' = born /\ taken' = taken
  BY DEF RemoveMessage, SelectInSeq
<1>2. queue \in Seq(PriorityMessages) /\ L \in Nat /\ Ordered(queue)
  BY DEF QueueInv, QueueTypeOK
<1>3. k \in 1..L /\ queue[k].id = id
  <2>1. I \subseteq 1..L
    OBVIOUS
  <2>2. k \in I
    <3> HIDE DEF I
    <3> QED
      BY <1>1, <1>2, <2>1, FirstOf
  <2> QED
    BY <2>2
<1> HIDE DEF k
<1>4. IsLeft(queue', id, L)
  BY <1>1, <1>2, FilterLeaves
<1>5. /\ queue' \in Seq(PriorityMessages) /\ Len(queue') <= L /\ Ordered(queue')
      /\ Len(queue') \in Nat
      /\ \A i \in 1..Len(queue') : \E j \in 1..L : queue'[i] = queue[j] /\ queue[j].id # id
      /\ \A j \in 1..L : queue[j].id # id => \E i \in 1..Len(queue') : queue'[i] = queue[j]
  BY <1>4 DEF IsLeft
<1>6. QueueInv'
  <2>1. Len(queue') <= MaxQueueSize
    BY <1>2, <1>5, QueueAssumption DEF QueueInv, QueueTypeOK
  <2>2. QueueTypeOK'
    BY <1>1, <1>5, <2>1 DEF QueueInv, QueueTypeOK
  <2> QED
    BY <1>1, <1>5, <2>2 DEF QueueInv
<1>7. Range(queue') = {n \in Range(queue) : n.id # queue[k].id}
  <2>1. \A x : x \in Range(queue) <=> \E j \in 1..L : x = queue[j]
    BY <1>2 DEF Range
  <2>2. \A x : x \in Range(queue') <=> \E i \in 1..Len(queue') : x = queue'[i]
    BY <1>5 DEF Range
  <2>3. ASSUME NEW x, x \in Range(queue')
        PROVE  x \in Range(queue) /\ x.id # id
    <3>1. PICK i \in 1..Len(queue') : x = queue'[i]
      BY <2>2, <2>3
    <3>2. PICK j \in 1..L : queue'[i] = queue[j] /\ queue[j].id # id
      BY <1>5
    <3> QED
      BY <2>1, <3>1, <3>2
  <2>4. ASSUME NEW x, x \in Range(queue), x.id # id
        PROVE  x \in Range(queue')
    <3>1. PICK j \in 1..L : x = queue[j]
      BY <2>1, <2>4
    <3>2. PICK i \in 1..Len(queue') : queue'[i] = queue[j]
      BY <1>5, <2>4, <3>1
    <3> QED
      BY <2>2, <3>1, <3>2
  <2> QED
    BY <1>3, <2>3, <2>4
<1>8. queue[k] \in Range(queue)
  BY <1>2, <1>3 DEF Range
<1> QED
  BY <1>1, <1>6, <1>7, <1>8 DEF Urgency!Discard

LEMMA ClearKeeps ==
    ASSUME QueueInv, Clear
    PROVE  QueueInv' /\ Urgency!Discard
<1>1. queue' = <<>> /\ Len(queue') = 0 /\ now' = now /\ born' = born /\ taken' = taken
  BY DEF Clear
<1>2. QueueInv'
  BY <1>1, QueueAssumption DEF QueueInv, QueueTypeOK, Ordered
<1>3. Range(queue') = {}
  BY <1>1 DEF Range
<1> QED
  BY <1>1, <1>2, <1>3 DEF Urgency!Discard

LEMMA ElapseKeeps ==
    ASSUME QueueInv, Elapse
    PROVE  QueueInv' /\ Urgency!Pass
<1>1. /\ now \in 0..MaxTime /\ now < MaxTime /\ now' = now + 1
      /\ queue' = queue /\ born' = born /\ taken' = taken
  BY DEF Elapse, QueueInv, QueueTypeOK
<1>2. now' \in 0..MaxTime /\ now' > now
  BY <1>1, QueueAssumption
<1>3. QueueInv'
  BY <1>1, <1>2 DEF QueueInv, QueueTypeOK
<1> QED
  BY <1>1, <1>2, <1>3 DEF Urgency!Pass

LEMMA QueueNextKeeps ==
    ASSUME QueueInv, [QueueNext]_queueVars
    PROVE  QueueInv' /\ [Urgency!Next]_(Urgency!vars)
<1>1. CASE UNCHANGED queueVars
  BY <1>1 DEF queueVars, QueueInv, QueueTypeOK, Urgency!vars
<1>2. CASE QueueNext
  BY <1>2, EnqueueKeeps, DequeueKeeps, ScheduleRetryKeeps, RemoveMessageKeeps, ClearKeeps,
     ElapseKeeps
  DEF QueueNext, Urgency!Next
<1> QED
  BY <1>1, <1>2

LEMMA QueueInitKeeps ==
    ASSUME QueueInit
    PROVE  QueueInv /\ Urgency!Init
<1>1. queue = <<>> /\ Len(queue) = 0 /\ now = 0 /\ born = 0 /\ taken = <<>>
  BY DEF QueueInit
<1>2. QueueInv
  BY <1>1, QueueAssumption DEF QueueInv, QueueTypeOK, Ordered
<1>3. Range(queue) = {}
  BY <1>1 DEF Range
<1> QED
  BY <1>1, <1>2, <1>3 DEF Urgency!Init

----------------------------------------------------------------------------
(* The service *)

LEMMA ServiceNextInv ==
    ASSUME MonitorInv /\ OrchestratorInv, [Next]_serviceVars
    PROVE  (MonitorInv /\ OrchestratorInv)'
<1>1. CASE MonitorStep
  BY <1>1, MonitorNextInv
  DEF MonitorStep, orchestratorVars, OrchestratorInv, OnlyMendableReturned
<1>2. CASE OrchestratorStep
  <2>1. OrchestratorInv'
    BY <1>2, ProcessKeeps, RequeueKeeps DEF OrchestratorStep, OrchestratorNext
  <2> QED
    BY <1>2, <2>1
    DEF OrchestratorStep, monitorVars, MonitorInv, MetricsOK, Deleting, CountedOnce, EntriesEnd, InHand
<1>3. CASE UNCHANGED <<monitorVars, orchestratorVars>>
  BY <1>3 DEF monitorVars, orchestratorVars, MonitorInv, MetricsOK, Deleting, CountedOnce,
              EntriesEnd, InHand, OrchestratorInv, OnlyMendableReturned
<1> QED
  BY <1>1, <1>2, <1>3 DEF Next, QueueStep, serviceVars

\* The invariant of the monitor and that of the orchestrator hold throughout.
THEOREM ServiceInv == Spec => [](MonitorInv /\ OrchestratorInv)
<1>1. Init => MonitorInv /\ OrchestratorInv
  BY MonitorInitInv, OrchestratorInitInv DEF Init
<1> QED
  BY <1>1, ServiceNextInv, PTL DEF Spec

\* CountedOnce: completeMessageProcessing counts a delivery at most once, however polls
\* overlap and deletions fail.
THEOREM DeliveriesCountedOnce == Spec => []CountedOnce
<1>1. MonitorInv => CountedOnce
  BY DEF MonitorInv
<1> QED
  BY <1>1, ServiceInv, PTL

\* EntriesEnd: an entry of messageMetrics that is 'processing' is in some poll's hand, and
\* for one that ended a clean-up timer is set.
THEOREM AllEntriesEnd == Spec => []EntriesEnd
<1>1. MonitorInv => EntriesEnd
  BY DEF MonitorInv
<1> QED
  BY <1>1, ServiceInv, PTL

\* OnlyMendableReturned: the order of analyze's tests keeps messages about nonces, funds and
\* gas out of the queues, for every set of error texts.
THEOREM OnlyMendableGoesBack == Spec => []OnlyMendableReturned
<1>1. OrchestratorInv => OnlyMendableReturned
  BY DEF OrchestratorInv
<1> QED
  BY <1>1, ServiceInv, PTL

\* TakesMostUrgent: the array with its binary search, its filter and its findIndex is
\* a queue by urgency, for any capacity, identifiers and delays: findInsertionIndex
\* keeps the array sorted, and first in first out among equals.
THEOREM QueueRefines == QueueSpec => TakesMostUrgent
<1>1. QueueInit => QueueInv /\ Urgency!Init
  BY QueueInitKeeps
<1>2. QueueInv /\ [QueueNext]_queueVars => QueueInv' /\ [Urgency!Next]_(Urgency!vars)
  BY QueueNextKeeps
<1> QED
  BY <1>1, <1>2, PTL DEF QueueSpec, TakesMostUrgent, Urgency!Spec

\* TakesMostUrgent of the whole service: monitor and orchestrator leave the queue alone.
THEOREM MostUrgentIsTaken == Spec => TakesMostUrgent
<1>1. Init => QueueInit
  BY DEF Init
<1>2. [Next]_serviceVars => [QueueNext]_queueVars
  BY DEF Next, QueueStep, MonitorStep, OrchestratorStep, serviceVars
<1>3. Spec => QueueSpec
  BY <1>1, <1>2, PTL DEF Spec, QueueSpec
<1> QED
  BY <1>3, QueueRefines

----------------------------------------------------------------------------
(* The types *)

\* What strategies return
LEMMA ResultTypes ==
    ASSUME NEW b \in BOOLEAN, NEW action, NEW retry \in BOOLEAN
    PROVE  /\ Result(b, action, retry).success \in BOOLEAN
           /\ Result(b, action, retry).shouldRetry \in BOOLEAN
BY DEF Result

LEMMA ProcessTypes ==
    ASSUME OrchestratorTypeOK, NEW q \in QueueTypes, NEW text \in Texts, ProcessMessage(q, text)
    PROVE  OrchestratorTypeOK'
<1> DEFINE type == Analyze(text)
           strategy == Strategy(type)
           waits == CanRecover(strategy, type) /\ strategy \in {"network", "unknown"}
<1>1. /\ call' = [at |-> IF waits THEN "delay" ELSE "done", queue |-> q, text |-> text]
      /\ result' \in CASE waits \/ ~CanRecover(strategy, type) -> {NoResult}
                       [] CanRecover(strategy, type) /\ strategy = "nonce" -> NonceResults(text)
                       [] CanRecover(strategy, type) /\ strategy = "gas" -> {GasResult}
      /\ returned' = {}
  BY DEF ProcessMessage
<1>2. strategy \in Strategies
  BY DEF Strategy, Strategies
<1>3. result' \in {NoResult, GasResult} \cup NonceResults(text)
  BY <1>1, <1>2 DEF Strategies
<1>4. \A r \in {NoResult, GasResult} \cup NonceResults(text) :
         r.success \in BOOLEAN /\ r.shouldRetry \in BOOLEAN
  <2>1. \A r \in {NoResult, GasResult} \cup NonceResults(text) :
           \E b, retry \in BOOLEAN : \E action : r = Result(b, action, retry)
    BY DEF NoResult, GasResult, NonceResults
  <2> QED
    BY <2>1, ResultTypes
<1>5. text \subseteq Patterns
  BY OrchestratorAssumption
<1> HIDE DEF waits
<1> QED
  BY <1>1, <1>3, <1>4, <1>5 DEF OrchestratorTypeOK

LEMMA RequeueTypes ==
    ASSUME OrchestratorInv, OrchestratorTypeOK, Requeue
    PROVE  OrchestratorTypeOK'
<1>1. call' = [at |-> "done", queue |-> call.queue, text |-> call.text]
  <2> DEFINE old == call
  <2>1. old = [at |-> old.at, queue |-> old.queue, text |-> old.text]
    BY DEF OrchestratorInv
  <2>2. call' = [old EXCEPT !.at = "done"]
    BY DEF Requeue
  <2> HIDE DEF old
  <2>3. [old EXCEPT !.at = "done"] = [at |-> "done", queue |-> old.queue, text |-> old.text]
    BY <2>1
  <2> QED
    BY <2>2, <2>3 DEF old
<1>2. returned' \subseteq returned \cup {call.queue}
  BY DEF Requeue, TargetQueue
<1>3. result'.success \in BOOLEAN /\ result'.shouldRetry \in BOOLEAN
  BY ResultTypes DEF Requeue
<1> QED
  BY <1>1, <1>2, <1>3 DEF OrchestratorTypeOK

LEMMA OrchestratorTypes ==
    ASSUME OrchestratorInv, OrchestratorTypeOK, [OrchestratorNext]_orchestratorVars
    PROVE  OrchestratorTypeOK'
<1>1. CASE UNCHANGED orchestratorVars
  BY <1>1 DEF orchestratorVars, OrchestratorTypeOK
<1> QED
  BY <1>1, ProcessTypes, RequeueTypes DEF OrchestratorNext

\* The types of the whole service, for any number of messages, polls and texts.
THEOREM ServiceTypeCorrect == Spec => []TypeOK
<1> DEFINE All == QueueInv /\ MonitorInv /\ OrchestratorInv /\ OrchestratorTypeOK
<1>1. Init => All
  <2> SUFFICES ASSUME Init PROVE All
    OBVIOUS
  <2>1. OrchestratorTypeOK
    BY OrchestratorAssumption
       DEF Init, OrchestratorInit, OrchestratorTypeOK, NoResult, Result
  <2> QED
    BY <2>1, QueueInitKeeps, MonitorInitInv, OrchestratorInitInv DEF Init
<1>2. All /\ [Next]_serviceVars => All'
  <2> SUFFICES ASSUME All, [Next]_serviceVars PROVE All'
    OBVIOUS
  <2>1. [QueueNext]_queueVars /\ [OrchestratorNext]_orchestratorVars
    BY DEF Next, QueueStep, MonitorStep, OrchestratorStep, serviceVars
  <2> QED
    BY <2>1, QueueNextKeeps, ServiceNextInv, OrchestratorTypes
<1>3. All => TypeOK
  BY DEF QueueInv, MonitorInv, GoodPoll, MetricsOK, TypeOK, MonitorTypeOK
<1> QED
  BY <1>1, <1>2, <1>3, PTL DEF Spec
=============================================================================
