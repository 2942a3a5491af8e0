--------------------------- MODULE PriorityQueue ---------------------------
(***************************************************************************)
(* The priority queue of the recovery service: an array kept in order of   *)
(* priority by insertion with a binary search, from which the first ready  *)
(* message is taken.  No class of the service uses it yet; every method    *)
(* may be called at any time, with any identifier, and one identifier may  *)
(* be enqueued again while it waits, since the dead-letter queue delivers  *)
(* a message again after 300 s.                                            *)
(*                                                                         *)
(* Priorities are the numbers of MessagePriority; time is counted in       *)
(* steps, and how long a message has been on its way is given with it.     *)
(***************************************************************************)
EXTENDS Integers, Sequences, SequencesExt

CONSTANTS
    Ids,          \* identifiers of messages
    Queues,       \* types of dead-letter queues, from QueueBonus
    Bases,        \* priorities that callers give
    Waits,        \* minutes since the timestamp of a message
    Delays,       \* retry delays
    MaxQueueSize,
    MaxTime,      \* bound on time
    MaxBorn       \* bound on the messages ever enqueued

VARIABLES queue, now, born, taken

queueVars == <<queue, now, born, taken>>

LOW == 1
NORMAL == 5
CRITICAL == 10

QueueBonus == [q \in {"broadcast-tx", "signed-tx", "tx-request"} |->
                  CASE q = "broadcast-tx" -> 2 [] q = "signed-tx" -> 1 [] OTHER -> 0]

ASSUME QueueAssumption ==
    /\ Queues \subseteq DOMAIN QueueBonus
    /\ Bases \subseteq LOW..CRITICAL
    /\ Waits \subseteq Nat /\ Delays \subseteq Nat
    /\ MaxQueueSize \in Nat \ {0} /\ MaxTime \in Nat /\ MaxBorn \in Nat

\* born is insertTime, due is retryAfter with 0 for none
PriorityMessages == [id : Ids, prio : LOW..CRITICAL, born : 1..MaxBorn, due : 0..MaxTime]

WaitBonus(minutes) ==
    CASE minutes > 60 -> 3
      [] minutes > 30 /\ minutes <= 60 -> 2
      [] minutes > 10 /\ minutes <= 30 -> 1
      [] OTHER -> 0

\* Mutant: the sum is not capped
DynamicPriorityUncapped(base, type, wait) == base + QueueBonus[type] + WaitBonus(wait)

DynamicPriority(base, type, wait) ==
    LET p == base + QueueBonus[type] + WaitBonus(wait)
    IN  IF p < CRITICAL THEN p ELSE CRITICAL

\* left and right of the binary search
Windows == (0..Len(queue)) \X (0..Len(queue))

\* Mutant: an equal priority is searched for to the left
LeftmostIndex(p) ==
    LET search[w \in Windows] ==
            LET left == w[1]
                right == w[2]
                mid == (left + right) \div 2
            IN  IF left >= right THEN left
                ELSE IF queue[mid + 1].prio > p THEN search[<<mid + 1, right>>]
                ELSE search[<<left, mid>>]
    IN  search[<<0, Len(queue)>>]

\* findInsertionIndex: how many messages stay before the new one
InsertionIndex(p) ==
    LET search[w \in Windows] ==
            LET left == w[1]
                right == w[2]
                mid == (left + right) \div 2
            IN  IF left >= right THEN left
                ELSE IF queue[mid + 1].prio >= p THEN search[<<mid + 1, right>>]
                ELSE search[<<left, mid>>]
    IN  search[<<0, Len(queue)>>]

\* At capacity the message is dropped, whatever its priority
Enqueue(id, base, type, wait) ==
    LET p == DynamicPriority(base, type, wait)
        m == [id |-> id, prio |-> p, born |-> born + 1, due |-> 0]
    IN  /\ Len(queue) < MaxQueueSize /\ born < MaxBorn
        /\ queue' = InsertAt(queue, InsertionIndex(p) + 1, m)
        /\ born' = born + 1
        /\ UNCHANGED <<now, taken>>

Ready(m) == m.due <= now

\* The first message that is ready
Dequeue ==
    LET i == SelectInSeq(queue, Ready)
    IN  /\ i # 0
        /\ queue' = RemoveAt(queue, i)
        /\ taken' = queue[i]
        /\ UNCHANGED <<now, born>>

\* Only a message that is still in the queue is found, and of several with the
\* identifier the first
ScheduleRetry(id, delay) ==
    LET i == SelectInSeq(queue, LAMBDA m : m.id = id)
    IN  /\ i # 0 /\ now + delay <= MaxTime
        /\ queue' = [queue EXCEPT ![i].due = now + delay]
        /\ UNCHANGED <<now, born, taken>>

\* The filter of removeMessage: what is left of the first n messages
OtherMessages(id) ==
    LET left[n \in 0..Len(queue)] ==
            IF n = 0 THEN <<>>
            ELSE IF queue[n].id = id THEN left[n - 1]
            ELSE Append(left[n - 1], queue[n])
    IN  left[Len(queue)]

RemoveMessage(id) ==
    /\ SelectInSeq(queue, LAMBDA m : m.id = id) # 0
    /\ queue' = OtherMessages(id)
    /\ UNCHANGED <<now, born, taken>>

Clear == queue # <<>> /\ queue' = <<>> /\ UNCHANGED <<now, born, taken>>

Elapse == now < MaxTime /\ now' = now + 1 /\ UNCHANGED <<queue, born, taken>>

QueueInit == queue = <<>> /\ now = 0 /\ born = 0 /\ taken = <<>>

QueueNext ==
    \/ \E id \in Ids, base \in Bases, type \in Queues, wait \in Waits :
           Enqueue(id, base, type, wait)
    \/ Dequeue
    \/ \E id \in Ids : RemoveMessage(id) \/ \E delay \in Delays : ScheduleRetry(id, delay)
    \/ Clear
    \/ Elapse

QueueSpec == QueueInit /\ [][QueueNext]_queueVars

----------------------------------------------------------------------------
(* Properties *)

\* Type invariant.
QueueTypeOK ==
    /\ queue \in Seq(PriorityMessages) /\ Len(queue) <= MaxQueueSize
    /\ now \in 0..MaxTime /\ born \in 0..MaxBorn
    /\ taken \in PriorityMessages \cup {<<>>}

\* The array, its binary search and findIndex give what a queue by urgency
\* promises: whoever dequeues gets the most urgent message that is ready, in spite
\* of retries, removals and capped priorities.
Urgency == INSTANCE MostUrgent WITH
    waiting <- Range(queue), out <- taken, Capacity <- MaxQueueSize

TakesMostUrgent == Urgency!Spec
=============================================================================
