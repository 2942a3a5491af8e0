--------------------------- MODULE TxBroadcaster ---------------------------
(***************************************************************************)
(* The broadcasters of the signed transactions of one wallet on one chain, *)
(* a transaction being named by its nonce.  A worker receives a batch of   *)
(* messages and handles them concurrently: each asks for the nonce that is *)
(* expected next, then broadcasts its transaction, or keeps it in a buffer *)
(* in memory until those before it were broadcast, or skips it as old.     *)
(* Redis holds a processing lock and a mark per transaction, the last      *)
(* nonce that was broadcast, and the pool of returned nonces.              *)
(*                                                                         *)
(* Calls to Redis and to the queue succeed, except the row update, the     *)
(* report and the deletion after a broadcast.                              *)
(***************************************************************************)
EXTENDS Integers, FiniteSets

CONSTANTS
    Workers,      \* incarnations of the broadcaster
    Running,      \* those that are up at the start
    Txs,          \* nonces of the signed transactions
    Returned,     \* nonces in the pool at the start
    BatchSize,    \* messages received at once (10)
    BufferSize,   \* MAX_BUFFER_SIZE_PER_ADDRESS
    MaxRetries,   \* deliveries before a message goes to the dead-letter queue
    Answers,      \* what the node may refuse a good transaction with
    Faults,       \* how the row update, the report and the deletion may fail; {} also for a node always reachable
    Overlap       \* may a worker start beside others?

ASSUME ConstantsAssumption ==
    /\ Txs \subseteq Nat /\ Returned \subseteq Nat /\ Running \subseteq Workers
    /\ BatchSize \in Nat \ {0} /\ BufferSize \in Nat /\ MaxRetries \in Nat \ {0}
    /\ Answers \cup Faults \subseteq {"retryable", "permanent"}
    /\ Overlap \in BOOLEAN

VARIABLES
    msg,          \* msg[t]: the message of t in signed-tx-queue
    life,         \* life cycle of the workers
    job,          \* job[w][t]: where w stands with the message of t
    memory,       \* memory[w]: lastBroadcastedNonces, None when not known
    buffer,       \* buffer[w]: transactions kept for later
    kept,         \* transactions that were ever in a buffer
    lock,         \* transactions whose key tx:processing is set
    marked,       \* transactions whose key tx:broadcast:completed is set
    last,         \* Redis key nonce:last, None when missing
    pool,         \* nonce_pool
    retries,      \* retries[t]: Redis key tx:retry
    node,         \* transactions the node took
    mined,        \* the node's count, block "latest"
    row,          \* row[t]: status of the withdrawal
    sent          \* results sent to broadcast-tx-queue

queue == <<msg, retries, row, sent>>
redis == <<lock, marked, last, pool>>
local == <<memory, buffer, kept>>
chain == <<node, mined>>
vars == <<queue, redis, local, chain, life, job>>

None == -1
Known == Txs \cup {None}

Stages == {"idle", "pool", "redis", "cache", "chain", "save", "decide", "search", "check", "lock",
           "send", "refused", "mark", "row", "report", "unlock", "last", "takepool", "take",
           "delete", "failure", "fail", "dead", "reportfail"}
Holding == {"send", "refused", "mark", "row", "report", "unlock"}
Errors == {"no", "retryable", "permanent"}
Counts == {0} \cup {t + 1 : t \in Txs}

\* exp is the nonce found to be expected, cur the transaction being broadcast,
\* rest what is left of the transactions taken out of the buffer
Jobs == [at: Stages, exp: Counts \cup Returned, cur: Known, rest: SUBSET Txs, err: Errors]
Idle == [at |-> "idle", exp |-> 0, cur |-> None, rest |-> {}, err |-> "no"]

TypeOK ==
    /\ msg \in [Txs -> {"visible", "hidden", "deleted"}]
    /\ life \in [Workers -> {"new", "up", "down"}]
    /\ job \in [Workers -> [Txs -> Jobs]]
    /\ memory \in [Workers -> Known]
    /\ buffer \in [Workers -> SUBSET Txs]
    /\ kept \subseteq Txs
    /\ lock \subseteq Txs /\ marked \subseteq Txs
    /\ last \in Known
    /\ pool \subseteq Returned
    /\ retries \in [Txs -> 0..MaxRetries]
    /\ node \subseteq Txs /\ mined \in Counts
    /\ row \in [Txs -> {"SIGNED", "BROADCASTED", "FAILED"}]
    /\ sent \subseteq Txs \X {"broadcasted", "failed"}

Init ==
    /\ msg = [t \in Txs |-> "visible"]
    /\ life = [w \in Workers |-> IF w \in Running THEN "up" ELSE "new"]
    /\ job = [w \in Workers |-> [t \in Txs |-> Idle]]
    /\ memory = [w \in Workers |-> None]
    /\ buffer = [w \in Workers |-> {}]
    /\ kept = {}
    /\ lock = {} /\ marked = {} /\ last = None /\ pool = Returned
    /\ retries = [t \in Txs |-> 0]
    /\ node = {} /\ mined = 0
    /\ row = [t \in Txs |-> "SIGNED"]
    /\ sent = {}

Lowest(S) == CHOOSE n \in S : \A m \in S : n <= m

At(w, t, a) == job[w][t].at = a
Goto(w, t, a) == job' = [job EXCEPT ![w][t].at = a]
Expect(w, t, a, n) == job' = [job EXCEPT ![w][t] = [@ EXCEPT !.at = a, !.exp = n]]
Carry(w, t, a, e) == job' = [job EXCEPT ![w][t] = [@ EXCEPT !.at = a, !.err = e]]

----------------------------------------------------------------------------
(* Receiving *)

\* processLoop waits for all messages of a batch
Receive(w) ==
    /\ life[w] = "up" /\ \A t \in Txs : At(w, t, "idle")
    /\ \E M \in SUBSET {t \in Txs : msg[t] = "visible"} :
        /\ M # {} /\ Cardinality(M) <= BatchSize
        /\ msg' = [t \in Txs |-> IF t \in M THEN "hidden" ELSE msg[t]]
        /\ job' = [job EXCEPT ![w] = [t \in Txs |-> IF t \in M THEN [Idle EXCEPT !.at = "pool"]
                                                    ELSE Idle]]
    /\ UNCHANGED <<retries, row, sent, redis, local, chain, life>>

\* SQS shows a message again that was not deleted in time
Redeliver(t) ==
    /\ msg[t] = "hidden"
    /\ msg' = [msg EXCEPT ![t] = "visible"]
    /\ UNCHANGED <<retries, row, sent, redis, local, chain, life, job>>

----------------------------------------------------------------------------
(* getExpectedNonce *)

\* ZPOPMIN on the pool, then the memory cache
AskPool(w, t) ==
    /\ \/ At(w, t, "pool")
       \/ At(w, t, "takepool") /\ buffer[w] # {}
    /\ LET next == IF At(w, t, "pool") THEN "decide" ELSE "take"
       IN  \/ /\ pool # {}
              /\ Expect(w, t, next, Lowest(pool))
              /\ pool' = pool \ {Lowest(pool)}
           \/ /\ pool = {} /\ memory[w] # None
              /\ Expect(w, t, next, memory[w] + 1)
              /\ UNCHANGED pool
           \/ /\ pool = {} /\ memory[w] = None
              /\ Goto(w, t, "redis")
              /\ UNCHANGED pool
    /\ UNCHANGED <<queue, lock, marked, last, local, chain, life>>

\* The answer is cached when it arrives, whatever was cached meanwhile
AskRedis(w, t) ==
    /\ At(w, t, "redis")
    /\ \/ last # None /\ Expect(w, t, "cache", last + 1)
       \/ last = None /\ Goto(w, t, "chain")
    /\ UNCHANGED <<queue, redis, local, chain, life>>

CacheLast(w, t) ==
    /\ At(w, t, "cache")
    /\ memory' = [memory EXCEPT ![w] = job[w][t].exp - 1]
    /\ Goto(w, t, "decide")
    /\ UNCHANGED <<queue, redis, buffer, kept, chain, life>>

\* getBlockchainNonce.  When the node cannot be reached after all attempts, the text that is
\* thrown belongs to no class of errors, and such a one is permanent.
AskChain(w, t) ==
    /\ At(w, t, "chain")
    /\ \/ mined > 0 /\ Expect(w, t, "save", mined)
       \/ mined = 0 /\ Expect(w, t, "decide", 0)
       \/ /\ Faults # {}
          /\ Carry(w, t, "failure", "permanent")
    /\ UNCHANGED <<queue, redis, local, chain, life>>

SaveChain(w, t) ==
    /\ At(w, t, "save")
    /\ memory' = [memory EXCEPT ![w] = job[w][t].exp - 1]
    /\ last' = job[w][t].exp - 1
    /\ Goto(w, t, "decide")
    /\ UNCHANGED <<queue, lock, marked, pool, buffer, kept, chain, life>>

----------------------------------------------------------------------------
(* processTransactionWithSQSSearch *)

\* A decision that takes the expected nonce itself for an old one
DecideLate(w, t) ==
    /\ At(w, t, "decide")
    /\ job' = [job EXCEPT ![w][t].at = IF t > job[w][t].exp THEN "search" ELSE "delete"]
    /\ UNCHANGED <<queue, redis, local, chain, life>>

\* A decision that does not wait for the nonces before
DecideEager(w, t) ==
    /\ At(w, t, "decide")
    /\ job' = [job EXCEPT ![w][t] = [@ EXCEPT !.at = "check", !.cur = t]]
    /\ UNCHANGED <<queue, redis, local, chain, life>>

Decide(w, t) ==
    /\ At(w, t, "decide")
    /\ \/ /\ t = job[w][t].exp
          /\ job' = [job EXCEPT ![w][t] = [@ EXCEPT !.at = "check", !.cur = t]]
       \/ /\ t > job[w][t].exp
          /\ Goto(w, t, "search")
       \/ /\ t < job[w][t].exp
          /\ Goto(w, t, "delete")
    /\ UNCHANGED <<queue, redis, local, chain, life>>

\* searchSQSForMissingNonces receives messages, which hides them, and looks for a
\* field that the signing service does not send, so it never finds one.  Then
\* addToBuffer keeps the transaction unless the buffer is full.
Search(w, t) ==
    /\ At(w, t, "search")
    /\ \E H \in SUBSET {u \in Txs : msg[u] = "visible"} :
        msg' = [u \in Txs |-> IF u \in H THEN "hidden" ELSE msg[u]]
    /\ IF Cardinality(buffer[w]) < BufferSize
       THEN /\ buffer' = [buffer EXCEPT ![w] = @ \cup {t}]
            /\ kept' = kept \cup {t}
       ELSE UNCHANGED <<buffer, kept>>
    /\ Goto(w, t, "delete")
    /\ UNCHANGED <<retries, row, sent, redis, memory, chain, life>>

----------------------------------------------------------------------------
(* broadcastTransaction *)

\* A failure ends the handling of the message's own transaction.  For one from
\* the buffer it ends the sequence, and the message was a success.
Fail(w, t, e) ==
    IF job[w][t].cur = t
    THEN Carry(w, t, "failure", e)
    ELSE job' = [job EXCEPT ![w][t] = [@ EXCEPT !.at = "delete", !.rest = {}, !.err = "no"]]

CheckBroadcasted(w, t) ==
    /\ At(w, t, "check")
    /\ Goto(w, t, IF job[w][t].cur \in marked THEN "last" ELSE "lock")
    /\ UNCHANGED <<queue, redis, local, chain, life>>

\* A lock that is set without NX
SetProcessingAlways(w, t) ==
    /\ At(w, t, "lock")
    /\ lock' = lock \cup {job[w][t].cur}
    /\ Goto(w, t, "send")
    /\ UNCHANGED <<queue, marked, last, pool, local, chain, life>>

\* SET NX.  The failure has no error text, which is classified as permanent.
SetProcessing(w, t) ==
    /\ At(w, t, "lock")
    /\ \/ /\ job[w][t].cur \notin lock
          /\ lock' = lock \cup {job[w][t].cur}
          /\ Goto(w, t, "send")
       \/ /\ job[w][t].cur \in lock
          /\ Fail(w, t, "permanent")
          /\ UNCHANGED lock
    /\ UNCHANGED <<queue, marked, last, pool, local, chain, life>>

\* provider.broadcastTransaction.  A second broadcast is refused: "already known"
\* has no class of its own, "nonce too low" is not a permanent failure.
Send(w, t) ==
    /\ At(w, t, "send")
    /\ LET c == job[w][t].cur
       IN  \/ /\ c \notin node
              /\ node' = node \cup {c}
              /\ Goto(w, t, "mark")
           \/ /\ c \notin node
              /\ \E e \in Answers :
                    Carry(w, t, "refused", e)
              /\ UNCHANGED node
           \/ /\ "retryable" \in Answers          \* taken, but the answer is lost
              /\ node' = node \cup {c}
              /\ Carry(w, t, "refused", "retryable")
           \/ /\ c \in node
              /\ Carry(w, t, "refused", IF c < mined THEN "retryable" ELSE "permanent")
              /\ UNCHANGED node
    /\ UNCHANGED <<queue, redis, local, mined, life>>

\* The error is classified as a string, which makes every error permanent here
Refused(w, t) ==
    /\ At(w, t, "refused")
    /\ sent' = sent \cup {<<job[w][t].cur, "failed">>}
    /\ Goto(w, t, "unlock")
    /\ UNCHANGED <<msg, retries, row, redis, local, chain, life>>

MarkBroadcasted(w, t) ==
    /\ At(w, t, "mark")
    /\ marked' = marked \cup {job[w][t].cur}
    /\ Goto(w, t, "row")
    /\ UNCHANGED <<queue, lock, last, pool, local, chain, life>>

Throw(w, t) ==
    \E e \in Faults :
        Carry(w, t, "unlock", e)

UpdateToBroadcasted(w, t) ==
    /\ At(w, t, "row")
    /\ \/ /\ row' = [row EXCEPT ![job[w][t].cur] = "BROADCASTED"]
          /\ Goto(w, t, "report")
       \/ /\ Throw(w, t)
          /\ UNCHANGED row
    /\ UNCHANGED <<msg, retries, sent, redis, local, chain, life>>

SendBroadcastResult(w, t) ==
    /\ At(w, t, "report")
    /\ \/ /\ sent' = sent \cup {<<job[w][t].cur, "broadcasted">>}
          /\ Goto(w, t, "unlock")
       \/ /\ Throw(w, t)
          /\ UNCHANGED sent
    /\ UNCHANGED <<msg, retries, row, redis, local, chain, life>>

\* An unlocking that forgets why
RemoveProcessingAlways(w, t) ==
    /\ At(w, t, "unlock")
    /\ lock' = lock \ {job[w][t].cur}
    /\ Goto(w, t, "last")
    /\ UNCHANGED <<queue, marked, last, pool, local, chain, life>>

RemoveProcessing(w, t) ==
    /\ At(w, t, "unlock")
    /\ lock' = lock \ {job[w][t].cur}
    /\ \/ /\ job[w][t].err = "no"
          /\ Goto(w, t, "last")
       \/ /\ job[w][t].err # "no"
          /\ Fail(w, t, job[w][t].err)
    /\ UNCHANGED <<queue, marked, last, pool, local, chain, life>>

----------------------------------------------------------------------------
(* After a broadcast: updateLastBroadcastedNonce and processBufferedSequence *)

\* The next of the transactions taken out of the buffer, or the message's end
NextBuffered(w, t, R) ==
    IF R = {}
    THEN job' = [job EXCEPT ![w][t] = [@ EXCEPT !.at = "delete", !.rest = {}]]
    ELSE job' = [job EXCEPT ![w][t] = [@ EXCEPT !.at = "check", !.cur = Lowest(R),
                                                !.rest = R \ {Lowest(R)}]]

\* An update that is one too far
UpdateLastAhead(w, t) ==
    /\ At(w, t, "last")
    /\ memory' = [memory EXCEPT ![w] = job[w][t].cur + 1]
    /\ last' = job[w][t].cur + 1
    /\ IF job[w][t].cur = t THEN Goto(w, t, "takepool") ELSE NextBuffered(w, t, job[w][t].rest)
    /\ UNCHANGED <<queue, lock, marked, pool, buffer, kept, chain, life>>

UpdateLast(w, t) ==
    /\ At(w, t, "last")
    /\ memory' = [memory EXCEPT ![w] = job[w][t].cur]
    /\ last' = job[w][t].cur
    /\ IF job[w][t].cur = t THEN Goto(w, t, "takepool") ELSE NextBuffered(w, t, job[w][t].rest)
    /\ UNCHANGED <<queue, lock, marked, pool, buffer, kept, chain, life>>

NothingBuffered(w, t) ==
    /\ At(w, t, "takepool") /\ buffer[w] = {}
    /\ Goto(w, t, "delete")
    /\ UNCHANGED <<queue, redis, local, chain, life>>

\* The consecutive nonces from n on that are in the buffer.  The memory says that
\* they were broadcast before they are.
Run(B, n) == {m \in B : m >= n /\ \A k \in n..m : k \in B}

\* (An emptied buffer leaves the map by its address: a new one that other messages began
\* meanwhile goes with it.  That is left out: it takes four transactions, and what is lost
\* is in kept.)
Take(w, t) ==
    /\ At(w, t, "take")
    /\ LET R == Run(buffer[w], job[w][t].exp)
       IN  /\ buffer' = [buffer EXCEPT ![w] = @ \ R]
           /\ \/ R = {} /\ UNCHANGED memory
              \/ \E n \in R : /\ \A m \in R : m <= n
                              /\ memory' = [memory EXCEPT ![w] = n]
           /\ NextBuffered(w, t, R)
    /\ UNCHANGED <<queue, redis, kept, chain, life>>

----------------------------------------------------------------------------
(* The end of a message *)

DeleteMessage(w, t) ==
    /\ At(w, t, "delete")
    /\ \/ /\ msg' = [msg EXCEPT ![t] = "deleted"]
          /\ job' = [job EXCEPT ![w][t] = Idle]
       \/ /\ job[w][t].err = "no"
          /\ \E e \in Faults :
                Carry(w, t, "failure", e)
          /\ UNCHANGED msg
    /\ UNCHANGED <<retries, row, sent, redis, local, chain, life>>

\* handleFailure: the text alone decides, whether or not the transaction went out
HandleFailure(w, t) ==
    /\ At(w, t, "failure")
    /\ \/ /\ job[w][t].err = "permanent"
          /\ Goto(w, t, "fail")
          /\ UNCHANGED retries
       \/ /\ job[w][t].err = "retryable"
          /\ retries' = [retries EXCEPT ![t] = IF @ < MaxRetries THEN @ + 1 ELSE @]
          /\ IF retries[t] + 1 < MaxRetries THEN job' = [job EXCEPT ![w][t] = Idle]
             ELSE Goto(w, t, "dead")
    /\ UNCHANGED <<msg, row, sent, redis, local, chain, life>>

UpdateToFailed(w, t) ==
    /\ At(w, t, "fail")
    /\ row' = [row EXCEPT ![t] = "FAILED"]
    /\ Goto(w, t, "reportfail")
    /\ UNCHANGED <<msg, retries, sent, redis, local, chain, life>>

\* The message stays when the dead-letter queue cannot be reached
SendToDLQ(w, t) ==
    /\ At(w, t, "dead")
    /\ \/ Goto(w, t, "reportfail")
       \/ /\ Faults # {}
          /\ job' = [job EXCEPT ![w][t] = Idle]
    /\ UNCHANGED <<queue, redis, local, chain, life>>

ReportFailure(w, t) ==
    /\ At(w, t, "reportfail")
    /\ sent' = sent \cup {<<t, "failed">>}
    /\ Goto(w, t, "delete")
    /\ UNCHANGED <<msg, retries, row, redis, local, chain, life>>

----------------------------------------------------------------------------
(* Environment *)

Mine ==
    /\ mined \in node
    /\ mined' = mined + 1
    /\ UNCHANGED <<queue, redis, local, node, life, job>>

\* The memory of a worker is gone, what it wrote to Redis is not
Crash(w) ==
    /\ life[w] = "up"
    /\ life' = [life EXCEPT ![w] = "down"]
    /\ job' = [job EXCEPT ![w] = [t \in Txs |-> Idle]]
    /\ memory' = [memory EXCEPT ![w] = None]
    /\ buffer' = [buffer EXCEPT ![w] = {}]
    /\ UNCHANGED <<queue, redis, kept, chain>>

\* testConnections deletes the locks, whoever holds them
Start(w) ==
    /\ life[w] = "new"
    /\ Overlap \/ \A v \in Workers : life[v] # "up"
    /\ life' = [life EXCEPT ![w] = "up"]
    /\ lock' = {}
    /\ UNCHANGED <<queue, marked, last, pool, local, chain, job>>

Step(w, t) ==
    \/ AskPool(w, t) \/ AskRedis(w, t) \/ CacheLast(w, t) \/ AskChain(w, t) \/ SaveChain(w, t)
    \/ Decide(w, t) \/ Search(w, t)
    \/ CheckBroadcasted(w, t) \/ SetProcessing(w, t) \/ Send(w, t) \/ Refused(w, t)
    \/ MarkBroadcasted(w, t) \/ UpdateToBroadcasted(w, t) \/ SendBroadcastResult(w, t)
    \/ RemoveProcessing(w, t) \/ UpdateLast(w, t) \/ NothingBuffered(w, t) \/ Take(w, t)
    \/ DeleteMessage(w, t) \/ HandleFailure(w, t) \/ UpdateToFailed(w, t)
    \/ SendToDLQ(w, t) \/ ReportFailure(w, t)

Next ==
    \/ \E w \in Workers :
        Receive(w) \/ Crash(w) \/ Start(w) \/ \E t \in Txs : Step(w, t)
    \/ (\E t \in Txs : Redeliver(t)) \/ Mine

Spec == Init /\ [][Next]_vars

\* A worker that runs does its next step, messages come back, and one that stays
\* in the queue is received at some time.
FairSpec ==
    /\ Spec
    /\ \A w \in Workers, t \in Txs : WF_vars(Step(w, t))
    /\ \A t \in Txs : WF_vars(Redeliver(t))
    /\ \A w \in Workers, t \in Txs : SF_vars(Receive(w) /\ msg[t] = "visible" /\ msg'[t] = "hidden")

----------------------------------------------------------------------------
(* Properties *)

\* A transaction that is written BROADCASTED, reported as such or marked in Redis
\* was taken by the node, whoever broadcast it and whatever failed afterwards.
ReportedAccepted ==
    \A t \in Txs :
        row[t] = "BROADCASTED" \/ <<t, "broadcasted">> \in sent \/ t \in marked => t \in node

\* The last nonce in Redis, from which every worker counts on, is that of a
\* transaction the node took: a failed broadcast never moves it.
LastTaken == last # None => last \in node

\* Whatever is on record as broadcast, for the other services or for the next worker,
\* was taken by the node.
RecordsTrue == ReportedAccepted /\ LastTaken

\* "Processes transactions sequentially to maintain nonce order": when the node takes a
\* transaction, each one of a lower nonce was taken before it, was given up with a report,
\* or was in a buffer, after which the next one may overtake it: once it is taken out,
\* the memory says that it was broadcast.
OrderKept ==
    [][\A t \in node' \ node, u \in Txs :
         u < t => u \in node \cup kept \/ <<u, "failed">> \in sent]_vars

\* Between taking a processing lock and removing it, nobody else holds it: not
\* another worker, and not the same worker by its buffer.
LockExclusive ==
    \A v, w \in Workers, t, u \in Txs :
        (/\ job[v][t].at \in Holding /\ job[w][u].at \in Holding
         /\ job[v][t].cur = job[w][u].cur)
            => v = w /\ t = u

\* The queue forgets a transaction only when the node took it, its failure was
\* reported, or it was in a worker's buffer.
DeletedAccounted ==
    \A t \in Txs :
        msg[t] = "deleted" => t \in node \/ <<t, "failed">> \in sent \/ t \in kept

\* "Once gaps are filled, processes buffered transactions in order": when no worker
\* stops, every transaction is broadcast at last.
Delivered == [](\A w \in Workers : life[w] # "down") => <>(Txs \subseteq node)
=============================================================================
