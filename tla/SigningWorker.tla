--------------------------- MODULE SigningWorker ---------------------------
(***************************************************************************)
(* The signing service: several instances of SigningWorker consume         *)
(* tx-request-queue, claim a withdrawal request by moving its row from     *)
(* PENDING to VALIDATING, sign it alone or as a member of a Multicall      *)
(* batch, and put the signed transaction on signed-tx-queue.               *)
(*                                                                         *)
(* The queue delivers at least once.  A delivery of a message to an        *)
(* instance is a job: job[i][c] says at which await of the code instance i *)
(* stands with copy c, and which class of error it is carrying.  Every     *)
(* await is a step of its own, so what happens between a read and the      *)
(* write that depends on it is visible.                                    *)
(*                                                                         *)
(* Left out of the data: amounts, addresses, nonces (NonceAllocation has   *)
(* them), gas prices, log lines.  A statement of the database either runs  *)
(* or fails without effect; a send to a queue may also report an error     *)
(* after the message was accepted.                                         *)
(***************************************************************************)
EXTENDS Naturals, FiniteSets

CONSTANTS
    Requests,        \* withdrawal requests
    Instances,       \* incarnations of the service: one id per process start
    Tokens,          \* token contracts
    Token,           \* Token[r]: the token request r asks for
    MaxCopies,       \* bound on the messages ever sent for one request
    MaxLive,         \* how many instances may run at the same time
    BatchSize,       \* messages received at once
    MinBatchSize,    \* config.batchProcessing.minBatchSize
    BatchThreshold,  \* config.batchProcessing.batchThreshold
    InfraErrors,     \* error classes of MySQL, Redis and SQS calls
    SignErrors,      \* error classes of signing one request
    BatchErrors,     \* error classes of preparing and signing a batch
    Unstable,        \* instances that may stop or crash
    NoInstance       \* processingInstanceId of a row nobody claimed

VARIABLES
    status,          \* withdrawalRequest.status
    owner,           \* withdrawalRequest.processingInstanceId
    tried,           \* withdrawalRequest.tryCount > 0
    msg,             \* the copies of a request on tx-request-queue
    job,             \* where each instance stands with each copy
    life,            \* life cycle of the instances
    published,       \* signed transactions sent to signed-tx-queue
    nullSent         \* a message whose body is null was sent there

vars == <<status, owner, tried, msg, job, life, published, nullSent>>

----------------------------------------------------------------------------
(* Data *)

Status == {"PENDING", "VALIDATING", "SIGNING", "SIGNED", "RETRYING", "FAILED"}

Copies == Requests \X (1..MaxCopies)

\* A copy is hidden while the last instance that received it may still delete
\* it, and visible again when its visibility timeout expires.
CopyStates == {"unsent", "visible", "deleted"} \cup Instances

Stages == {"idle", "received", "claimed", "invalid", "valid", "fresh", "grouped",
           "single", "noGas", "discard", "estimated", "allocated", "signing",
           "signed", "publish", "null", "delete", "failed", "caught",
           "requeue", "requeued",
           "bCreate", "bSkip", "bSign", "bSigned", "bDelete", "bSend",
           "bBroken", "bRefused", "bRecover", "bAbort", "bAbortUnbatched", "bPurge"}

\* What the two lists of message fragments and isNetworkError tell apart:
\*   timeout     network, and recoverable for the worker
\*   connection  network, in no list ("Blockchain connection lost")
\*   hostname    recoverable for the worker, not network ("... ENOTFOUND")
\*   funds       recoverable for the worker and for the recovery service
\*   fatal       none of these
Errors == {"timeout", "connection", "hostname", "funds", "fatal"}

IsNetworkError(e) == e \in {"timeout", "connection"}

IsRecoverableError(e) == e \in {"timeout", "hostname", "funds"}

\* recoverTransactionOnError keeps a list of its own, shorter than the worker's
\* (the first form is the worker's)
IsRequeuedWhenRecoverable(e) == IsRecoverableError(e)

IsRequeuedError(e) == e \in {"funds"}

\* late: the job outlived the batch it was received with (see Abandon)
Jobs == [at: Stages, err: Errors \cup {"none"}, late: BOOLEAN]

Idle == [at |-> "idle", err |-> "none", late |-> FALSE]

ASSUME BoundsAssumption ==
    /\ MaxCopies \in Nat \ {0}
    /\ MaxLive \in Nat
    /\ BatchSize \in Nat
    /\ MinBatchSize \in Nat
    /\ BatchThreshold \in Nat \ {0}

ASSUME NamesAssumption ==
    /\ Token \in [Requests -> Tokens]
    /\ NoInstance \notin Instances
    /\ Instances \cap {"unsent", "visible", "deleted"} = {}
    /\ Unstable \subseteq Instances

\* Nothing that the database, Redis, SQS or local signing reports matches the
\* recovery service's list (balances, allowances, gas, nonces): these come from
\* the node, which only the batch path asks after the nonce is allocated.
ASSUME ErrorsAssumption ==
    /\ InfraErrors \subseteq Errors \ {"funds"}
    /\ SignErrors \subseteq Errors \ {"funds"}
    /\ BatchErrors \subseteq Errors

----------------------------------------------------------------------------
(* Helpers *)

\* The copies that instance i's current batch has at a stage
At(i, st) == {c \in Copies : job[i][c].at = st /\ ~job[i][c].late}

In(i, sts) == {c \in Copies : job[i][c].at \in sts /\ ~job[i][c].late}

\* An await of the code rejects with an error of class e, caught at stage st
Raise(i, C, st, e) ==
    job' = [job EXCEPT ![i] =
              [c \in Copies |->
                  IF c \in C THEN [at |-> st, err |-> e, late |-> job[i][c].late /\ st # "idle"]
                             ELSE job[i][c]]]

Move(i, C, st) == Raise(i, C, st, "none")

\* withdrawalRequest.update / updateMany on the rows of the requests in R
SetStatus(R, s) == status' = [r \in Requests |-> IF r \in R THEN s ELSE status[r]]

RequestsOf(C) == {c[1] : c \in C}

\* SQS DeleteMessage of the copies in C by instance i.  A receipt handle is
\* sure to delete only while it is the last one handed out and still hides the
\* copy; an older one may or may not.
DeleteMessages(i, C) ==
    \E D \in SUBSET C :
        /\ \A c \in C : msg[c] = i => c \in D
        /\ msg' = [c \in Copies |-> IF c \in D THEN "deleted" ELSE msg[c]]

\* SQS SendMessage of a further message for request r
SendCopy(r) ==
    \E n \in 1..MaxCopies :
        /\ msg[<<r, n>>] = "unsent"
        /\ \A k \in 1..(n - 1) : msg[<<r, k>>] # "unsent"
        /\ msg' = [msg EXCEPT ![<<r, n>>] = "visible"]

\* SQS SendMessage to signed-tx-queue of a transaction paying the requests in R
\* or of the null that processMessage returns when it did not sign
PublishFor(R) ==
    /\ published' = [r \in Requests |-> IF r \in R THEN published[r] + 1 ELSE published[r]]
    /\ nullSent' = (nullSent \/ R = {})

\* Stages a batch of messages goes through in lockstep: processBatch awaits each
\* of its loops before it starts the next
Claiming == {"received"}
Validating == {"claimed", "invalid"}
Estimating == {"single", "noGas"}
Running == {"allocated", "signing", "signed", "publish", "null", "delete",
            "failed", "caught", "requeue", "requeued"}
Batching == {"bCreate", "bSkip", "bSign", "bSigned", "bDelete", "bSend",
             "bBroken", "bRefused", "bRecover", "bAbort", "bAbortUnbatched", "bPurge"}

TypeOK ==
    /\ status \in [Requests -> Status]
    /\ owner \in [Requests -> Instances \cup {NoInstance}]
    /\ tried \in [Requests -> BOOLEAN]
    /\ msg \in [Copies -> CopyStates]
    /\ job \in [Instances -> [Copies -> Jobs]]
    /\ life \in [Instances -> {"new", "up", "down"}]
    /\ published \in [Requests -> Nat]
    /\ nullSent \in BOOLEAN

\* Every request was accepted by the API: its row is PENDING and its first
\* message is on the queue.
Init ==
    /\ status = [r \in Requests |-> "PENDING"]
    /\ owner = [r \in Requests |-> NoInstance]
    /\ tried = [r \in Requests |-> FALSE]
    /\ msg = [c \in Copies |-> IF c[2] = 1 THEN "visible" ELSE "unsent"]
    /\ job = [i \in Instances |-> [c \in Copies |-> Idle]]
    /\ life = [i \in Instances |-> "new"]
    /\ published = [r \in Requests |-> 0]
    /\ nullSent = FALSE

----------------------------------------------------------------------------
(* Receiving and claiming *)

\* processLoop: a batch is received only after the previous one is finished.
\* Bound: a copy some late job of i still works on is not received by i again.
Receive(i) ==
    /\ life[i] = "up"
    /\ In(i, Stages \ {"idle"}) = {}
    /\ \E C \in SUBSET At(i, "idle") :
        /\ C # {} /\ Cardinality(C) <= BatchSize
        /\ \A c \in C : msg[c] = "visible"
        /\ msg' = [c \in Copies |-> IF c \in C THEN i ELSE msg[c]]
        /\ Move(i, C, "received")
    /\ UNCHANGED <<status, owner, tried, life, published, nullSent>>

\* A claim that also takes a request whose claim looks stale, and one that only
\* keeps off requests that ended
ClaimableWhenStale(r) == status[r] \in {"PENDING", "VALIDATING", "SIGNING"}

ClaimableUnlessFailed(r) == status[r] # "FAILED"

Claimable(r) == status[r] = "PENDING"

\* The claim: one database transaction that finds the row PENDING and makes it
\* VALIDATING under this instance, else the message is to be deleted.  The next
\* claim waits for that deletion.
Claim(i, c) ==
    /\ job[i][c].at = "received"
    /\ At(i, "discard") = {}
    /\ LET r == c[1] IN
       \/ /\ Claimable(r)
          /\ SetStatus({r}, "VALIDATING")
          /\ owner' = [owner EXCEPT ![r] = i]
          /\ Move(i, {c}, "claimed")
       \/ /\ ~Claimable(r)
          /\ Move(i, {c}, "discard")
          /\ UNCHANGED <<status, owner>>
       \/ /\ InfraErrors # {}    \* the transaction fails: the message stays
          /\ Move(i, {c}, "idle")
          /\ UNCHANGED <<status, owner>>
    /\ UNCHANGED <<tried, msg, life, published, nullSent>>

\* deleteMessage of a rejected claim, of an invalid request and of a request
\* without gas estimate: a failure is logged and the message stays.
Discard(i, c) ==
    /\ job[i][c].at = "discard"
    /\ \/ DeleteMessages(i, {c})
       \/ InfraErrors # {} /\ UNCHANGED msg
    /\ Move(i, {c}, "idle")
    /\ UNCHANGED <<status, owner, tried, life, published, nullSent>>

Validate(i, c) ==
    /\ job[i][c].at = "claimed"
    /\ In(i, {"received", "discard", "invalid"}) = {}
    /\ \E st \in {"valid", "invalid"} : Move(i, {c}, st)
    /\ UNCHANGED <<status, owner, tried, msg, life, published, nullSent>>

\* updateStatusWithError(FAILED) for a request that is invalid or whose gas
\* estimation failed
FailUnfit(i, c) ==
    /\ job[i][c].at \in {"invalid", "noGas"}
    /\ \/ SetStatus({c[1]}, "FAILED") /\ Move(i, {c}, "discard")
       \/ InfraErrors # {} /\ Move(i, {c}, "idle") /\ UNCHANGED status
    /\ UNCHANGED <<owner, tried, msg, life, published, nullSent>>

\* Requests tried before are signed alone.  If the query throws, processBatch
\* ends there and leaves the claimed requests as they are.
SeparateByTryCount(i) ==
    /\ At(i, "valid") # {}
    /\ In(i, Claiming \cup Validating \cup {"discard"}) = {}
    /\ \/ job' = [job EXCEPT ![i] =
            [c \in Copies |->
                IF job[i][c].at # "valid" THEN job[i][c]
                ELSE [Idle EXCEPT !.at = IF tried[c[1]] THEN "single" ELSE "fresh"]]]
       \/ InfraErrors # {} /\ Move(i, At(i, "valid"), "idle")
    /\ UNCHANGED <<status, owner, tried, msg, life, published, nullSent>>

OfToken(C, t) == {c \in C : Token[c[1]] = t}

\* The gas saving grows with the number of messages, so its minimum is a
\* second bound on that number and MinBatchSize stands for the larger one.
UseBatchProcessing(C) ==
    /\ Cardinality(C) >= MinBatchSize
    /\ \E t \in Tokens : Cardinality(OfToken(C, t)) >= BatchThreshold

\* Taken once for all first attempts, after the retried ones are done
DecideBatching(i) ==
    /\ At(i, "fresh") # {}
    /\ In(i, Estimating \cup {"estimated", "discard"} \cup Running) = {}
    /\ Move(i, At(i, "fresh"),
            IF UseBatchProcessing(At(i, "fresh")) THEN "grouped" ELSE "single")
    /\ UNCHANGED <<status, owner, tried, msg, life, published, nullSent>>

\* processBatchTransactions: one token group after the other
NextGroup(i) ==
    /\ In(i, Estimating \cup {"estimated", "discard"} \cup Running \cup Batching) = {}
    /\ \E t \in Tokens :
        LET G == OfToken(At(i, "grouped"), t) IN
        /\ G # {}
        /\ Move(i, G, IF Cardinality(G) >= BatchThreshold THEN "bCreate" ELSE "single")
    /\ UNCHANGED <<status, owner, tried, msg, life, published, nullSent>>

----------------------------------------------------------------------------
(* One request alone *)

EstimateGas(i, c) ==
    /\ job[i][c].at = "single"
    /\ \E st \in {"estimated", "noGas"} : Move(i, {c}, st)
    /\ UNCHANGED <<status, owner, tried, msg, life, published, nullSent>>

\* The nonce comes from Redis; without one the message is skipped as it is.
AllocateNonce(i, c) ==
    /\ job[i][c].at = "estimated"
    /\ In(i, Estimating \cup {"discard"}) = {}
    /\ \/ Move(i, {c}, "allocated")
       \/ InfraErrors # {} /\ Move(i, {c}, "idle")
    /\ UNCHANGED <<status, owner, tried, msg, life, published, nullSent>>

\* The transaction that makes the row SIGNING, for the owner only
BeginSigning(i, c) ==
    /\ job[i][c].at = "allocated"
    /\ At(i, "estimated") = {}
    /\ LET r == c[1] IN
       \/ /\ owner[r] = i
          /\ SetStatus({r}, "SIGNING")
          /\ tried' = [tried EXCEPT ![r] = TRUE]
          /\ Move(i, {c}, "signing")
       \/ /\ owner[r] # i
          /\ Move(i, {c}, "null")
          /\ UNCHANGED <<status, tried>>
       \/ /\ \E e \in InfraErrors : Raise(i, {c}, "failed", e)
          /\ UNCHANGED <<status, tried>>
    /\ UNCHANGED <<owner, msg, life, published, nullSent>>

\* Signing that forgets the row: straight to the send
SignUnmarked(i, c) ==
    /\ job[i][c].at = "signing"
    /\ Move(i, {c}, "publish")
    /\ UNCHANGED <<status, owner, tried, msg, life, published, nullSent>>

\* signTransaction and the insertion of the signed transaction's row
Sign(i, c) ==
    /\ job[i][c].at = "signing"
    /\ \/ Move(i, {c}, "signed")
       \/ \E e \in InfraErrors \cup SignErrors : Raise(i, {c}, "failed", e)
    /\ UNCHANGED <<status, owner, tried, msg, life, published, nullSent>>

MarkSigned(i, c) ==
    /\ job[i][c].at = "signed"
    /\ \/ SetStatus({c[1]}, "SIGNED") /\ Move(i, {c}, "publish")
       \/ \E e \in InfraErrors : Raise(i, {c}, "failed", e) /\ UNCHANGED status
    /\ UNCHANGED <<owner, tried, msg, life, published, nullSent>>

\* The status written after an error of class e; the first form misses the last
\* case
StatusAfterErrorOrNone(e) == IF IsNetworkError(e) THEN "RETRYING"
                             ELSE IF IsRecoverableError(e) THEN "PENDING" ELSE "none"

StatusAfterError(e) == IF IsNetworkError(e) THEN "RETRYING"
                       ELSE IF IsRecoverableError(e) THEN "PENDING" ELSE "FAILED"

\* The catch block of processMessage writes a status and throws the error on or
\* returns null.  The write may itself throw.
HandleSigningError(i, c) ==
    /\ job[i][c].at = "failed"
    /\ LET e == job[i][c].err IN
       \/ /\ SetStatus({c[1]}, StatusAfterError(e))
          /\ IF IsNetworkError(e) \/ IsRecoverableError(e)
             THEN Raise(i, {c}, "caught", e)
             ELSE Move(i, {c}, "null")
       \/ /\ \E d \in InfraErrors : Raise(i, {c}, "caught", d)
          /\ UNCHANGED status
    /\ UNCHANGED <<owner, tried, msg, life, published, nullSent>>

\* The result of processMessage goes to signed-tx-queue, null included
Publish(i, c) ==
    /\ job[i][c].at \in {"publish", "null"}
    /\ LET R == IF job[i][c].at = "publish" THEN {c[1]} ELSE {} IN
       \/ PublishFor(R) /\ Move(i, {c}, "delete")
       \/ /\ \E e \in InfraErrors : Raise(i, {c}, "caught", e)
          /\ PublishFor(R) \/ UNCHANGED <<published, nullSent>>
    /\ UNCHANGED <<status, owner, tried, msg, life>>

DeleteProcessed(i, c) ==
    /\ job[i][c].at = "delete"
    /\ \/ DeleteMessages(i, {c}) /\ Move(i, {c}, "idle")
       \/ \E e \in InfraErrors : Raise(i, {c}, "caught", e) /\ UNCHANGED msg
    /\ UNCHANGED <<status, owner, tried, life, published, nullSent>>

\* recoverTransactionOnError for one request: back to the queue or FAILED
RecoverOnError(i, c, e) ==
    \/ /\ IsRequeuedError(e)
       /\ Move(i, {c}, "requeue")
       /\ UNCHANGED status
    \/ /\ ~IsRequeuedError(e)
       /\ SetStatus({c[1]}, "FAILED") \/ (InfraErrors # {} /\ UNCHANGED status)
       /\ Move(i, {c}, "idle")

\* A deletion that throws in the catch block makes Promise.all reject, and with
\* it processBatch: the messages not yet processed are left as they are, the
\* promises still running go on while the loop receives its next batch.
Abandon(i, c) ==
    job' = [job EXCEPT ![i] =
              [d \in Copies |->
                  IF d = c \/ (~job[i][c].late /\ d \in In(i, {"fresh", "grouped"})) THEN Idle
                  ELSE [job[i][d] EXCEPT !.late = @ \/ (~job[i][c].late /\ job[i][d].at # "idle")]]]

\* A catch block that deletes the message whatever the error
HandleProcessingErrorDeleting(i, c) ==
    /\ job[i][c].at = "caught"
    /\ DeleteMessages(i, {c})
    /\ Move(i, {c}, "idle")
    /\ UNCHANGED <<status, owner, tried, life, published, nullSent>>

\* The catch block of processSingleTransactions
HandleProcessingError(i, c) ==
    /\ job[i][c].at = "caught"
    /\ LET e == job[i][c].err IN
       \/ /\ IsRecoverableError(e)
          /\ RecoverOnError(i, c, e)
          /\ UNCHANGED msg
       \/ /\ ~IsRecoverableError(e)
          /\ DeleteMessages(i, {c})
          /\ Move(i, {c}, "idle")
          /\ UNCHANGED status
       \/ /\ ~IsRecoverableError(e)
          /\ InfraErrors # {}
          /\ Abandon(i, c)
          /\ UNCHANGED <<status, msg>>
    /\ UNCHANGED <<owner, tried, life, published, nullSent>>

\* handleNonceCollision, first await: a new message for the request
SendToRequestQueue(i, c) ==
    /\ job[i][c].at = "requeue"
    /\ \/ SendCopy(c[1]) /\ Move(i, {c}, "requeued")
       \/ /\ InfraErrors # {}
          /\ SendCopy(c[1]) \/ UNCHANGED msg
          /\ Move(i, {c}, "idle")
    /\ UNCHANGED <<status, owner, tried, life, published, nullSent>>

\* A requeue that leaves the row SIGNING
ReturnSkipped(i, c) ==
    /\ job[i][c].at = "requeued"
    /\ Move(i, {c}, "idle")
    /\ UNCHANGED <<status, owner, tried, msg, life, published, nullSent>>

\* handleNonceCollision, second await: the row is PENDING again.  The deletion
\* that follows addresses signed-tx-queue with a receipt of tx-request-queue,
\* so the first message stays whatever comes of it.
ReturnToPending(i, c) ==
    /\ job[i][c].at = "requeued"
    /\ SetStatus({c[1]}, "PENDING") \/ (InfraErrors # {} /\ UNCHANGED status)
    /\ Move(i, {c}, "idle")
    /\ UNCHANGED <<owner, tried, msg, life, published, nullSent>>

----------------------------------------------------------------------------
(* Requests of one token as one Multicall batch *)

Group(i) == At(i, "bCreate")

\* createBatchWithLocking: one database transaction over all the rows
CreateBatch(i) ==
    /\ Group(i) # {}
    /\ LET R == RequestsOf(Group(i))
           Held == \A r \in R : status[r] = "VALIDATING" /\ owner[r] = i
       IN
       \/ /\ Held
          /\ SetStatus(R, "SIGNING")
          /\ tried' = [r \in Requests |-> tried[r] \/ r \in R]
          /\ Move(i, Group(i), "bSign")
       \/ /\ ~Held
          /\ Move(i, Group(i), "bSkip")
          /\ UNCHANGED <<status, tried>>
       \/ /\ \E e \in (InfraErrors \cup BatchErrors) \ {"funds"} :
                Raise(i, Group(i), "bRefused", e)
          /\ UNCHANGED <<status, tried>>
    /\ UNCHANGED <<owner, msg, life, published, nullSent>>

\* Promise.all over the deletions: all of C, or a part of it and an error
DeleteAll(i, C, Done, Failed(_)) ==
    \/ DeleteMessages(i, C) /\ Done
    \/ \E D \in SUBSET C, e \in InfraErrors : DeleteMessages(i, D) /\ Failed(e)

\* The rows are no longer all held: the messages go, whoever holds the rows
SkipBatch(i) ==
    LET C == At(i, "bSkip")
        Refuse(e) == Raise(i, C, "bRefused", e)
    IN
    /\ C # {}
    /\ DeleteAll(i, C, Move(i, C, "idle"), Refuse)
    /\ UNCHANGED <<status, owner, tried, life, published, nullSent>>

\* prepareBatchTransfer, signBatchTransaction and the update of the batch row
SignBatch(i) ==
    LET C == At(i, "bSign") IN
    /\ C # {}
    /\ \/ Move(i, C, "bSigned")
       \/ \E e \in InfraErrors \cup BatchErrors : Raise(i, C, "bBroken", e)
    /\ UNCHANGED <<status, owner, tried, msg, life, published, nullSent>>

MarkBatchSigned(i) ==
    LET C == At(i, "bSigned") IN
    /\ C # {}
    /\ \/ SetStatus(RequestsOf(C), "SIGNED") /\ Move(i, C, "bDelete")
       \/ \E e \in InfraErrors : Raise(i, C, "bBroken", e) /\ UNCHANGED status
    /\ UNCHANGED <<owner, tried, msg, life, published, nullSent>>

DeleteBatch(i) ==
    LET C == At(i, "bDelete")
        Break(e) == Raise(i, C, "bBroken", e)
    IN
    /\ C # {}
    /\ DeleteAll(i, C, Move(i, C, "bSend"), Break)
    /\ UNCHANGED <<status, owner, tried, life, published, nullSent>>

SendBatch(i) ==
    LET C == At(i, "bSend") IN
    /\ C # {}
    /\ \/ PublishFor(RequestsOf(C)) /\ Move(i, C, "idle")
       \/ /\ \E e \in InfraErrors : Raise(i, C, "bBroken", e)
          /\ PublishFor(RequestsOf(C)) \/ UNCHANGED <<published, nullSent>>
    /\ UNCHANGED <<status, owner, tried, msg, life>>

\* The catch block of processBatchGroup.  The update of the batch row comes
\* first; when it throws, nothing else of the block runs.
HandleBatchError(i) ==
    \E st \in {"bBroken", "bRefused"} : \E e \in Errors :
        LET C == {c \in At(i, st) : job[i][c].err = e} IN
        /\ C # {}
        /\ \/ IsRecoverableError(e) /\ Raise(i, C, "bRecover", e)
           \/ /\ ~IsRecoverableError(e)
              /\ Move(i, C, IF st = "bBroken" THEN "bAbort" ELSE "bAbortUnbatched")
           \/ st = "bBroken" /\ InfraErrors # {} /\ Move(i, C, "idle")
        /\ UNCHANGED <<status, owner, tried, msg, life, published, nullSent>>

\* Members are recovered one after the other
RecoverMember(i, c) ==
    /\ job[i][c].at = "bRecover"
    /\ In(i, {"requeue", "requeued"}) = {}
    /\ RecoverOnError(i, c, job[i][c].err)
    /\ UNCHANGED <<owner, tried, msg, life, published, nullSent>>

\* updateMany by batchId
AbortBatch(i) ==
    LET C == At(i, "bAbort") IN
    /\ C # {}
    /\ \/ SetStatus(RequestsOf(C), "FAILED") /\ Move(i, C, "bPurge")
       \/ InfraErrors # {} /\ Move(i, C, "idle") /\ UNCHANGED status
    /\ UNCHANGED <<owner, tried, msg, life, published, nullSent>>

\* One update per request, for the rows this instance owns; one that throws is
\* logged.  (The updates run in parallel and touch different rows.)
AbortUnbatched(i) ==
    LET C == At(i, "bAbortUnbatched")
        Owned == {r \in RequestsOf(C) : owner[r] = i}
    IN
    /\ C # {}
    /\ \E R \in SUBSET Owned :
          /\ InfraErrors = {} => R = Owned
          /\ SetStatus(R, "FAILED")
    /\ Move(i, C, "bPurge")
    /\ UNCHANGED <<owner, tried, msg, life, published, nullSent>>

PurgeBatch(i) ==
    LET C == At(i, "bPurge")
        Stop(e) == Move(i, C, "idle")
    IN
    /\ C # {}
    /\ DeleteAll(i, C, Move(i, C, "idle"), Stop)
    /\ UNCHANGED <<status, owner, tried, life, published, nullSent>>

----------------------------------------------------------------------------
(* Queue and processes *)

\* The visibility timeout (30 s) expires, whatever the receiver is doing
Redeliver(c) ==
    /\ msg[c] \in Instances
    /\ msg' = [msg EXCEPT ![c] = "visible"]
    /\ UNCHANGED <<status, owner, tried, job, life, published, nullSent>>

Start(i) ==
    /\ life[i] = "new"
    /\ Cardinality({j \in Instances : life[j] = "up"}) < MaxLive
    /\ life' = [life EXCEPT ![i] = "up"]
    /\ UNCHANGED <<status, owner, tried, msg, job, published, nullSent>>

\* A crash, or the end of the process after stop() gave up waiting
Crash(i) ==
    /\ i \in Unstable
    /\ life[i] = "up"
    /\ life' = [life EXCEPT ![i] = "down"]
    /\ job' = [job EXCEPT ![i] = [c \in Copies |-> Idle]]
    /\ UNCHANGED <<status, owner, tried, msg, published, nullSent>>

\* What the process of instance i does with one message
MessageStep(i, c) ==
    \/ Claim(i, c) \/ Discard(i, c) \/ Validate(i, c) \/ FailUnfit(i, c)
    \/ EstimateGas(i, c) \/ AllocateNonce(i, c) \/ BeginSigning(i, c)
    \/ Sign(i, c) \/ MarkSigned(i, c) \/ HandleSigningError(i, c)
    \/ Publish(i, c) \/ DeleteProcessed(i, c) \/ HandleProcessingError(i, c)
    \/ SendToRequestQueue(i, c) \/ ReturnToPending(i, c) \/ RecoverMember(i, c)

\* What it does with the messages of a batch together
BatchStep(i) ==
    \/ Receive(i) \/ SeparateByTryCount(i) \/ DecideBatching(i) \/ NextGroup(i)
    \/ CreateBatch(i) \/ SkipBatch(i) \/ SignBatch(i) \/ MarkBatchSigned(i)
    \/ DeleteBatch(i) \/ SendBatch(i) \/ HandleBatchError(i)
    \/ AbortBatch(i) \/ AbortUnbatched(i) \/ PurgeBatch(i)

Worker(i) == BatchStep(i) \/ \E c \in Copies : MessageStep(i, c)

Next ==
    \/ \E i \in Instances : Worker(i) \/ Start(i) \/ Crash(i)
    \/ \E c \in Copies : Redeliver(c)

Spec == Init /\ [][Next]_vars

\* An instance that runs goes on, one is started when none runs, a message that
\* is not deleted becomes visible again, and the queue does not pass over a
\* visible message for ever in favour of others.
FairSpec ==
    /\ Spec
    /\ \A i \in Instances, c \in Copies :
          SF_vars(Receive(i) /\ job'[i][c].at = "received")
    /\ \A i \in Instances : WF_vars(Worker(i)) /\ WF_vars(Start(i))
    /\ \A c \in Copies : WF_vars(Redeliver(c))

----------------------------------------------------------------------------
(* Properties *)

\* Stages from which a job can still come to publish its request or to put it
\* back.  A broken batch only can when the error is one that is requeued.
Active(i, c) ==
    \/ job[i][c].at \in {"claimed", "invalid", "valid", "fresh", "grouped", "single",
                         "noGas", "estimated", "allocated", "signing", "signed",
                         "publish", "failed", "bCreate", "bSign", "bSigned",
                         "bDelete", "bSend", "requeue", "requeued"}
    \/ job[i][c].at \in {"bBroken", "bRecover"} /\ IsRequeuedError(job[i][c].err)

\* Two deliveries of one request, to whatever instances, never both work on it.
\* (claimMessages: "claims messages atomically to prevent multiple instances
\* from processing the same message".)
ExclusiveClaim ==
    \A i, j \in Instances, c, d \in Copies :
        Active(i, c) /\ Active(j, d) /\ c[1] = d[1] => i = j /\ c = d

\* No withdrawal is paid by two signed transactions, whatever is redelivered,
\* requeued, retried or crashes.
AtMostOnePublished == \A r \in Requests : published[r] <= 1

\* What may still be published has not been published: neither a request that
\* can be claimed nor one that a job works on, and the two exclude each other.
InPlayUnpaid ==
    /\ \A r \in Requests : status[r] = "PENDING" => published[r] = 0
    /\ \A i \in Instances, c \in Copies :
          Active(i, c) => status[c[1]] # "PENDING" /\ published[c[1]] = 0

\* A request waiting to be processed has a message to be processed by: nothing
\* else ever looks for PENDING rows.
PendingHasMessage ==
    \A r \in Requests :
        status[r] = "PENDING" =>
            \E c \in Copies : c[1] = r /\ msg[c] \in Instances \cup {"visible"}

\* Stages at which a job has written what becomes of its row, or never had it
Decided == {"idle", "received", "discard", "null", "publish", "delete", "caught",
            "bSkip", "bDelete", "bSend", "bPurge"}

\* No request is left behind: one that waits has a message, and one that was
\* claimed has a job of the instance named in its row which has yet to decide it.
\* Nothing but that job would ever take it further.
NoneStranded ==
    /\ PendingHasMessage
    /\ \A r \in Requests :
          status[r] \in {"VALIDATING", "SIGNING"} =>
              \E i \in Instances, c \in Copies :
                  c[1] = r /\ owner[r] = i /\ job[i][c].at \notin Decided

\* A request reported FAILED, for which a user may ask again, was not paid.
FailedNotPublished ==
    \A r \in Requests : status[r] = "FAILED" => published[r] = 0

Settled(r) == status[r] \in {"SIGNED", "FAILED", "RETRYING"}

\* Every accepted request is eventually signed or given up, and stays so.
Settles == \A r \in Requests : <>[]Settled(r)

Held(r) == \E i \in Instances, c \in Copies : c[1] = r /\ Active(i, c)

Phase(r) == IF Held(r) THEN "held"
            ELSE IF status[r] = "PENDING" THEN "open" ELSE "closed"

Once == INSTANCE SignOnce WITH phase <- [r \in Requests |-> Phase(r)], sent <- published

\* The signing stage implements the abstract specification of a request signed
\* at most once: a request that was closed is never taken again.
RefinesSignOnce == Once!OnceSpec
=============================================================================
