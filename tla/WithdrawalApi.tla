--------------------------- MODULE WithdrawalApi ---------------------------
(***************************************************************************)
(* The API server in front of the signing service.  POST                   *)
(* /api/withdrawal/request creates the row, then sends the message; when   *)
(* the send reports an error it writes FAILED and answers 500.  Each is an *)
(* await of its own, during which the server may crash and the signing     *)
(* service, which this module extends, may already work on the request.    *)
(*                                                                         *)
(* A request is one call of the endpoint.  Until its handler creates the   *)
(* row (saved) its status means nothing, and nothing reads it: the signing *)
(* service learns of the request by its message.                           *)
(***************************************************************************)
EXTENDS SigningWorker

CONSTANTS
    Fit,           \* requests that pass validation
    Faults,        \* "call": calls may fail; "doubt": a send that failed may have been accepted
    MaxRestarts    \* bound on the restarts of the server

VARIABLES
    ready,         \* isReady: the server takes requests
    restarts,
    handler,       \* the await at which the handler of a request stands
    saved,         \* requests whose row exists
    answer,        \* what the client was told
    queueReady,    \* queueInitialized
    doubted,       \* requests whose send was accepted and reported an error
    unmarked       \* requests whose FAILED could not be written

apiVars == <<ready, restarts, handler, saved, answer, queueReady, doubted, unmarked>>
allVars == <<vars, apiVars>>

ASSUME ApiAssumption ==
    /\ Fit \subseteq Requests
    /\ Faults \subseteq {"call", "doubt"}
    /\ MaxRestarts \in Nat

Awaits == {"create", "queue", "send", "mark"}
Answers == {"none", "201", "400", "500", "QUEUE_ERROR", "lost"}

\* Type invariant of the API's part.
ApiTypeOK ==
    /\ status \in [Requests -> Status]
    /\ ready \in BOOLEAN /\ queueReady \in BOOLEAN
    /\ restarts \in 0..MaxRestarts
    /\ handler \in [Requests -> Awaits \cup {"none", "done"}]
    /\ answer \in [Requests -> Answers]
    /\ saved \subseteq Requests /\ doubted \subseteq Requests /\ unmarked \subseteq Requests

\* The handler goes on to its next await, or returns after answering
Await(r, at) == handler' = [handler EXCEPT ![r] = at] /\ UNCHANGED answer

Answer(r, a) ==
    /\ handler' = [handler EXCEPT ![r] = "done"]
    /\ answer' = [answer EXCEPT ![r] = a]

\* The checks of the body, which need no await: fields, addresses, chain, token, amount
Submit(r) ==
    /\ ready /\ handler[r] = "none"
    /\ IF r \in Fit THEN Await(r, "create") ELSE Answer(r, "400")
    /\ UNCHANGED <<vars, ready, restarts, saved, queueReady, doubted, unmarked>>

CreateRow(r) ==
    /\ handler[r] = "create"
    /\ \/ saved' = saved \cup {r} /\ Await(r, "queue")
       \/ "call" \in Faults /\ Answer(r, "500") /\ UNCHANGED saved
    /\ UNCHANGED <<vars, ready, restarts, queueReady, doubted, unmarked>>

\* The first message of a request
Sent(r) == msg' = [msg EXCEPT ![<<r, 1>>] = "visible"]

\* Mutant: the message goes out while the queue is still being looked up
PrepareQueueSending(r) ==
    /\ handler[r] = "queue"
    /\ \/ queueReady' = TRUE /\ Await(r, "send")
       \/ "call" \in Faults /\ ~queueReady /\ Await(r, "mark") /\ UNCHANGED queueReady
    /\ Sent(r)
    /\ UNCHANGED <<status, owner, tried, job, life, published, nullSent>>
    /\ UNCHANGED <<ready, restarts, saved, doubted, unmarked>>

\* ensureQueueInitialized: the URL of the queue is fetched once
PrepareQueue(r) ==
    /\ handler[r] = "queue"
    /\ \/ queueReady' = TRUE /\ Await(r, "send")
       \/ "call" \in Faults /\ ~queueReady /\ Await(r, "mark") /\ UNCHANGED queueReady
    /\ UNCHANGED <<vars, ready, restarts, saved, doubted, unmarked>>

\* Mutant: the answer does not wait for the send
SendUnawaited(r) ==
    /\ handler[r] = "send"
    /\ Answer(r, "201")
    /\ Sent(r) \/ ("call" \in Faults /\ UNCHANGED msg)
    /\ UNCHANGED <<status, owner, tried, job, life, published, nullSent>>
    /\ UNCHANGED <<ready, restarts, saved, queueReady, doubted, unmarked>>

\* sendMessage, and the answer 201
Send(r) ==
    /\ handler[r] = "send"
    /\ \/ Sent(r) /\ Answer(r, "201") /\ UNCHANGED doubted
       \/ "call" \in Faults /\ Await(r, "mark") /\ UNCHANGED <<msg, doubted>>
       \/ "doubt" \in Faults /\ Sent(r) /\ Await(r, "mark") /\ doubted' = doubted \cup {r}
    /\ UNCHANGED <<status, owner, tried, job, life, published, nullSent>>
    /\ UNCHANGED <<ready, restarts, saved, queueReady, unmarked>>

\* Mutant: the row is left to another attempt
MarkPending(r) ==
    /\ handler[r] = "mark"
    /\ SetStatus({r}, "PENDING")
    /\ Answer(r, "QUEUE_ERROR")
    /\ UNCHANGED <<owner, tried, msg, job, life, published, nullSent>>
    /\ UNCHANGED <<ready, restarts, saved, queueReady, doubted, unmarked>>

\* Mutant: a status the signing service does not have
MarkQueueFailed(r) ==
    /\ handler[r] = "mark"
    /\ SetStatus({r}, "QUEUE_FAILED")
    /\ Answer(r, "QUEUE_ERROR")
    /\ UNCHANGED <<owner, tried, msg, job, life, published, nullSent>>
    /\ UNCHANGED <<ready, restarts, saved, queueReady, doubted, unmarked>>

\* FAILED, whatever the row says by now; an error of the update is swallowed
MarkFailed(r) ==
    /\ handler[r] = "mark"
    /\ \/ SetStatus({r}, "FAILED") /\ UNCHANGED unmarked
       \/ "call" \in Faults /\ unmarked' = unmarked \cup {r} /\ UNCHANGED status
    /\ Answer(r, "QUEUE_ERROR")
    /\ UNCHANGED <<owner, tried, msg, job, life, published, nullSent>>
    /\ UNCHANGED <<ready, restarts, saved, queueReady, doubted>>

\* The server listens when database and queues were reached
StartServer ==
    /\ ~ready /\ restarts < MaxRestarts
    /\ ready' = TRUE
    /\ restarts' = restarts + 1
    /\ UNCHANGED <<vars, handler, saved, answer, queueReady, doubted, unmarked>>

\* The handlers that run are gone, and their clients without an answer
StopServer ==
    /\ ready
    /\ ready' = FALSE
    /\ queueReady' = FALSE
    /\ handler' = [r \in Requests |-> IF handler[r] \in Awaits THEN "done" ELSE handler[r]]
    /\ answer' = [r \in Requests |-> IF handler[r] \in Awaits THEN "lost" ELSE answer[r]]
    /\ UNCHANGED <<vars, restarts, saved, doubted, unmarked>>

ApiInit ==
    /\ ready = FALSE /\ restarts = 0 /\ queueReady = FALSE
    /\ handler = [r \in Requests |-> "none"]
    /\ answer = [r \in Requests |-> "none"]
    /\ saved = {} /\ doubted = {} /\ unmarked = {}

\* The signing service before any request is there
WorkerInit ==
    /\ status = [r \in Requests |-> "PENDING"]
    /\ owner = [r \in Requests |-> NoInstance]
    /\ tried = [r \in Requests |-> FALSE]
    /\ msg = [c \in Copies |-> "unsent"]
    /\ job = [i \in Instances |-> [c \in Copies |-> Idle]]
    /\ life = [i \in Instances |-> "new"]
    /\ published = [r \in Requests |-> 0]
    /\ nullSent = FALSE

Handle(r) ==
    \/ Submit(r) \/ CreateRow(r) \/ PrepareQueue(r) \/ Send(r) \/ MarkFailed(r)

ApiNext == StartServer \/ StopServer \/ \E r \in Requests : Handle(r)

SigningNext == Next /\ UNCHANGED apiVars

PipelineInit == ApiInit /\ WorkerInit

PipelineNext == ApiNext \/ SigningNext

PipelineSpec == PipelineInit /\ [][PipelineNext]_allVars

----------------------------------------------------------------------------
(* Properties *)

\* The row of a request waits PENDING without a message only while its handler is
\* between the two steps, or when the server stopped there or could not write
\* FAILED: a request answered 201 has a message until it is claimed, through
\* claims, redeliveries and requeues.
WaitingIsQueued ==
    \A r \in saved :
        status[r] = "PENDING" /\ (\A c \in Copies : c[1] = r => msg[c] \in {"unsent", "deleted"})
            => handler[r] \in Awaits \/ answer[r] = "lost" \/ r \in unmarked

\* A transaction goes out only for a request whose row says SIGNED, which is what the
\* broadcaster and the status endpoint rely on, unless the API wrote FAILED over it
\* because the queue took a message whose send it reported as failed.
OnlySignedPublished ==
    [][\A r \in Requests :
         published'[r] # published[r] => status[r] = "SIGNED" \/ r \in doubted]_allVars

\* A client that was told an error, and is free to ask again, has not been paid,
\* unless the queue took a message whose send it reported as failed.
RefusedUnpaid ==
    \A r \in Requests :
        answer[r] \in {"400", "500", "QUEUE_ERROR"} /\ r \notin doubted => published[r] = 0
=============================================================================
