------------------------ MODULE WithdrawalApiProofs ------------------------
(***************************************************************************)
(* Proofs about WithdrawalApi, for every number of requests, instances and *)
(* messages and whatever fails in the API: the pipeline of API and signing *)
(* stage pays no request twice, and none that was refused; with one        *)
(* instance at a time an accepted request has a message, and what goes out *)
(* has a row that says so.  The steps of the signing stage are those of    *)
(* SigningWorkerProofs.                                                    *)
(***************************************************************************)
EXTENDS WithdrawalApi, SigningWorkerProofs

----------------------------------------------------------------------------
(* The invariant of the signing stage, in the pipeline *)

LEMMA WorkerInitInv == WorkerInit => Inv
<1> SUFFICES ASSUME WorkerInit PROVE Inv
  OBVIOUS
<1>1. TypeOK
  BY BoundsAssumption DEF WorkerInit, TypeOK, Status, CopyStates, Idle, Jobs, Stages, Copies
<1>2. \A i \in Instances, c \in Copies : ~Active(i, c) /\ ~Unexpected(i, c)
  BY DEF WorkerInit, Idle, Active, Unexpected
<1>3. \A r \in Requests : published[r] = 0
  BY DEF WorkerInit
<1> QED
  BY <1>1, <1>2, <1>3
     DEF Inv, NoneUnexpected, ExclusiveClaim, InPlayUnpaid, AtMostOnePublished

\* A step of the API makes no request PENDING, starts no job and publishes nothing
LEMMA ApiQuiet ==
    ASSUME TypeOK, ApiNext
    PROVE  TypeOK' /\ Quiet
<1>1. UNCHANGED <<owner, tried, job, life, published, nullSent>>
  BY DEF ApiNext, Handle, StartServer, StopServer, Submit, CreateRow, PrepareQueue, Send,
         MarkFailed, vars
<1>2. \/ UNCHANGED msg
      \/ \E r \in Requests : msg' = [msg EXCEPT ![<<r, 1>>] = "visible"]
  BY DEF ApiNext, Handle, StartServer, StopServer, Submit, CreateRow, PrepareQueue, Send,
         Sent, MarkFailed, vars
<1>3. UNCHANGED status \/ \E r \in Requests : SetStatus({r}, "FAILED")
  BY DEF ApiNext, Handle, StartServer, StopServer, Submit, CreateRow, PrepareQueue, Send,
         MarkFailed, vars
<1>4. /\ status' \in [Requests -> Status]
      /\ \A r \in Requests : status'[r] = "PENDING" => status[r] = "PENDING"
  BY <1>3 DEF SetStatus, TypeOK, Status
<1>5. msg' \in [Copies -> CopyStates]
  BY <1>2 DEF TypeOK, CopyStates
<1>6. TypeOK'
  BY <1>1, <1>4, <1>5 DEF TypeOK
<1> QED
  BY <1>1, <1>4, <1>6 DEF Quiet, NothingStarts, Active, Unexpected

LEMMA PipelineInv == Inv /\ [PipelineNext]_allVars => Inv'
<1> SUFFICES ASSUME Inv, [PipelineNext]_allVars PROVE Inv'
  OBVIOUS
<1>1. CASE ApiNext
  BY <1>1, ApiQuiet, QuietKeepsInv DEF Inv
<1>2. CASE SigningNext
  BY <1>2, NextInv DEF SigningNext
<1>3. CASE UNCHANGED allVars
  BY <1>3, NextInv DEF allVars
<1> QED
  BY <1>1, <1>2, <1>3 DEF PipelineNext

\* Behind the API, too, at most one signed transaction goes out for a request.
THEOREM PipelinePaysOnce == PipelineSpec => []AtMostOnePublished
<1>1. PipelineInit => Inv
  BY WorkerInitInv DEF PipelineInit
<1>2. Inv => AtMostOnePublished
  BY DEF Inv
<1> QED
  BY <1>1, <1>2, PipelineInv, PTL DEF PipelineSpec

\* The API in front changes nothing of what SignOnce promises: creating a row, sending
\* its message and writing FAILED close a request or leave it as it is, whatever the
\* signing stage does with it at the time.
THEOREM PipelineRefines == PipelineSpec => RefinesSignOnce
<1>1. PipelineInit => Inv /\ Once!OnceInit
  <2> SUFFICES ASSUME WorkerInit PROVE Once!OnceInit
    BY WorkerInitInv DEF PipelineInit
  <2>1. \A i \in Instances, c \in Copies : ~Active(i, c)
    BY DEF WorkerInit, Idle, Active
  <2>2. \A r \in Requests : Phase(r) = "open"
    BY <2>1 DEF WorkerInit, Phase, Held
  <2> QED
    BY <2>2 DEF WorkerInit, Once!OnceInit
<1>2. Inv /\ [PipelineNext]_allVars => [Once!OnceNext]_(Once!ovars)
  <2> SUFFICES ASSUME Inv, [PipelineNext]_allVars
              PROVE  [Once!OnceNext]_(Once!ovars)
    OBVIOUS
  <2>1. CASE ApiNext
    BY <2>1, ApiQuiet, QuietRefines DEF Inv
  <2>2. CASE [Next]_vars
    BY <2>2, StepRefines
  <2> QED
    BY <2>1, <2>2 DEF PipelineNext, SigningNext, allVars
<1> QED
  BY <1>1, <1>2, PipelineInv, PTL DEF PipelineSpec, RefinesSignOnce, Once!OnceSpec

----------------------------------------------------------------------------
(* The signing stage does nothing for a request without message *)

\* No message of the request was sent, and nobody works on it
Asleep(r) ==
    \A c \in Copies : c[1] = r => msg[c] = "unsent" /\ \A i \in Instances : job[i][c].at = "idle"

\* Only jobs of C go to a stage other than idle, only messages of their requests move
OnlyJobs(i, C) ==
    \A j \in Instances, d \in Copies :
        ~(j = i /\ d \in C) => job'[j][d].at \in {job[j][d].at, "idle"}

OnlyMessages(C) == \A d \in Copies : d[1] \notin RequestsOf(C) => msg'[d] = msg[d]

Limited(i, C) ==
    /\ C \subseteq Copies /\ \A c \in C : job[i][c].at # "idle"
    /\ OnlyJobs(i, C) /\ OnlyMessages(C)

LEMMA RaiseOnly ==
    ASSUME TypeOK, NEW i \in Instances, NEW C, NEW st, NEW e, Raise(i, C, st, e)
    PROVE  OnlyJobs(i, C)
BY DEF Raise, TypeOK, OnlyJobs

LEMMA AbandonOnly ==
    ASSUME TypeOK, NEW i \in Instances, NEW c \in Copies, Abandon(i, c)
    PROVE  OnlyJobs(i, {c})
BY AbandonEffect DEF OnlyJobs, Idle

LEMMA DeleteOnly ==
    ASSUME TypeOK, NEW i \in Instances, NEW C, NEW D \in SUBSET C, DeleteMessages(i, D)
    PROVE  OnlyMessages(C)
BY DEF DeleteMessages, OnlyMessages, RequestsOf

LEMMA SendOnly ==
    ASSUME TypeOK, NEW c \in Copies, SendCopy(c[1])
    PROVE  OnlyMessages({c})
BY DEF SendCopy, OnlyMessages, RequestsOf, TypeOK, Copies

\* What the helpers may touch, in one fact
LEMMA Limits ==
    ASSUME TypeOK
    PROVE  /\ \A i \in Instances : \A C, st, e : Raise(i, C, st, e) => OnlyJobs(i, C)
           /\ \A i \in Instances : \A C, st : Move(i, C, st) => OnlyJobs(i, C)
           /\ \A i \in Instances, c \in Copies : Abandon(i, c) => OnlyJobs(i, {c})
           /\ \A i \in Instances : \A C : \A D \in SUBSET C :
                 DeleteMessages(i, D) => OnlyMessages(C)
           /\ \A i \in Instances : \A C : DeleteMessages(i, C) => OnlyMessages(C)
           /\ \A c \in Copies : SendCopy(c[1]) => OnlyMessages({c})
           /\ msg' = msg => \A C : OnlyMessages(C)
<1>1. \A i \in Instances : \A C, st, e : Raise(i, C, st, e) => OnlyJobs(i, C)
  BY RaiseOnly
<1>2. \A i \in Instances : \A C, st : Move(i, C, st) => OnlyJobs(i, C)
  BY <1>1 DEF Move
<1>3. \A i \in Instances, c \in Copies : Abandon(i, c) => OnlyJobs(i, {c})
  BY AbandonOnly
<1>4. \A i \in Instances : \A C : \A D \in SUBSET C : DeleteMessages(i, D) => OnlyMessages(C)
  BY DeleteOnly
<1>5. \A i \in Instances : \A C : DeleteMessages(i, C) => OnlyMessages(C)
  BY <1>4
<1>6. \A c \in Copies : SendCopy(c[1]) => OnlyMessages({c})
  BY SendOnly
<1>7. msg' = msg => \A C : OnlyMessages(C)
  BY DEF OnlyMessages
<1> QED
  BY <1>1, <1>2, <1>3, <1>4, <1>5, <1>6, <1>7

\* What an instance does with one message concerns that message.
LEMMA MessageStepLimited ==
    ASSUME TypeOK, NEW i \in Instances, NEW c \in Copies, MessageStep(i, c)
    PROVE  Limited(i, {c})
<1>1. CASE \/ Claim(i, c) \/ Discard(i, c) \/ Validate(i, c) \/ FailUnfit(i, c)
           \/ EstimateGas(i, c) \/ AllocateNonce(i, c)
  BY <1>1, Limits
  DEF Claim, Discard, Validate, FailUnfit, EstimateGas, AllocateNonce, Limited
<1>2. CASE BeginSigning(i, c) \/ Sign(i, c) \/ MarkSigned(i, c) \/ HandleSigningError(i, c)
  BY <1>2, Limits DEF BeginSigning, Sign, MarkSigned, HandleSigningError, Limited
<1>3. CASE Publish(i, c) \/ DeleteProcessed(i, c)
  BY <1>3, Limits DEF Publish, DeleteProcessed, Limited
<1>4. CASE HandleProcessingError(i, c) \/ RecoverMember(i, c)
  BY <1>4, Limits DEF HandleProcessingError, RecoverMember, RecoverOnError, Limited
<1>5. CASE SendToRequestQueue(i, c) \/ ReturnToPending(i, c)
  BY <1>5, Limits DEF SendToRequestQueue, ReturnToPending, Limited
<1> QED
  BY <1>1, <1>2, <1>3, <1>4, <1>5 DEF MessageStep

\* What it does with its batch concerns the messages it works on.
LEMMA BatchStepLimited ==
    ASSUME TypeOK, NEW i \in Instances, BatchStep(i), ~Receive(i)
    PROVE  \E C \in SUBSET Copies : Limited(i, C)
<1> DEFINE Ok == \E C \in SUBSET Copies : Limited(i, C)
<1>1. \A st : /\ At(i, st) \subseteq Copies
              /\ st # "idle" => \A c \in At(i, st) : job[i][c].at # "idle"
  BY DEF At
<1>2. CASE SeparateByTryCount(i)
  <2> DEFINE V == {c \in Copies : job[i][c].at = "valid"}
  <2>1. OnlyJobs(i, V)
    <3>1. CASE Move(i, At(i, "valid"), "idle")
      BY <3>1, Limits DEF OnlyJobs, At
    <3>2. CASE ~Move(i, At(i, "valid"), "idle")
      <4>1. \A d \in Copies : d \in V \/ job'[i][d] = job[i][d]
        <5>1. job[i] \in [Copies -> Jobs]
          BY DEF TypeOK
        <5> DEFINE row == [c \in Copies |->
                             IF job[i][c].at # "valid" THEN job[i][c]
                             ELSE [Idle EXCEPT !.at = IF tried[c[1]] THEN "single" ELSE "fresh"]]
        <5>2. job' = [job EXCEPT ![i] = row]
          BY <1>2, <3>2 DEF SeparateByTryCount
        <5>3. \A d \in Copies : job[i][d].at # "valid" => row[d] = job[i][d]
          OBVIOUS
        <5> HIDE DEF row
        <5>4. \A d \in Copies : job[i][d].at # "valid" => job'[i][d] = job[i][d]
          BY <5>2, <5>3 DEF TypeOK
        <5> QED
          BY <5>4
      <4>2. \A j \in Instances : j # i => job'[j] = job[j]
        BY <1>2, <3>2 DEF SeparateByTryCount, TypeOK
      <4> QED
        BY <4>1, <4>2 DEF OnlyJobs
    <3> QED
      BY <3>1, <3>2
  <2>2. Limited(i, V)
    BY <1>2, <2>1, Limits DEF SeparateByTryCount, Limited
  <2> QED
    BY <2>2
<1>3. CASE DecideBatching(i)
  BY <1>1, <1>3, Limits DEF DecideBatching, Limited
<1>4. CASE NextGroup(i)
  <2>1. PICK t \in Tokens : \E st : Move(i, OfToken(At(i, "grouped"), t), st)
    BY <1>4 DEF NextGroup
  <2>2. OfToken(At(i, "grouped"), t) \subseteq At(i, "grouped")
    BY DEF OfToken
  <2> QED
    BY <1>1, <1>4, <2>1, <2>2, Limits DEF NextGroup, Limited
<1>5. CASE CreateBatch(i)
  BY <1>1, <1>5, Limits DEF CreateBatch, Group, Limited
<1>6. CASE SkipBatch(i)
  BY <1>1, <1>6, Limits DEF SkipBatch, DeleteAll, Limited
<1>7. CASE SignBatch(i) \/ MarkBatchSigned(i) \/ SendBatch(i)
  BY <1>1, <1>7, Limits DEF SignBatch, MarkBatchSigned, SendBatch, Limited
<1>8. CASE DeleteBatch(i)
  BY <1>1, <1>8, Limits DEF DeleteBatch, DeleteAll, Limited
<1>9. CASE HandleBatchError(i)
  <2>1. PICK st \in {"bBroken", "bRefused"}, e \in Errors :
           LET C == {c \in At(i, st) : job[i][c].err = e}
           IN  (\E s, f : Raise(i, C, s, f)) /\ UNCHANGED msg
    BY <1>9 DEF HandleBatchError, Move
  <2> QED
    BY <1>1, <2>1, Limits DEF Limited
<1>10. CASE AbortBatch(i) \/ AbortUnbatched(i)
  BY <1>1, <1>10, Limits DEF AbortBatch, AbortUnbatched, Limited
<1>11. CASE PurgeBatch(i)
  BY <1>1, <1>11, Limits DEF PurgeBatch, DeleteAll, Limited
<1> QED
  BY <1>2, <1>3, <1>4, <1>5, <1>6, <1>7, <1>8, <1>9, <1>10, <1>11 DEF BatchStep

LEMMA LimitedKeepsAsleep ==
    ASSUME NEW i \in Instances, NEW C, Limited(i, C), NEW r \in Requests, Asleep(r)
    PROVE  Asleep(r)'
<1>1. r \notin RequestsOf(C)
  BY DEF Limited, Asleep, RequestsOf
<1> QED
  BY <1>1 DEF Limited, OnlyJobs, OnlyMessages, Asleep, RequestsOf

\* Only its first message wakes a request up.
LEMMA SigningKeepsAsleep ==
    ASSUME TypeOK, NEW r \in Requests, Asleep(r), [Next]_vars
    PROVE  Asleep(r)'
<1>1. ASSUME NEW i \in Instances, NEW c \in Copies, MessageStep(i, c)
      PROVE  Asleep(r)'
  BY <1>1, MessageStepLimited, LimitedKeepsAsleep
<1>2. ASSUME NEW i \in Instances, BatchStep(i), ~Receive(i)
      PROVE  Asleep(r)'
  BY <1>2, BatchStepLimited, LimitedKeepsAsleep
<1>3. ASSUME NEW i \in Instances, Receive(i)
      PROVE  Asleep(r)'
  <2>1. PICK C \in SUBSET Copies :
           /\ \A c \in C : msg[c] = "visible"
           /\ msg' = [c \in Copies |-> IF c \in C THEN i ELSE msg[c]]
           /\ Move(i, C, "received")
    BY <1>3 DEF Receive, At
  <2>2. \A c \in C : c[1] # r
    BY <2>1 DEF Asleep
  <2>3. OnlyJobs(i, C)
    BY <2>1, Limits
  <2> QED
    BY <2>1, <2>2, <2>3 DEF Asleep, OnlyJobs
<1>4. ASSUME NEW c \in Copies, Redeliver(c)
      PROVE  Asleep(r)'
  BY <1>4, NamesAssumption DEF Redeliver, Asleep, TypeOK
<1>5. ASSUME NEW i \in Instances, Start(i) \/ Crash(i)
      PROVE  Asleep(r)'
  BY <1>5 DEF Start, Crash, Asleep, Idle, TypeOK
<1>6. CASE UNCHANGED vars
  BY <1>6 DEF vars, Asleep
<1> QED
  BY <1>1, <1>2, <1>3, <1>4, <1>5, <1>6 DEF Next, Worker

\* ... and one that is asleep is not paid.
LEMMA AsleepUnpaid ==
    ASSUME Inv, NEW r \in Requests, Asleep(r), [Next]_vars
    PROVE  published'[r] = published[r]
<1>1. Kinds
  BY NextSteps DEF Inv
<1>2. ASSUME NEW i \in Instances, NEW C \in SUBSET Copies, Sends(i, C)
      PROVE  published'[r] = published[r]
  <2>1. r \notin RequestsOf(C)
    BY <1>2 DEF Sends, Active, Asleep, RequestsOf
  <2> QED
    BY <1>2, <2>1 DEF Sends, PublishedFor
<1> QED
  BY <1>1, <1>2 DEF Kinds, Quiet, Takes, GivesBack

----------------------------------------------------------------------------
(* Refused requests *)

\* Until its message may have been sent, a request is asleep and unpaid
Unsent(r) == Asleep(r) /\ published[r] = 0

Refusals == {"400", "500", "QUEUE_ERROR"}

ApiInv ==
    /\ answer \in [Requests -> Answers]
    /\ handler \in [Requests -> Awaits \cup {"none", "done"}]
    /\ \A r \in Requests :
         /\ handler[r] # "done" => answer[r] = "none"
         /\ handler[r] \in {"none", "create", "queue", "send"} => Unsent(r)
         /\ handler[r] = "mark" \/ answer[r] \in Refusals => r \in doubted \/ Unsent(r)

LEMMA InitApiInv == PipelineInit => ApiInv
<1> SUFFICES ASSUME PipelineInit PROVE ApiInv
  OBVIOUS
<1>1. \A r \in Requests : Unsent(r)
  BY DEF PipelineInit, WorkerInit, Unsent, Asleep, Idle
<1> QED
  BY <1>1 DEF PipelineInit, ApiInit, ApiInv, Answers, Awaits, Refusals

LEMMA SigningApiInv ==
    ASSUME Inv, ApiInv, SigningNext \/ UNCHANGED allVars
    PROVE  ApiInv'
<1>1. [Next]_vars /\ UNCHANGED apiVars
  BY DEF SigningNext, allVars
<1>2. \A r \in Requests : Unsent(r) => Unsent(r)'
  BY <1>1, SigningKeepsAsleep, AsleepUnpaid DEF Unsent, Inv
<1> QED
  BY <1>1, <1>2 DEF ApiInv, apiVars

\* A step of the server or of one handler, which touches the messages of its own
\* request at most.
LEMMA ServerApiInv ==
    ASSUME ApiInv, StartServer \/ StopServer
    PROVE  ApiInv'
<1>1. \A r \in Requests : Unsent(r)' = Unsent(r)
  BY DEF StartServer, StopServer, vars, Unsent, Asleep
<1>2. CASE StartServer
  BY <1>1, <1>2 DEF StartServer, ApiInv
<1>3. CASE StopServer
  BY <1>1, <1>3 DEF StopServer, ApiInv, Awaits, Answers, Refusals
<1> QED
  BY <1>2, <1>3

LEMMA HandleApiInv ==
    ASSUME TypeOK, ApiInv, NEW r \in Requests, Handle(r)
    PROVE  ApiInv'
<1>1. UNCHANGED <<job, published>>
  BY DEF Handle, Submit, CreateRow, PrepareQueue, Send, MarkFailed, vars
<1>2. UNCHANGED msg \/ Sent(r)
  BY DEF Handle, Submit, CreateRow, PrepareQueue, Send, MarkFailed, vars
<1>3. \A q \in Requests : q # r => (Unsent(q) => Unsent(q)')
  <2>1. \A c \in Copies : c[1] # r => msg'[c] = msg[c]
    BY <1>2 DEF Sent, TypeOK, Copies
  <2> QED
    BY <1>1, <2>1 DEF Unsent, Asleep
<1>4. UNCHANGED msg => (Unsent(r) => Unsent(r)')
  BY <1>1 DEF Unsent, Asleep
<1>5. \/ \E at \in Awaits \cup {"none"} : handler' = [handler EXCEPT ![r] = at] /\ UNCHANGED answer
      \/ \E a \in Answers : Answer(r, a)
  BY DEF Handle, Submit, CreateRow, PrepareQueue, Send, MarkFailed, Await, Awaits, Answers
<1>6. /\ handler' \in [Requests -> Awaits \cup {"none", "done"}]
      /\ answer' \in [Requests -> Answers]
      /\ \A q \in Requests : q # r => handler'[q] = handler[q] /\ answer'[q] = answer[q]
  BY <1>5 DEF ApiInv, Answer
<1>7. doubted \subseteq doubted'
  BY DEF Handle, Submit, CreateRow, PrepareQueue, Send, MarkFailed
<1>8. /\ handler'[r] # "done" => answer'[r] = "none"
      /\ handler'[r] \in {"none", "create", "queue", "send"} => Unsent(r)'
      /\ handler'[r] = "mark" \/ answer'[r] \in Refusals => r \in doubted' \/ Unsent(r)'
  <2>1. CASE Submit(r) \/ CreateRow(r) \/ PrepareQueue(r)
    BY <1>4, <2>1
    DEF Submit, CreateRow, PrepareQueue, Await, Answer, ApiInv, Awaits, Refusals, vars
  <2>2. CASE Send(r)
    BY <1>4, <2>2 DEF Send, Await, Answer, ApiInv, Awaits, Refusals
  <2>3. CASE MarkFailed(r)
    BY <1>4, <2>3 DEF MarkFailed, Answer, ApiInv, Awaits, Refusals
  <2> QED
    BY <2>1, <2>2, <2>3 DEF Handle
<1> QED
  BY <1>3, <1>6, <1>7, <1>8 DEF ApiInv

LEMMA NextApiInv == Inv /\ ApiInv /\ [PipelineNext]_allVars => ApiInv'
<1> SUFFICES ASSUME Inv, ApiInv, [PipelineNext]_allVars PROVE ApiInv'
  OBVIOUS
<1>1. CASE ApiNext
  BY <1>1, ServerApiInv, HandleApiInv DEF ApiNext, Inv
<1>2. CASE ~ApiNext
  BY <1>2, SigningApiInv DEF PipelineNext
<1> QED
  BY <1>1, <1>2

\* A client that was told 400, 500 or QUEUE_ERROR is not paid, however many
\* instances sign and whatever crashes, unless its send was accepted and reported
\* as failed.
THEOREM RefusedIsUnpaid == PipelineSpec => []RefusedUnpaid
<1>1. PipelineInit => Inv /\ ApiInv
  BY WorkerInitInv, InitApiInv DEF PipelineInit
<1>2. Inv /\ ApiInv /\ [PipelineNext]_allVars => (Inv /\ ApiInv)'
  BY PipelineInv, NextApiInv
<1>3. Inv /\ ApiInv => RefusedUnpaid
  BY DEF ApiInv, RefusedUnpaid, Refusals, Unsent
<1> QED
  BY <1>1, <1>2, <1>3, PTL DEF PipelineSpec

----------------------------------------------------------------------------
(* The types of the API's part *)

LEMMA InitApiTypeOK == PipelineInit => ApiTypeOK
<1> SUFFICES ASSUME PipelineInit PROVE ApiTypeOK
  OBVIOUS
<1>1. status \in [Requests -> Status]
  BY WorkerInitInv DEF PipelineInit, Inv, TypeOK
<1>2. 0 \in 0..MaxRestarts
  BY ApiAssumption
<1> QED
  BY <1>1, <1>2 DEF PipelineInit, ApiInit, ApiTypeOK, Answers

LEMMA ApiTypeStep ==
    ASSUME TypeOK', ApiTypeOK, [PipelineNext]_allVars
    PROVE  ApiTypeOK'
<1>1. status' \in [Requests -> Status]
  BY DEF TypeOK
<1>2. CASE StartServer
  BY <1>1, <1>2, ApiAssumption DEF StartServer, ApiTypeOK
<1>3. CASE StopServer
  BY <1>1, <1>3 DEF StopServer, ApiTypeOK, Awaits, Answers
<1>4. ASSUME NEW r \in Requests, Handle(r)
      PROVE  ApiTypeOK'
  <2>1. CASE Submit(r) \/ CreateRow(r) \/ PrepareQueue(r)
    BY <1>1, <2>1
    DEF Submit, CreateRow, PrepareQueue, Await, Answer, ApiTypeOK, Awaits, Answers
  <2>2. CASE Send(r) \/ MarkFailed(r)
    BY <1>1, <2>2 DEF Send, MarkFailed, Await, Answer, ApiTypeOK, Awaits, Answers
  <2> QED
    BY <1>4, <2>1, <2>2 DEF Handle
<1>5. CASE UNCHANGED apiVars
  BY <1>1, <1>5 DEF apiVars, ApiTypeOK
<1> QED
  BY <1>2, <1>3, <1>4, <1>5 DEF PipelineNext, ApiNext, SigningNext, allVars

\* The state of the API's handlers and of its server has the declared types, and
\* the API writes no status that the signing service does not know.
THEOREM ApiTypeCorrect == PipelineSpec => []ApiTypeOK
<1>1. PipelineInit => Inv /\ ApiTypeOK
  BY WorkerInitInv, InitApiTypeOK DEF PipelineInit
<1>2. Inv /\ ApiTypeOK /\ [PipelineNext]_allVars => (Inv /\ ApiTypeOK)'
  BY PipelineInv, ApiTypeStep DEF Inv
<1> QED
  BY <1>1, <1>2, PTL DEF PipelineSpec

----------------------------------------------------------------------------
(* Accepted requests have a message *)

\* Once its handler has returned, and neither was cut off nor failed to write
\* FAILED, a request that is still PENDING has a message no job will take away.
WaitInv ==
    \A r \in Requests :
      /\ handler[r] \in {"none", "create"} => r \notin saved
      /\ handler[r] = "done" /\ r \in saved /\ answer[r] # "lost" /\ r \notin unmarked
            => (status[r] = "PENDING" => Waits(r))

\* The server and its handlers take no message away and make no row PENDING.
LEMMA ApiKeeps ==
    ASSUME TypeOK, KeepInv, ApiNext
    PROVE  Keeps
<1>1. UNCHANGED <<job, life>>
  BY DEF ApiNext, Handle, StartServer, StopServer, Submit, CreateRow, PrepareQueue, Send,
         MarkFailed, vars
<1>2. \/ UNCHANGED msg
      \/ \E r \in Requests : msg' = [msg EXCEPT ![<<r, 1>>] = "visible"]
  BY DEF ApiNext, Handle, StartServer, StopServer, Submit, CreateRow, PrepareQueue, Send,
         Sent, MarkFailed, vars
<1>3. \A c \in Copies : OnQueue(c) => OnQueue(c)'
  BY <1>2 DEF OnQueue, TypeOK
<1>4. NoneToPending
  BY ApiQuiet DEF Quiet, NoneToPending
<1> QED
  BY <1>1, <1>3, <1>4, FewerKeeps DEF KeepInv

\* The first message of a request wakes it up.
LEMMA SentWaits ==
    ASSUME TypeOK, NEW r \in Requests, Asleep(r), Sent(r), UNCHANGED job
    PROVE  Waits(r)'
<1>1. <<r, 1>> \in Copies /\ <<r, 1>>[1] = r
  BY BoundsAssumption DEF Copies
<1>2. msg'[<<r, 1>>] = "visible"
  BY <1>1 DEF Sent, TypeOK
<1>3. \A i \in Instances : job'[i][<<r, 1>>].at = "idle"
  BY <1>1 DEF Asleep
<1> QED
  BY <1>1, <1>2, <1>3 DEF Waits, OnQueue, AtRest

LEMMA SigningWaitInv ==
    ASSUME MaxLive <= 1, Inv, KeepInv, WaitInv, SigningNext \/ UNCHANGED allVars
    PROVE  KeepInv' /\ WaitInv'
<1>1. [Next]_vars /\ UNCHANGED apiVars
  BY DEF SigningNext, allVars
<1>2. Keeps
  BY <1>1, NextKeeps DEF Inv
<1> QED
  BY <1>1, <1>2 DEF Keeps, WaitInv, apiVars

LEMMA ServerWaitInv ==
    ASSUME ApiInv, WaitInv, Keeps, StartServer \/ StopServer
    PROVE  WaitInv'
<1>1. CASE StartServer
  BY <1>1 DEF StartServer, vars, WaitInv, Keeps
<1>2. CASE StopServer
  BY <1>2 DEF StopServer, vars, WaitInv, Keeps, ApiInv, Awaits
<1> QED
  BY <1>1, <1>2

LEMMA HandleWaitInv ==
    ASSUME TypeOK, ApiInv, WaitInv, Keeps, NEW r \in Requests, Handle(r)
    PROVE  WaitInv'
<1>1. \A q \in Requests : q # r =>
         /\ handler'[q] = handler[q] /\ answer'[q] = answer[q]
         /\ q \in saved' <=> q \in saved
         /\ q \in unmarked' <=> q \in unmarked
  BY DEF Handle, Submit, CreateRow, PrepareQueue, Send, MarkFailed, Await, Answer, ApiInv
<1>2. \A q \in Requests : q # r => (WaitInv =>
         /\ handler'[q] \in {"none", "create"} => q \notin saved'
         /\ handler'[q] = "done" /\ q \in saved' /\ answer'[q] # "lost" /\ q \notin unmarked'
               => (status'[q] = "PENDING" => Waits(q)'))
  BY <1>1 DEF WaitInv, Keeps
<1>3. /\ handler'[r] \in {"none", "create"} => r \notin saved'
      /\ handler'[r] = "done" /\ r \in saved' /\ answer'[r] # "lost" /\ r \notin unmarked'
            => (status'[r] = "PENDING" => Waits(r)')
  <2>1. CASE Submit(r) \/ CreateRow(r) \/ PrepareQueue(r)
    BY <2>1 DEF Submit, CreateRow, PrepareQueue, Await, Answer, ApiInv, WaitInv
  <2>2. CASE Send(r)
    <3>1. Asleep(r) /\ UNCHANGED job
      BY <2>2 DEF Send, ApiInv, Unsent
    <3>2. CASE Sent(r)
      BY <2>2, <3>1, <3>2, SentWaits DEF Send, Await, Answer, ApiInv, WaitInv
    <3>3. CASE ~Sent(r)
      BY <2>2, <3>3 DEF Send, Await, ApiInv, WaitInv
    <3> QED
      BY <3>2, <3>3
  <2>3. CASE MarkFailed(r)
    BY <2>3 DEF MarkFailed, SetStatus, Answer, ApiInv, WaitInv
  <2> QED
    BY <2>1, <2>2, <2>3 DEF Handle
<1> QED
  BY <1>2, <1>3 DEF WaitInv

\* A request answered 201 has a message until it is claimed, and again whenever it
\* is put back, with one instance of the signing service at a time: the only rows
\* left PENDING without one are those whose handler is under way, was cut off by
\* the end of the server, or could not write FAILED.
THEOREM AcceptedIsQueued ==
    ASSUME MaxLive <= 1
    PROVE  PipelineSpec => []WaitingIsQueued
<1> DEFINE All == Inv /\ ApiTypeOK /\ ApiInv /\ KeepInv /\ WaitInv
<1>1. PipelineInit => All
  <2> SUFFICES ASSUME PipelineInit PROVE All
    OBVIOUS
  <2>1. KeepInv
    BY DEF PipelineInit, WorkerInit, KeepInv, Keeping, Active, Idle
  <2>2. WaitInv
    BY DEF PipelineInit, ApiInit, WaitInv
  <2> QED
    BY <2>1, <2>2, WorkerInitInv, InitApiTypeOK, InitApiInv DEF PipelineInit
<1>2. All /\ [PipelineNext]_allVars => All'
  <2> SUFFICES ASSUME All, [PipelineNext]_allVars PROVE All'
    OBVIOUS
  <2>1. Inv' /\ ApiTypeOK' /\ ApiInv'
    BY PipelineInv, ApiTypeStep, NextApiInv DEF Inv
  <2>2. CASE ApiNext
    <3>1. Keeps
      BY <2>2, ApiKeeps DEF Inv
    <3>2. WaitInv'
      BY <2>2, <3>1, ServerWaitInv, HandleWaitInv DEF ApiNext, Inv
    <3> QED
      BY <2>1, <3>1, <3>2 DEF Keeps
  <2>3. CASE ~ApiNext
    BY <2>1, <2>3, SigningWaitInv DEF PipelineNext
  <2> QED
    BY <2>2, <2>3
<1>3. All => WaitingIsQueued
  <2> SUFFICES ASSUME All, NEW r \in saved, r \in Requests, status[r] = "PENDING",
                      \A c \in Copies : c[1] = r => msg[c] \in {"unsent", "deleted"}
               PROVE  handler[r] \in Awaits \/ answer[r] = "lost" \/ r \in unmarked
    BY DEF WaitingIsQueued, ApiTypeOK
  <2>1. ~Waits(r)
    BY NamesAssumption DEF Waits, OnQueue
  <2> QED
    BY <2>1 DEF WaitInv, ApiInv, Awaits
<1> QED
  BY <1>1, <1>2, <1>3, PTL DEF PipelineSpec

----------------------------------------------------------------------------
(* What goes out is SIGNED *)

\* The row of a request about to be sent says SIGNED, but for a FAILED that the API
\* wrote over it.
SealedOrDoubted ==
    \A i \in Instances, c \in Copies :
        Sealed(i, c) => status[c[1]] = "SIGNED" \/ c[1] \in doubted

AtOneTime == KeepInv /\ TurnInv /\ SealedOrDoubted

LEMMA InitAtOneTime == PipelineInit => AtOneTime
<1> SUFFICES ASSUME PipelineInit PROVE AtOneTime
  OBVIOUS
<1>1. \A i \in Instances, c \in Copies : job[i][c] = Idle
  BY DEF PipelineInit, WorkerInit
<1>2. KeepInv
  BY <1>1 DEF PipelineInit, WorkerInit, KeepInv, Keeping, Active, Idle
<1> QED
  BY <1>1, <1>2 DEF AtOneTime, Idle, TurnInv, NoneLate, InTurn, OneJob, Past, Busy, SoundAt,
                    Sealed, SealedOrDoubted

LEMMA ApiAtOneTime ==
    ASSUME TypeOK, ApiInv, AtOneTime, ApiNext
    PROVE  AtOneTime' /\ published' = published
<1>1. UNCHANGED <<job, published>> /\ doubted \subseteq doubted'
  BY DEF ApiNext, Handle, StartServer, StopServer, Submit, CreateRow, PrepareQueue, Send,
         MarkFailed, vars
<1>2. TurnInv'
  BY <1>1 DEF AtOneTime, TurnInv, NoneLate, InTurn, OneJob, Past, Busy, NoneReceived
<1>3. \A r \in Requests : status'[r] = status[r] \/ r \in doubted \/ Asleep(r)
  <2>1. status' = status \/ \E r \in Requests : MarkFailed(r)
    BY DEF ApiNext, Handle, StartServer, StopServer, Submit, CreateRow, PrepareQueue, Send,
           vars
  <2>2. ASSUME NEW r \in Requests, MarkFailed(r)
        PROVE  /\ \A q \in Requests : q # r => status'[q] = status[q]
               /\ r \in doubted \/ Asleep(r)
    BY <2>2 DEF MarkFailed, SetStatus, TypeOK, ApiInv, Unsent
  <2> QED
    BY <2>1, <2>2
<1>4. SealedOrDoubted'
  <2> SUFFICES ASSUME NEW i \in Instances, NEW c \in Copies, Sealed(i, c)'
               PROVE  status'[c[1]] = "SIGNED" \/ c[1] \in doubted'
    BY DEF SealedOrDoubted
  <2>1. Sealed(i, c) /\ c[1] \in Requests
    BY <1>1 DEF Sealed, Copies
  <2>2. ~Asleep(c[1])
    BY <2>1 DEF Sealed, Asleep
  <2> QED
    BY <1>1, <1>3, <2>1, <2>2 DEF AtOneTime, SealedOrDoubted
<1> QED
  BY <1>1, <1>2, <1>4, ApiKeeps DEF AtOneTime, Keeps

LEMMA SigningAtOneTime ==
    ASSUME MaxLive <= 1, Steady, Inv, AtOneTime, SigningNext \/ UNCHANGED allVars
    PROVE  /\ AtOneTime'
           /\ \A r \in Requests :
                 published'[r] # published[r] => status[r] = "SIGNED" \/ r \in doubted
<1>1. [Next]_vars /\ doubted' = doubted
  BY DEF SigningNext, apiVars, allVars
<1>2. Keeps /\ Advances
  BY <1>1, NextKeeps, NextAdvances DEF Inv, AtOneTime
<1>3. SealedOrDoubted'
  BY <1>1, <1>2 DEF AtOneTime, SealedOrDoubted, Advances
<1>4. \A r \in Requests :
         published'[r] # published[r] => status[r] = "SIGNED" \/ r \in doubted
  BY <1>2 DEF AtOneTime, SealedOrDoubted, Advances
<1> QED
  BY <1>2, <1>3, <1>4 DEF AtOneTime, Keeps, Advances

\* No transaction goes out for a request whose row does not say SIGNED, unless the
\* API wrote FAILED over it after a send that was accepted and reported as failed:
\* with one instance at a time, and while no deletion in the catch block of the
\* signing loop throws, which would leave jobs behind that write their outcome over
\* that of a later attempt.
THEOREM OnlySignedGoesOut ==
    ASSUME MaxLive <= 1, Steady
    PROVE  PipelineSpec => OnlySignedPublished
<1> DEFINE All == Inv /\ ApiInv /\ AtOneTime
           Rows == \A r \in Requests :
                      published'[r] # published[r] => status[r] = "SIGNED" \/ r \in doubted
<1>1. PipelineInit => All
  BY WorkerInitInv, InitApiInv, InitAtOneTime DEF PipelineInit
<1>2. All /\ [PipelineNext]_allVars => All' /\ Rows
  <2> SUFFICES ASSUME All, [PipelineNext]_allVars PROVE All' /\ Rows
    OBVIOUS
  <2>1. Inv' /\ ApiInv'
    BY PipelineInv, NextApiInv
  <2>2. CASE ApiNext
    BY <2>1, <2>2, ApiAtOneTime DEF Inv
  <2>3. CASE ~ApiNext
    BY <2>1, <2>3, SigningAtOneTime DEF PipelineNext
  <2> QED
    BY <2>2, <2>3
<1>3. All /\ [PipelineNext]_allVars => [Rows]_allVars
  BY <1>2
<1> QED
  BY <1>1, <1>2, <1>3, PTL DEF PipelineSpec, OnlySignedPublished

=============================================================================
