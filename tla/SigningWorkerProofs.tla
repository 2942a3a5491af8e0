------------------------- MODULE SigningWorkerProofs -------------------------
(***************************************************************************)
(* Proofs about SigningWorker, for every number of requests, instances and *)
(* messages and every choice of the error classes: the type invariant,     *)
(* that no request is signed and sent twice, and that the stage implements *)
(* SignOnce.  With one instance at a time, also that a waiting request has *)
(* a message, and, without failing calls, that no FAILED one is paid, and  *)
(* without crashes that no claimed one is left behind.                     *)
(***************************************************************************)
EXTENDS SigningWorker, FiniteSetTheorems, TLAPS

----------------------------------------------------------------------------
(* What the helpers do to the state *)

\* Exactly the jobs of instance i with the copies in C moved
Moved(i, C, st, e) ==
    /\ job' \in [Instances -> [Copies -> Jobs]]
    /\ \A j \in Instances, d \in Copies :
          /\ j = i /\ d \in C => job'[j][d].at = st /\ job'[j][d].err = e
          /\ ~(j = i /\ d \in C) => job'[j][d] = job[j][d]

StatusSet(R, s) ==
    /\ status' \in [Requests -> Status]
    /\ \A r \in Requests : status'[r] = IF r \in R THEN s ELSE status[r]

PublishedFor(R) ==
    /\ published' \in [Requests -> Nat]
    /\ nullSent' \in BOOLEAN
    /\ \A r \in Requests :
          published'[r] = IF r \in R THEN published[r] + 1 ELSE published[r]

LEMMA RaiseEffect ==
    ASSUME TypeOK, NEW i \in Instances, NEW C, NEW st \in Stages,
           NEW e \in Errors \cup {"none"}, Raise(i, C, st, e)
    PROVE  Moved(i, C, st, e)
<1> DEFINE new(c) == [at |-> st, err |-> e, late |-> job[i][c].late /\ st # "idle"]
           row == [c \in Copies |-> IF c \in C THEN new(c) ELSE job[i][c]]
<1>1. job[i] \in [Copies -> Jobs]
  BY DEF TypeOK
<1>2. \A c \in Copies : new(c) \in Jobs
  BY <1>1 DEF Jobs
<1>3. row \in [Copies -> Jobs]
  BY <1>1, <1>2
<1>4. job' = [job EXCEPT ![i] = row]
  BY DEF Raise
<1> QED
  BY <1>3, <1>4 DEF TypeOK, Moved

LEMMA MoveEffect ==
    ASSUME TypeOK, NEW i \in Instances, NEW C, NEW st \in Stages, Move(i, C, st)
    PROVE  Moved(i, C, st, "none")
BY RaiseEffect DEF Move

LEMMA SetStatusEffect ==
    ASSUME TypeOK, NEW R, NEW s \in Status, SetStatus(R, s)
    PROVE  StatusSet(R, s)
BY DEF SetStatus, TypeOK, StatusSet

LEMMA DeleteMessagesType ==
    ASSUME TypeOK, NEW i \in Instances, NEW C, DeleteMessages(i, C)
    PROVE  msg' \in [Copies -> CopyStates]
BY DEF DeleteMessages, TypeOK, CopyStates

LEMMA SendCopyType ==
    ASSUME TypeOK, NEW r \in Requests, SendCopy(r)
    PROVE  msg' \in [Copies -> CopyStates]
BY DEF SendCopy, TypeOK, CopyStates

LEMMA PublishForEffect ==
    ASSUME TypeOK, NEW R, PublishFor(R)
    PROVE  PublishedFor(R)
<1>1. \A r \in Requests : published[r] \in Nat
  BY DEF TypeOK
<1>2. published' = [r \in Requests |-> IF r \in R THEN published[r] + 1 ELSE published[r]]
  BY DEF PublishFor
<1>3. nullSent' \in BOOLEAN
  BY DEF PublishFor, TypeOK
<1> QED
  BY <1>1, <1>2, <1>3 DEF PublishedFor

----------------------------------------------------------------------------
(* The inductive invariant *)

\* Where an error is handled that did not come from a batch's node calls, it is
\* not one that the recovery service requeues.
Unexpected(i, c) ==
    job[i][c].at \in {"failed", "caught", "bRefused"} /\ IsRequeuedError(job[i][c].err)

NoneUnexpected == \A i \in Instances, c \in Copies : ~Unexpected(i, c)

Inv ==
    /\ TypeOK
    /\ NoneUnexpected
    /\ ExclusiveClaim
    /\ InPlayUnpaid
    /\ AtMostOnePublished

\* Most steps start nothing and publish nothing
NothingStarts ==
    \A j \in Instances, d \in Copies :
        /\ Active(j, d)' => Active(j, d)
        /\ Unexpected(j, d)' => Unexpected(j, d)

Quiet ==
    /\ NothingStarts
    /\ \A r \in Requests : status'[r] = "PENDING" => status[r] = "PENDING"
    /\ published' = published

\* What the helpers do, for a step from a state of the right type
LEMMA Effects ==
    ASSUME TypeOK
    PROVE  /\ \A i \in Instances, st \in Stages : \A C :
                 Move(i, C, st) => Moved(i, C, st, "none")
           /\ \A i \in Instances, st \in Stages, e \in Errors : \A C :
                 Raise(i, C, st, e) => Moved(i, C, st, e)
           /\ \A s \in Status : \A R : SetStatus(R, s) => StatusSet(R, s)
           /\ \A i \in Instances : \A C :
                 DeleteMessages(i, C) => msg' \in [Copies -> CopyStates]
           /\ \A r \in Requests : SendCopy(r) => msg' \in [Copies -> CopyStates]
           /\ status \in [Requests -> Status]
           /\ job \in [Instances -> [Copies -> Jobs]]
           /\ msg \in [Copies -> CopyStates]
<1>1. \A i \in Instances, st \in Stages : \A C :
         Move(i, C, st) => Moved(i, C, st, "none")
  BY MoveEffect
<1>2. \A i \in Instances, st \in Stages, e \in Errors : \A C :
         Raise(i, C, st, e) => Moved(i, C, st, e)
  BY RaiseEffect
<1>3. \A s \in Status : \A R : SetStatus(R, s) => StatusSet(R, s)
  BY SetStatusEffect
<1>4. \A i \in Instances : \A C :
         DeleteMessages(i, C) => msg' \in [Copies -> CopyStates]
  BY DeleteMessagesType
<1>5. \A r \in Requests : SendCopy(r) => msg' \in [Copies -> CopyStates]
  BY SendCopyType
<1>6. /\ status \in [Requests -> Status]
      /\ job \in [Instances -> [Copies -> Jobs]]
      /\ msg \in [Copies -> CopyStates]
  BY DEF TypeOK
<1> QED
  BY <1>1, <1>2, <1>3, <1>4, <1>5, <1>6

LEMMA DiscardStep ==
    ASSUME TypeOK, NoneUnexpected, NEW i \in Instances, NEW c \in Copies, Discard(i, c)
    PROVE  TypeOK' /\ Quiet
<1>1. job' \in [Instances -> [Copies -> Jobs]]
  BY Effects DEF Discard, Moved, Stages
<1>2. msg' \in [Copies -> CopyStates]
  BY Effects DEF Discard
<1>3. NothingStarts
  BY Effects
     DEF Discard, Moved, Stages, NothingStarts, Active, Unexpected
<1>4. TypeOK'
  BY <1>1, <1>2 DEF Discard, TypeOK
<1> QED
  BY <1>3, <1>4 DEF Discard, Quiet

LEMMA ValidateStep ==
    ASSUME TypeOK, NoneUnexpected, NEW i \in Instances, NEW c \in Copies, Validate(i, c)
    PROVE  TypeOK' /\ Quiet
<1>1. job' \in [Instances -> [Copies -> Jobs]]
  BY Effects DEF Validate, Moved, Stages
<1>2. NothingStarts
  <2>1. Moved(i, {c}, "valid", "none") \/ Moved(i, {c}, "invalid", "none")
    BY Effects DEF Validate, Stages
  <2>2. job[i][c].at = "claimed"
    BY DEF Validate, At
  <2> QED
    BY <2>1, <2>2 DEF Moved, NothingStarts, Active, Unexpected, IsRequeuedError
<1>3. TypeOK'
  BY <1>1 DEF Validate, TypeOK
<1> QED
  BY <1>2, <1>3 DEF Validate, Quiet

LEMMA FailUnfitStep ==
    ASSUME TypeOK, NoneUnexpected, NEW i \in Instances, NEW c \in Copies, FailUnfit(i, c)
    PROVE  TypeOK' /\ Quiet
<1>1. job' \in [Instances -> [Copies -> Jobs]]
  BY Effects DEF FailUnfit, Moved, Stages
<1>2. /\ status' \in [Requests -> Status]
      /\ \A r \in Requests : status'[r] = "PENDING" => status[r] = "PENDING"
  BY Effects DEF FailUnfit, StatusSet, Status, Copies
<1>3. NothingStarts
  BY Effects
     DEF FailUnfit, Moved, Stages, NothingStarts, Active, Unexpected
<1>4. TypeOK'
  BY <1>1, <1>2 DEF FailUnfit, TypeOK
<1> QED
  BY <1>2, <1>3, <1>4 DEF FailUnfit, Quiet

LEMMA EstimateGasStep ==
    ASSUME TypeOK, NoneUnexpected, NEW i \in Instances, NEW c \in Copies, EstimateGas(i, c)
    PROVE  TypeOK' /\ Quiet
<1>1. job' \in [Instances -> [Copies -> Jobs]]
  BY Effects DEF EstimateGas, Moved, Stages
<1>2. NothingStarts
  <2>1. Moved(i, {c}, "estimated", "none") \/ Moved(i, {c}, "noGas", "none")
    BY Effects DEF EstimateGas, Stages
  <2>2. job[i][c].at = "single"
    BY DEF EstimateGas, At
  <2> QED
    BY <2>1, <2>2 DEF Moved, NothingStarts, Active, Unexpected, IsRequeuedError
<1>3. TypeOK'
  BY <1>1 DEF EstimateGas, TypeOK
<1> QED
  BY <1>2, <1>3 DEF EstimateGas, Quiet

LEMMA AllocateNonceStep ==
    ASSUME TypeOK, NoneUnexpected, NEW i \in Instances, NEW c \in Copies, AllocateNonce(i, c)
    PROVE  TypeOK' /\ Quiet
<1>1. job' \in [Instances -> [Copies -> Jobs]]
  BY Effects DEF AllocateNonce, Moved, Stages
<1>2. NothingStarts
  BY Effects
     DEF AllocateNonce, Moved, Stages, NothingStarts, Active, Unexpected
<1>3. TypeOK'
  BY <1>1 DEF AllocateNonce, TypeOK
<1> QED
  BY <1>2, <1>3 DEF AllocateNonce, Quiet

LEMMA BeginSigningStep ==
    ASSUME TypeOK, NoneUnexpected, NEW i \in Instances, NEW c \in Copies, BeginSigning(i, c)
    PROVE  TypeOK' /\ Quiet
<1>1. job' \in [Instances -> [Copies -> Jobs]]
  BY Effects, ErrorsAssumption DEF BeginSigning, Moved, Stages
<1>2. /\ status' \in [Requests -> Status]
      /\ \A r \in Requests : status'[r] = "PENDING" => status[r] = "PENDING"
  BY Effects DEF BeginSigning, StatusSet, Status, Copies
<1>3. NothingStarts
  <2>1. \/ Moved(i, {c}, "signing", "none")
        \/ Moved(i, {c}, "null", "none")
        \/ \E e \in Errors \ {"funds"} : Moved(i, {c}, "failed", e)
    BY Effects, ErrorsAssumption DEF BeginSigning, Stages
  <2>2. job[i][c].at = "allocated"
    BY DEF BeginSigning, At
  <2> QED
    BY <2>1, <2>2 DEF Moved, NothingStarts, Active, Unexpected, IsRequeuedError
<1>4. TypeOK'
  BY <1>1, <1>2 DEF BeginSigning, TypeOK
<1> QED
  BY <1>2, <1>3, <1>4 DEF BeginSigning, Quiet

LEMMA SignStep ==
    ASSUME TypeOK, NoneUnexpected, NEW i \in Instances, NEW c \in Copies, Sign(i, c)
    PROVE  TypeOK' /\ Quiet
<1>1. job' \in [Instances -> [Copies -> Jobs]]
  BY Effects, ErrorsAssumption DEF Sign, Moved, Stages
<1>2. NothingStarts
  BY Effects, ErrorsAssumption
     DEF Sign, Moved, Stages, NothingStarts, Active, Unexpected, IsRequeuedError
<1>3. TypeOK'
  BY <1>1 DEF Sign, TypeOK
<1> QED
  BY <1>2, <1>3 DEF Sign, Quiet

LEMMA MarkSignedStep ==
    ASSUME TypeOK, NoneUnexpected, NEW i \in Instances, NEW c \in Copies, MarkSigned(i, c)
    PROVE  TypeOK' /\ Quiet
<1>1. job' \in [Instances -> [Copies -> Jobs]]
  BY Effects, ErrorsAssumption DEF MarkSigned, Moved, Stages
<1>2. /\ status' \in [Requests -> Status]
      /\ \A r \in Requests : status'[r] = "PENDING" => status[r] = "PENDING"
  <2>1. "SIGNED" \in Status
    BY DEF Status
  <2>2. StatusSet({c[1]}, "SIGNED") \/ status' = status
    BY <2>1, Effects DEF MarkSigned
  <2> QED
    BY <2>2, Effects DEF StatusSet
<1>3. NothingStarts
  <2>1. /\ job[i][c].at = "signed"
        /\ \/ Moved(i, {c}, "publish", "none")
           \/ \E e \in Errors \ {"funds"} : Moved(i, {c}, "failed", e)
    BY Effects, ErrorsAssumption DEF MarkSigned, Stages
  <2> QED
    BY <2>1 DEF Moved, NothingStarts, Active, Unexpected, IsRequeuedError
<1>4. TypeOK'
  BY <1>1, <1>2 DEF MarkSigned, TypeOK
<1> QED
  BY <1>2, <1>3, <1>4 DEF MarkSigned, Quiet

LEMMA DeleteProcessedStep ==
    ASSUME TypeOK, NoneUnexpected, NEW i \in Instances, NEW c \in Copies, DeleteProcessed(i, c)
    PROVE  TypeOK' /\ Quiet
<1>1. job' \in [Instances -> [Copies -> Jobs]]
  BY Effects, ErrorsAssumption DEF DeleteProcessed, Moved, Stages
<1>2. msg' \in [Copies -> CopyStates]
  BY Effects DEF DeleteProcessed
<1>3. NothingStarts
  BY Effects, ErrorsAssumption
     DEF DeleteProcessed, Moved, Stages, NothingStarts, Active, Unexpected, IsRequeuedError
<1>4. TypeOK'
  BY <1>1, <1>2 DEF DeleteProcessed, TypeOK
<1> QED
  BY <1>3, <1>4 DEF DeleteProcessed, Quiet

\* Abandon leaves every job where it is or makes it idle
LEMMA AbandonEffect ==
    ASSUME TypeOK, NEW i \in Instances, NEW c \in Copies, Abandon(i, c)
    PROVE  /\ job' \in [Instances -> [Copies -> Jobs]]
           /\ \A j \in Instances, d \in Copies :
                 \/ job'[j][d].at = job[j][d].at /\ job'[j][d].err = job[j][d].err
                 \/ job'[j][d] = Idle
<1> DEFINE gone(d) == d = c \/ (~job[i][c].late /\ d \in In(i, {"fresh", "grouped"}))
           outlives(d) == ~job[i][c].late /\ job[i][d].at # "idle"
           row == [d \in Copies |-> IF gone(d) THEN Idle
                                    ELSE [job[i][d] EXCEPT !.late = @ \/ outlives(d)]]
<1>1. job[i] \in [Copies -> Jobs]
  BY Effects
<1>2. \A d \in Copies :
         /\ row[d] \in Jobs
         /\ \/ row[d].at = job[i][d].at /\ row[d].err = job[i][d].err
            \/ row[d] = Idle
  <2> TAKE d \in Copies
  <2>1. job[i][d] \in Jobs
    BY <1>1
  <2>2. outlives(d) \in BOOLEAN
    OBVIOUS
  <2>3. CASE gone(d)
    BY <2>3 DEF Idle, Jobs, Stages
  <2>4. CASE ~gone(d)
    <3>1. row[d] = [job[i][d] EXCEPT !.late = @ \/ outlives(d)]
      BY <2>4
    <3> HIDE DEF row, outlives
    <3> QED
      BY <3>1, <2>1, <2>2 DEF Jobs
  <2> QED
    BY <2>3, <2>4
<1>3. job' = [job EXCEPT ![i] = row]
  BY DEF Abandon
<1>4. row \in [Copies -> Jobs]
  BY <1>2
<1> HIDE DEF row
<1> QED
  BY <1>2, <1>3, <1>4, Effects

LEMMA HandleProcessingErrorStep ==
    ASSUME TypeOK, NoneUnexpected, NEW i \in Instances, NEW c \in Copies, HandleProcessingError(i, c)
    PROVE  TypeOK' /\ Quiet
<1>0. \/ Abandon(i, c)
      \/ Moved(i, {c}, "idle", "none")
      \/ Moved(i, {c}, "requeue", "none") /\ IsRequeuedError(job[i][c].err)
  BY Effects DEF HandleProcessingError, RecoverOnError, Stages
<1>1. job' \in [Instances -> [Copies -> Jobs]]
  BY <1>0, AbandonEffect DEF Moved
<1>2. /\ status' \in [Requests -> Status]
      /\ \A r \in Requests : status'[r] = "PENDING" => status[r] = "PENDING"
  BY Effects DEF HandleProcessingError, RecoverOnError, Abandon, StatusSet, Status, Copies
<1>3. msg' \in [Copies -> CopyStates]
  BY Effects DEF HandleProcessingError, RecoverOnError, Abandon
<1>4. NothingStarts
  <2>1. ~Unexpected(i, c) /\ job[i][c].at = "caught"
    BY DEF HandleProcessingError, NoneUnexpected
  <2>2. CASE Abandon(i, c)
    BY <2>2, AbandonEffect DEF NothingStarts, Active, Unexpected, Idle, IsRequeuedError
  <2>3. CASE ~Abandon(i, c)
    BY <1>0, <2>1, <2>3 DEF Moved, NothingStarts, Active, Unexpected, IsRequeuedError
  <2> QED
    BY <2>2, <2>3
<1>5. TypeOK'
  BY <1>1, <1>2, <1>3 DEF HandleProcessingError, RecoverOnError, Abandon, TypeOK
<1> QED
  BY <1>2, <1>4, <1>5 DEF HandleProcessingError, RecoverOnError, Abandon, Quiet

LEMMA SendToRequestQueueStep ==
    ASSUME TypeOK, NoneUnexpected, NEW i \in Instances, NEW c \in Copies, SendToRequestQueue(i, c)
    PROVE  TypeOK' /\ Quiet
<1>1. job' \in [Instances -> [Copies -> Jobs]]
  BY Effects DEF SendToRequestQueue, Moved, Stages
<1>2. msg' \in [Copies -> CopyStates]
  BY Effects DEF SendToRequestQueue, Copies
<1>3. NothingStarts
  BY Effects
     DEF SendToRequestQueue, Moved, Stages, NothingStarts, Active, Unexpected
<1>4. TypeOK'
  BY <1>1, <1>2 DEF SendToRequestQueue, TypeOK
<1> QED
  BY <1>3, <1>4 DEF SendToRequestQueue, Quiet

LEMMA RecoverMemberStep ==
    ASSUME TypeOK, NoneUnexpected, NEW i \in Instances, NEW c \in Copies, RecoverMember(i, c)
    PROVE  TypeOK' /\ Quiet
<1>1. job' \in [Instances -> [Copies -> Jobs]]
  BY Effects, ErrorsAssumption DEF RecoverMember, RecoverOnError, Moved, Stages
<1>2. /\ status' \in [Requests -> Status]
      /\ \A r \in Requests : status'[r] = "PENDING" => status[r] = "PENDING"
  BY Effects DEF RecoverMember, RecoverOnError, StatusSet, Status, Copies
<1>3. NothingStarts
  BY Effects, ErrorsAssumption
     DEF RecoverMember, RecoverOnError, Moved, Stages, NothingStarts, Active, Unexpected, IsRequeuedError
<1>4. TypeOK'
  BY <1>1, <1>2 DEF RecoverMember, RecoverOnError, TypeOK
<1> QED
  BY <1>2, <1>3, <1>4 DEF RecoverMember, RecoverOnError, Quiet

LEMMA ReceiveStep ==
    ASSUME TypeOK, NoneUnexpected, NEW i \in Instances, Receive(i)
    PROVE  TypeOK' /\ Quiet
<1>1. job' \in [Instances -> [Copies -> Jobs]]
  BY Effects DEF Receive, Moved, Stages
<1>2. msg' \in [Copies -> CopyStates]
  BY Effects DEF Receive, CopyStates
<1>3. NothingStarts
  BY Effects
     DEF Receive, Moved, Stages, NothingStarts, Active, Unexpected, At, In
<1>4. TypeOK'
  BY <1>1, <1>2 DEF Receive, TypeOK
<1> QED
  BY <1>3, <1>4 DEF Receive, Quiet

LEMMA SeparateByTryCountStep ==
    ASSUME TypeOK, NoneUnexpected, NEW i \in Instances, SeparateByTryCount(i)
    PROVE  TypeOK' /\ Quiet
<1>0. /\ job' \in [Instances -> [Copies -> Jobs]]
      /\ \A j \in Instances, d \in Copies :
            \/ job'[j][d] = job[j][d]
            \/ /\ job'[j][d].err = "none"
               /\ job'[j][d].at = "idle" \/ job[j][d].at = "valid"
  <2> DEFINE row == [c \in Copies |->
                       IF job[i][c].at # "valid" THEN job[i][c]
                       ELSE [Idle EXCEPT !.at = IF tried[c[1]] THEN "single" ELSE "fresh"]]
  <2>1. job[i] \in [Copies -> Jobs]
    BY Effects
  <2>2. \A c \in Copies :
           /\ row[c] \in Jobs
           /\ row[c] = job[i][c] \/ (row[c].err = "none" /\ job[i][c].at = "valid")
    BY <2>1 DEF Idle, Jobs, Stages
  <2>3. CASE job' = [job EXCEPT ![i] = row]
    <3>1. row \in [Copies -> Jobs]
      BY <2>2
    <3> QED
      BY <2>2, <2>3, <3>1, Effects
  <2>4. CASE Moved(i, At(i, "valid"), "idle", "none")
    BY <2>4 DEF Moved
  <2>5. job' = [job EXCEPT ![i] = row] \/ Moved(i, At(i, "valid"), "idle", "none")
    BY Effects DEF SeparateByTryCount, Stages
  <2> QED
    BY <2>3, <2>4, <2>5
<1>1. job' \in [Instances -> [Copies -> Jobs]]
  BY <1>0
<1>2. NothingStarts
  BY <1>0 DEF NothingStarts, Active, Unexpected, IsRequeuedError
<1>3. TypeOK'
  BY <1>1 DEF SeparateByTryCount, TypeOK
<1> QED
  BY <1>2, <1>3 DEF SeparateByTryCount, Quiet

LEMMA DecideBatchingStep ==
    ASSUME TypeOK, NoneUnexpected, NEW i \in Instances, DecideBatching(i)
    PROVE  TypeOK' /\ Quiet
<1>1. job' \in [Instances -> [Copies -> Jobs]]
  BY Effects DEF DecideBatching, Moved, Stages
<1>2. NothingStarts
  BY Effects
     DEF DecideBatching, Moved, Stages, NothingStarts, Active, Unexpected, At, In
<1>3. TypeOK'
  BY <1>1 DEF DecideBatching, TypeOK
<1> QED
  BY <1>2, <1>3 DEF DecideBatching, Quiet

LEMMA NextGroupStep ==
    ASSUME TypeOK, NoneUnexpected, NEW i \in Instances, NextGroup(i)
    PROVE  TypeOK' /\ Quiet
<1>1. job' \in [Instances -> [Copies -> Jobs]]
  BY Effects DEF NextGroup, OfToken, Moved, Stages
<1>2. NothingStarts
  BY Effects
     DEF NextGroup, OfToken, Moved, Stages, NothingStarts, Active, Unexpected, At, In
<1>3. TypeOK'
  BY <1>1 DEF NextGroup, OfToken, TypeOK
<1> QED
  BY <1>2, <1>3 DEF NextGroup, OfToken, Quiet

LEMMA CreateBatchStep ==
    ASSUME TypeOK, NoneUnexpected, NEW i \in Instances, CreateBatch(i)
    PROVE  TypeOK' /\ Quiet
<1>1. job' \in [Instances -> [Copies -> Jobs]]
  BY Effects, ErrorsAssumption DEF CreateBatch, Group, Moved, Stages
<1>2. /\ status' \in [Requests -> Status]
      /\ \A r \in Requests : status'[r] = "PENDING" => status[r] = "PENDING"
  BY Effects DEF CreateBatch, Group, StatusSet, Status
<1>3. NothingStarts
  <2>1. \/ Moved(i, At(i, "bCreate"), "bSign", "none")
        \/ Moved(i, At(i, "bCreate"), "bSkip", "none")
        \/ \E e \in Errors \ {"funds"} : Moved(i, At(i, "bCreate"), "bRefused", e)
    BY Effects, ErrorsAssumption DEF CreateBatch, Group, Stages
  <2>2. \A d \in At(i, "bCreate") : job[i][d].at = "bCreate"
    BY DEF CreateBatch, Group, At
  <2> QED
    BY <2>1, <2>2 DEF Moved, NothingStarts, Active, Unexpected, IsRequeuedError
<1>4. TypeOK'
  BY <1>1, <1>2 DEF CreateBatch, Group, TypeOK
<1> QED
  BY <1>2, <1>3, <1>4 DEF CreateBatch, Group, Quiet

LEMMA SkipBatchStep ==
    ASSUME TypeOK, NoneUnexpected, NEW i \in Instances, SkipBatch(i)
    PROVE  TypeOK' /\ Quiet
<1>1. job' \in [Instances -> [Copies -> Jobs]]
  BY Effects, ErrorsAssumption DEF SkipBatch, DeleteAll, Moved, Stages
<1>2. msg' \in [Copies -> CopyStates]
  BY Effects DEF SkipBatch, DeleteAll
<1>3. NothingStarts
  <2>1. \/ Moved(i, At(i, "bSkip"), "idle", "none")
        \/ \E e \in Errors \ {"funds"} : Moved(i, At(i, "bSkip"), "bRefused", e)
    BY Effects, ErrorsAssumption DEF SkipBatch, DeleteAll, Stages
  <2>2. \A d \in At(i, "bSkip") : job[i][d].at = "bSkip"
    BY DEF SkipBatch, DeleteAll, At
  <2> QED
    BY <2>1, <2>2 DEF Moved, NothingStarts, Active, Unexpected, IsRequeuedError
<1>4. TypeOK'
  BY <1>1, <1>2 DEF SkipBatch, DeleteAll, TypeOK
<1> QED
  BY <1>3, <1>4 DEF SkipBatch, DeleteAll, Quiet

LEMMA SignBatchStep ==
    ASSUME TypeOK, NoneUnexpected, NEW i \in Instances, SignBatch(i)
    PROVE  TypeOK' /\ Quiet
<1>1. job' \in [Instances -> [Copies -> Jobs]]
  BY Effects, ErrorsAssumption DEF SignBatch, Moved, Stages
<1>2. NothingStarts
  <2>1. \/ Moved(i, At(i, "bSign"), "bSigned", "none")
        \/ \E e \in Errors : Moved(i, At(i, "bSign"), "bBroken", e)
    BY Effects, ErrorsAssumption DEF SignBatch, Stages
  <2>2. \A d \in At(i, "bSign") : job[i][d].at = "bSign"
    BY DEF SignBatch, At
  <2> QED
    BY <2>1, <2>2 DEF Moved, NothingStarts, Active, Unexpected, IsRequeuedError
<1>3. TypeOK'
  BY <1>1 DEF SignBatch, TypeOK
<1> QED
  BY <1>2, <1>3 DEF SignBatch, Quiet

LEMMA MarkBatchSignedStep ==
    ASSUME TypeOK, NoneUnexpected, NEW i \in Instances, MarkBatchSigned(i)
    PROVE  TypeOK' /\ Quiet
<1>1. job' \in [Instances -> [Copies -> Jobs]]
  BY Effects, ErrorsAssumption DEF MarkBatchSigned, Moved, Stages
<1>2. /\ status' \in [Requests -> Status]
      /\ \A r \in Requests : status'[r] = "PENDING" => status[r] = "PENDING"
  BY Effects DEF MarkBatchSigned, StatusSet, Status
<1>3. NothingStarts
  <2>1. \/ Moved(i, At(i, "bSigned"), "bDelete", "none")
        \/ \E e \in Errors : Moved(i, At(i, "bSigned"), "bBroken", e)
    BY Effects, ErrorsAssumption DEF MarkBatchSigned, Stages
  <2>2. \A d \in At(i, "bSigned") : job[i][d].at = "bSigned"
    BY DEF MarkBatchSigned, At
  <2> QED
    BY <2>1, <2>2 DEF Moved, NothingStarts, Active, Unexpected, IsRequeuedError
<1>4. TypeOK'
  BY <1>1, <1>2 DEF MarkBatchSigned, TypeOK
<1> QED
  BY <1>2, <1>3, <1>4 DEF MarkBatchSigned, Quiet

LEMMA DeleteBatchStep ==
    ASSUME TypeOK, NoneUnexpected, NEW i \in Instances, DeleteBatch(i)
    PROVE  TypeOK' /\ Quiet
<1>1. job' \in [Instances -> [Copies -> Jobs]]
  BY Effects, ErrorsAssumption DEF DeleteBatch, DeleteAll, Moved, Stages
<1>2. msg' \in [Copies -> CopyStates]
  BY Effects DEF DeleteBatch, DeleteAll
<1>3. NothingStarts
  <2>1. \/ Moved(i, At(i, "bDelete"), "bSend", "none")
        \/ \E e \in Errors : Moved(i, At(i, "bDelete"), "bBroken", e)
    BY Effects, ErrorsAssumption DEF DeleteBatch, DeleteAll, Stages
  <2>2. \A d \in At(i, "bDelete") : job[i][d].at = "bDelete"
    BY DEF DeleteBatch, DeleteAll, At
  <2> QED
    BY <2>1, <2>2 DEF Moved, NothingStarts, Active, Unexpected, IsRequeuedError
<1>4. TypeOK'
  BY <1>1, <1>2 DEF DeleteBatch, DeleteAll, TypeOK
<1> QED
  BY <1>3, <1>4 DEF DeleteBatch, DeleteAll, Quiet

LEMMA HandleBatchErrorStep ==
    ASSUME TypeOK, NoneUnexpected, NEW i \in Instances, HandleBatchError(i)
    PROVE  TypeOK' /\ Quiet
<1>1. job' \in [Instances -> [Copies -> Jobs]]
  BY Effects DEF HandleBatchError, Moved, Stages
<1>2. NothingStarts
  BY Effects
     DEF HandleBatchError, Moved, Stages, NothingStarts, Active, Unexpected, NoneUnexpected, IsRequeuedError, At, In
<1>3. TypeOK'
  BY <1>1 DEF HandleBatchError, TypeOK
<1> QED
  BY <1>2, <1>3 DEF HandleBatchError, Quiet

LEMMA AbortBatchStep ==
    ASSUME TypeOK, NoneUnexpected, NEW i \in Instances, AbortBatch(i)
    PROVE  TypeOK' /\ Quiet
<1>1. job' \in [Instances -> [Copies -> Jobs]]
  BY Effects DEF AbortBatch, Moved, Stages
<1>2. /\ status' \in [Requests -> Status]
      /\ \A r \in Requests : status'[r] = "PENDING" => status[r] = "PENDING"
  BY Effects DEF AbortBatch, StatusSet, Status
<1>3. NothingStarts
  BY Effects
     DEF AbortBatch, Moved, Stages, NothingStarts, Active, Unexpected, At, In
<1>4. TypeOK'
  BY <1>1, <1>2 DEF AbortBatch, TypeOK
<1> QED
  BY <1>2, <1>3, <1>4 DEF AbortBatch, Quiet

LEMMA AbortUnbatchedStep ==
    ASSUME TypeOK, NoneUnexpected, NEW i \in Instances, AbortUnbatched(i)
    PROVE  TypeOK' /\ Quiet
<1>1. job' \in [Instances -> [Copies -> Jobs]]
  BY Effects DEF AbortUnbatched, Moved, Stages
<1>2. /\ status' \in [Requests -> Status]
      /\ \A r \in Requests : status'[r] = "PENDING" => status[r] = "PENDING"
  BY Effects DEF AbortUnbatched, StatusSet, Status
<1>3. NothingStarts
  BY Effects
     DEF AbortUnbatched, Moved, Stages, NothingStarts, Active, Unexpected, At, In
<1>4. TypeOK'
  BY <1>1, <1>2 DEF AbortUnbatched, TypeOK
<1> QED
  BY <1>2, <1>3, <1>4 DEF AbortUnbatched, Quiet

LEMMA PurgeBatchStep ==
    ASSUME TypeOK, NoneUnexpected, NEW i \in Instances, PurgeBatch(i)
    PROVE  TypeOK' /\ Quiet
<1>1. job' \in [Instances -> [Copies -> Jobs]]
  BY Effects DEF PurgeBatch, DeleteAll, Moved, Stages
<1>2. msg' \in [Copies -> CopyStates]
  BY Effects DEF PurgeBatch, DeleteAll
<1>3. NothingStarts
  <2>1. Moved(i, At(i, "bPurge"), "idle", "none")
    BY Effects DEF PurgeBatch, DeleteAll, Stages
  <2>2. \A d \in At(i, "bPurge") : job[i][d].at = "bPurge"
    BY DEF PurgeBatch, DeleteAll, At
  <2> QED
    BY <2>1, <2>2 DEF Moved, NothingStarts, Active, Unexpected, IsRequeuedError
<1>4. TypeOK'
  BY <1>1, <1>2 DEF PurgeBatch, DeleteAll, TypeOK
<1> QED
  BY <1>3, <1>4 DEF PurgeBatch, DeleteAll, Quiet

\* A visibility timeout, a start and a crash
LEMMA EnvironmentStep ==
    ASSUME TypeOK, NoneUnexpected,
           \/ \E c \in Copies : Redeliver(c)
           \/ \E i \in Instances : Start(i) \/ Crash(i)
    PROVE  TypeOK' /\ Quiet
<1>1. CASE \E c \in Copies : Redeliver(c)
  BY <1>1 DEF Redeliver, TypeOK, CopyStates, Quiet, NothingStarts, Active, Unexpected
<1>2. CASE \E i \in Instances : Start(i)
  BY <1>2 DEF Start, TypeOK, Quiet, NothingStarts, Active, Unexpected
<1>3. CASE \E i \in Instances : Crash(i)
  <2> PICK i \in Instances : Crash(i)
    BY <1>3
  <2>1. [c \in Copies |-> Idle] \in [Copies -> Jobs]
    BY DEF Idle, Jobs, Stages
  <2>2. /\ job' \in [Instances -> [Copies -> Jobs]]
        /\ \A j \in Instances, d \in Copies :
              job'[j][d] = job[j][d] \/ job'[j][d] = Idle
    BY <2>1 DEF Crash, TypeOK
  <2>3. TypeOK'
    BY <2>2 DEF Crash, TypeOK
  <2> QED
    BY <2>2, <2>3 DEF Crash, Quiet, NothingStarts, Active, Unexpected, Idle
<1> QED
  BY <1>1, <1>2, <1>3

----------------------------------------------------------------------------
(* The steps that are not quiet: a job takes its request, gives it back, or
   publishes it *)

Others(i, C) ==
    \A j \in Instances, d \in Copies :
        /\ ~(j = i /\ d \in C) => (Active(j, d)' <=> Active(j, d))
        /\ Unexpected(j, d)' => Unexpected(j, d)

Takes(i, c) ==
    /\ status[c[1]] = "PENDING" /\ status'[c[1]] # "PENDING"
    /\ \A r \in Requests : r # c[1] => status'[r] = status[r]
    /\ published' = published
    /\ Active(i, c)' /\ Others(i, {c})

GivesBack(i, c) ==
    /\ status'[c[1]] = "PENDING"
    /\ \A r \in Requests : r # c[1] => status'[r] = status[r]
    /\ published' = published
    /\ Active(i, c) /\ ~Active(i, c)' /\ Others(i, {c})

Sends(i, C) ==
    /\ status' = status
    /\ PublishedFor(RequestsOf(C))
    /\ \A c \in C : Active(i, c) /\ ~Active(i, c)'
    /\ Others(i, C)

LEMMA ClaimStep ==
    ASSUME TypeOK, NoneUnexpected, NEW i \in Instances, NEW c \in Copies, Claim(i, c)
    PROVE  TypeOK' /\ (Quiet \/ Takes(i, c))
<1>1. c[1] \in Requests
  BY DEF Copies
<1>2. job' \in [Instances -> [Copies -> Jobs]]
  BY Effects DEF Claim, Moved, Stages
<1>3. status' \in [Requests -> Status]
  BY Effects DEF Claim, StatusSet, Status
<1>4. TypeOK'
  BY <1>1, <1>2, <1>3 DEF Claim, TypeOK
<1>5. CASE /\ status[c[1]] = "PENDING"
           /\ StatusSet({c[1]}, "VALIDATING")
           /\ Moved(i, {c}, "claimed", "none")
  <2>1. Takes(i, c)
    BY <1>1, <1>5 DEF Takes, Others, Claim, Moved, StatusSet, Active, Unexpected
  <2> QED
    BY <1>4, <2>1
<1>6. CASE /\ UNCHANGED status
           /\ Moved(i, {c}, "discard", "none") \/ Moved(i, {c}, "idle", "none")
  <2>1. Quiet
    BY <1>6 DEF Claim, Quiet, NothingStarts, Moved, Active, Unexpected
  <2> QED
    BY <1>4, <2>1
<1> QED
  BY <1>5, <1>6, Effects DEF Claim, Claimable, Stages, Status

LEMMA HandleSigningErrorStep ==
    ASSUME TypeOK, NoneUnexpected, NEW i \in Instances, NEW c \in Copies,
           HandleSigningError(i, c)
    PROVE  TypeOK' /\ (Quiet \/ GivesBack(i, c))
<1> DEFINE e == job[i][c].err
           s == StatusAfterError(e)
<1>1. c[1] \in Requests /\ job[i][c] \in Jobs
  BY Effects DEF Copies
<1>2. s \in Status
  BY DEF StatusAfterError, Status
<1>3. /\ \/ Moved(i, {c}, "caught", e) /\ e \in Errors
         \/ Moved(i, {c}, "null", "none")
         \/ \E d \in InfraErrors : Moved(i, {c}, "caught", d)
      /\ StatusSet({c[1]}, s) \/ UNCHANGED status
  <2>1. e \in Errors \/ e = "none"
    BY <1>1 DEF Jobs
  <2>2. IsNetworkError(e) \/ IsRecoverableError(e) => e \in Errors
    BY DEF IsNetworkError, IsRecoverableError, Errors
  <2> HIDE DEF e, s
  <2> QED
    BY <1>2, <2>2, Effects, ErrorsAssumption DEF HandleSigningError, Stages, e, s
<1>4. job' \in [Instances -> [Copies -> Jobs]] /\ status' \in [Requests -> Status]
  BY <1>3, Effects DEF Moved, StatusSet
<1>5. TypeOK'
  BY <1>4 DEF HandleSigningError, TypeOK
<1>6. Active(i, c) /\ ~Unexpected(i, c) /\ job[i][c].at = "failed"
  BY DEF HandleSigningError, Active, NoneUnexpected
<1>7. /\ Others(i, {c})
      /\ ~Active(i, c)'
  BY <1>3, <1>6, ErrorsAssumption DEF Others, Moved, Active, Unexpected, IsRequeuedError
<1>8. published' = published
  BY DEF HandleSigningError
<1>9. CASE StatusSet({c[1]}, s) /\ s = "PENDING"
  BY <1>1, <1>5, <1>6, <1>7, <1>8, <1>9 DEF GivesBack, StatusSet
<1>10. CASE UNCHANGED status \/ (StatusSet({c[1]}, s) /\ s # "PENDING")
  <2>1. \A r \in Requests : status'[r] = "PENDING" => status[r] = "PENDING"
    BY <1>10 DEF StatusSet
  <2>2. \A j \in Instances, d \in Copies : Active(j, d)' => Active(j, d)
    BY <1>7 DEF Others
  <2> QED
    BY <1>5, <1>7, <1>8, <2>1, <2>2 DEF Quiet, NothingStarts, Others
<1> QED
  BY <1>3, <1>9, <1>10

LEMMA ReturnToPendingStep ==
    ASSUME TypeOK, NoneUnexpected, NEW i \in Instances, NEW c \in Copies,
           ReturnToPending(i, c)
    PROVE  TypeOK' /\ (Quiet \/ GivesBack(i, c))
<1>1. c[1] \in Requests
  BY DEF Copies
<1>2. Moved(i, {c}, "idle", "none") /\ (StatusSet({c[1]}, "PENDING") \/ UNCHANGED status)
  BY Effects DEF ReturnToPending, Stages, Status
<1>3. TypeOK'
  <2>1. job' \in [Instances -> [Copies -> Jobs]] /\ status' \in [Requests -> Status]
    BY <1>2, Effects DEF Moved, StatusSet
  <2> QED
    BY <2>1 DEF ReturnToPending, TypeOK
<1>4. Active(i, c) /\ ~Active(i, c)' /\ Others(i, {c})
  BY <1>2 DEF ReturnToPending, Others, Moved, Active, Unexpected
<1>5. CASE StatusSet({c[1]}, "PENDING")
  BY <1>1, <1>3, <1>4, <1>5 DEF ReturnToPending, GivesBack, StatusSet
<1>6. CASE UNCHANGED status
  BY <1>3, <1>4, <1>6 DEF ReturnToPending, Quiet, NothingStarts, Others
<1> QED
  BY <1>2, <1>5, <1>6

LEMMA PublishStep ==
    ASSUME TypeOK, NoneUnexpected, NEW i \in Instances, NEW c \in Copies, Publish(i, c)
    PROVE  TypeOK' /\ (Quiet \/ Sends(i, {c}))
<1> DEFINE R == IF job[i][c].at = "publish" THEN {c[1]} ELSE {}
<1>1. c[1] \in Requests /\ RequestsOf({c}) = {c[1]}
  BY DEF Copies, RequestsOf
<1>2. \/ Moved(i, {c}, "delete", "none")
      \/ \E e \in InfraErrors : Moved(i, {c}, "caught", e)
  BY Effects, ErrorsAssumption DEF Publish, Stages
<1>3. PublishedFor(R) \/ UNCHANGED <<published, nullSent>>
  BY PublishForEffect DEF Publish
<1>4. TypeOK'
  <2>1. job' \in [Instances -> [Copies -> Jobs]]
    BY <1>2 DEF Moved
  <2>2. published' \in [Requests -> Nat] /\ nullSent' \in BOOLEAN
    BY <1>3 DEF PublishedFor, TypeOK
  <2> QED
    BY <2>1, <2>2 DEF Publish, TypeOK
<1>5. /\ Others(i, {c}) /\ ~Active(i, c)'
      /\ job[i][c].at = "publish" => Active(i, c)
  BY <1>2, ErrorsAssumption DEF Publish, Others, Moved, Active, Unexpected, IsRequeuedError
<1>6. CASE job[i][c].at = "publish" /\ PublishedFor(R)
  BY <1>1, <1>4, <1>5, <1>6 DEF Sends, Publish
<1>7. CASE published' = published
  BY <1>4, <1>5, <1>7 DEF Quiet, NothingStarts, Others, Publish
<1>8. CASE job[i][c].at # "publish" /\ PublishedFor(R)
  <2>1. published' = published
    BY <1>8 DEF PublishedFor, TypeOK
  <2> QED
    BY <1>7, <2>1
<1> QED
  BY <1>3, <1>6, <1>7, <1>8

LEMMA SendBatchStep ==
    ASSUME TypeOK, NoneUnexpected, NEW i \in Instances, SendBatch(i)
    PROVE  TypeOK' /\ (Quiet \/ \E C \in SUBSET Copies : Sends(i, C))
<1> DEFINE C == At(i, "bSend")
<1>1. C \in SUBSET Copies /\ \A c \in C : Active(i, c)
  BY DEF At, Active
<1>2. \/ Moved(i, C, "idle", "none")
      \/ \E e \in InfraErrors : Moved(i, C, "bBroken", e)
  BY Effects, ErrorsAssumption DEF SendBatch, Stages
<1>3. PublishedFor(RequestsOf(C)) \/ UNCHANGED <<published, nullSent>>
  BY PublishForEffect DEF SendBatch
<1>4. TypeOK'
  <2>1. job' \in [Instances -> [Copies -> Jobs]]
    BY <1>2 DEF Moved
  <2>2. published' \in [Requests -> Nat] /\ nullSent' \in BOOLEAN
    BY <1>3 DEF PublishedFor, TypeOK
  <2> QED
    BY <2>1, <2>2 DEF SendBatch, TypeOK
<1>5. Others(i, C) /\ \A c \in C : ~Active(i, c)'
  <2> HIDE DEF C
  <2> QED
    BY <1>1, <1>2, ErrorsAssumption DEF Others, Moved, Active, Unexpected, IsRequeuedError
<1>6. CASE PublishedFor(RequestsOf(C))
  BY <1>1, <1>4, <1>5, <1>6 DEF Sends, SendBatch
<1>7. CASE UNCHANGED <<published, nullSent>>
  BY <1>1, <1>4, <1>5, <1>7 DEF Quiet, NothingStarts, Others, SendBatch
<1> QED
  BY <1>3, <1>6, <1>7

----------------------------------------------------------------------------
(* Every step is of one of these kinds *)

Kinds ==
    \/ Quiet
    \/ \E i \in Instances, c \in Copies : Takes(i, c) \/ GivesBack(i, c)
    \/ \E i \in Instances : \E C \in SUBSET Copies : Sends(i, C)

LEMMA MessageSteps ==
    ASSUME TypeOK, NoneUnexpected, NEW i \in Instances, NEW c \in Copies,
           MessageStep(i, c)
    PROVE  TypeOK' /\ Kinds
<1>1. CASE Claim(i, c)
  BY <1>1, ClaimStep DEF Kinds
<1>2. CASE Discard(i, c)
  BY <1>2, DiscardStep DEF Kinds
<1>3. CASE Validate(i, c)
  BY <1>3, ValidateStep DEF Kinds
<1>4. CASE FailUnfit(i, c)
  BY <1>4, FailUnfitStep DEF Kinds
<1>5. CASE EstimateGas(i, c)
  BY <1>5, EstimateGasStep DEF Kinds
<1>6. CASE AllocateNonce(i, c)
  BY <1>6, AllocateNonceStep DEF Kinds
<1>7. CASE BeginSigning(i, c)
  BY <1>7, BeginSigningStep DEF Kinds
<1>8. CASE Sign(i, c)
  BY <1>8, SignStep DEF Kinds
<1>9. CASE MarkSigned(i, c)
  BY <1>9, MarkSignedStep DEF Kinds
<1>10. CASE HandleSigningError(i, c)
  BY <1>10, HandleSigningErrorStep DEF Kinds
<1>11. CASE Publish(i, c)
  BY <1>11, PublishStep DEF Kinds
<1>12. CASE DeleteProcessed(i, c)
  BY <1>12, DeleteProcessedStep DEF Kinds
<1>13. CASE HandleProcessingError(i, c)
  BY <1>13, HandleProcessingErrorStep DEF Kinds
<1>14. CASE SendToRequestQueue(i, c)
  BY <1>14, SendToRequestQueueStep DEF Kinds
<1>15. CASE ReturnToPending(i, c)
  BY <1>15, ReturnToPendingStep DEF Kinds
<1>16. CASE RecoverMember(i, c)
  BY <1>16, RecoverMemberStep DEF Kinds
<1> QED
  BY <1>1, <1>2, <1>3, <1>4, <1>5, <1>6, <1>7, <1>8,
     <1>9, <1>10, <1>11, <1>12, <1>13, <1>14, <1>15, <1>16
     DEF MessageStep

LEMMA BatchSteps ==
    ASSUME TypeOK, NoneUnexpected, NEW i \in Instances, BatchStep(i)
    PROVE  TypeOK' /\ Kinds
<1>1. CASE Receive(i)
  BY <1>1, ReceiveStep DEF Kinds
<1>2. CASE SeparateByTryCount(i)
  BY <1>2, SeparateByTryCountStep DEF Kinds
<1>3. CASE DecideBatching(i)
  BY <1>3, DecideBatchingStep DEF Kinds
<1>4. CASE NextGroup(i)
  BY <1>4, NextGroupStep DEF Kinds
<1>5. CASE CreateBatch(i)
  BY <1>5, CreateBatchStep DEF Kinds
<1>6. CASE SkipBatch(i)
  BY <1>6, SkipBatchStep DEF Kinds
<1>7. CASE SignBatch(i)
  BY <1>7, SignBatchStep DEF Kinds
<1>8. CASE MarkBatchSigned(i)
  BY <1>8, MarkBatchSignedStep DEF Kinds
<1>9. CASE DeleteBatch(i)
  BY <1>9, DeleteBatchStep DEF Kinds
<1>10. CASE SendBatch(i)
  BY <1>10, SendBatchStep DEF Kinds
<1>11. CASE HandleBatchError(i)
  BY <1>11, HandleBatchErrorStep DEF Kinds
<1>12. CASE AbortBatch(i)
  BY <1>12, AbortBatchStep DEF Kinds
<1>13. CASE AbortUnbatched(i)
  BY <1>13, AbortUnbatchedStep DEF Kinds
<1>14. CASE PurgeBatch(i)
  BY <1>14, PurgeBatchStep DEF Kinds
<1> QED
  BY <1>1, <1>2, <1>3, <1>4, <1>5, <1>6, <1>7,
     <1>8, <1>9, <1>10, <1>11, <1>12, <1>13, <1>14
     DEF BatchStep

LEMMA NextSteps ==
    ASSUME TypeOK, NoneUnexpected, [Next]_vars
    PROVE  TypeOK' /\ Kinds
<1>1. CASE \E i \in Instances : \E c \in Copies : MessageStep(i, c)
  BY <1>1, MessageSteps
<1>2. CASE \E i \in Instances : BatchStep(i)
  BY <1>2, BatchSteps
<1>3. CASE \/ \E c \in Copies : Redeliver(c)
           \/ \E i \in Instances : Start(i) \/ Crash(i)
  BY <1>3, EnvironmentStep DEF Kinds
<1>4. CASE UNCHANGED vars
  <2>1. TypeOK'
    BY <1>4 DEF vars, TypeOK
  <2>2. Quiet
    BY <1>4 DEF vars, Quiet, NothingStarts, Active, Unexpected
  <2> QED
    BY <2>1, <2>2 DEF Kinds
<1> QED
  BY <1>1, <1>2, <1>3, <1>4 DEF Next, Worker

----------------------------------------------------------------------------
(* The invariant is inductive *)

LEMMA InitInv == Init => Inv
<1> SUFFICES ASSUME Init PROVE Inv
  OBVIOUS
<1>1. TypeOK
  BY BoundsAssumption
     DEF Init, TypeOK, Status, CopyStates, Idle, Jobs, Stages, Copies
<1>2. \A i \in Instances, c \in Copies : ~Active(i, c) /\ ~Unexpected(i, c)
  BY DEF Init, Idle, Active, Unexpected
<1>3. \A r \in Requests : published[r] = 0
  BY DEF Init
<1> QED
  BY <1>1, <1>2, <1>3
     DEF Inv, NoneUnexpected, ExclusiveClaim, InPlayUnpaid, AtMostOnePublished

LEMMA QuietKeepsInv ==
    ASSUME Inv, TypeOK', Quiet
    PROVE  Inv'
<1>1. \A c \in Copies : c[1] \in Requests
  BY DEF Copies
<1> QED
  BY <1>1 DEF Inv, Quiet, NothingStarts, NoneUnexpected, ExclusiveClaim, InPlayUnpaid, AtMostOnePublished

\* Nobody else works on a request that is PENDING
LEMMA TakesKeepsInv ==
    ASSUME Inv, TypeOK', NEW i \in Instances, NEW c \in Copies, Takes(i, c)
    PROVE  Inv'
<1>1. \A d \in Copies : d[1] \in Requests
  BY DEF Copies
<1>2. \A j \in Instances, d \in Copies : Active(j, d) => d[1] # c[1]
  BY DEF Inv, InPlayUnpaid, Takes
<1>3. \A j \in Instances, d \in Copies : Active(j, d)' => Active(j, d) \/ (j = i /\ d = c)
  BY DEF Takes, Others
<1>4. ExclusiveClaim'
  BY <1>2, <1>3 DEF Inv, ExclusiveClaim
<1>5. NoneUnexpected'
  BY DEF Inv, NoneUnexpected, Takes, Others
<1>6. InPlayUnpaid'
  BY <1>1, <1>2, <1>3 DEF Inv, InPlayUnpaid, Takes
<1>7. AtMostOnePublished'
  BY DEF Inv, AtMostOnePublished, Takes
<1> QED
  BY <1>4, <1>5, <1>6, <1>7 DEF Inv

LEMMA GivesBackKeepsInv ==
    ASSUME Inv, TypeOK', NEW i \in Instances, NEW c \in Copies, GivesBack(i, c)
    PROVE  Inv'
<1>1. \A d \in Copies : d[1] \in Requests
  BY DEF Copies
<1>2. \A j \in Instances, d \in Copies : Active(j, d)' => Active(j, d) /\ d[1] # c[1]
  BY DEF Inv, ExclusiveClaim, GivesBack, Others
<1>3. ExclusiveClaim'
  BY <1>2 DEF Inv, ExclusiveClaim
<1>4. NoneUnexpected'
  BY DEF Inv, NoneUnexpected, GivesBack, Others
<1>5. InPlayUnpaid'
  BY <1>1, <1>2 DEF Inv, InPlayUnpaid, GivesBack
<1>6. AtMostOnePublished'
  BY DEF Inv, AtMostOnePublished, GivesBack
<1> QED
  BY <1>3, <1>4, <1>5, <1>6 DEF Inv

LEMMA SendsKeepsInv ==
    ASSUME Inv, TypeOK', NEW i \in Instances, NEW C \in SUBSET Copies, Sends(i, C)
    PROVE  Inv'
<1>1. \A d \in Copies : d[1] \in Requests
  BY DEF Copies
<1>2. \A r \in Requests : r \in RequestsOf(C) => \E c \in C : c[1] = r /\ Active(i, c)
  BY DEF RequestsOf, Sends
<1>3. \A r \in RequestsOf(C) : published[r] = 0 /\ status[r] # "PENDING"
  BY <1>2 DEF Inv, InPlayUnpaid, RequestsOf, Sends
<1>4. \A j \in Instances, d \in Copies :
         Active(j, d)' => Active(j, d) /\ d[1] \notin RequestsOf(C)
  <2> SUFFICES ASSUME NEW j \in Instances, NEW d \in Copies, Active(j, d)'
               PROVE  Active(j, d) /\ d[1] \notin RequestsOf(C)
    OBVIOUS
  <2>1. Active(j, d) /\ ~(j = i /\ d \in C)
    BY DEF Sends, Others
  <2>2. ASSUME d[1] \in RequestsOf(C) PROVE FALSE
    <3>1. PICK c \in C : c[1] = d[1] /\ Active(i, c)
      BY <1>1, <1>2, <2>2
    <3> QED
      BY <2>1, <3>1 DEF Inv, ExclusiveClaim
  <2> QED
    BY <2>1, <2>2
<1>5. ExclusiveClaim'
  BY <1>4 DEF Inv, ExclusiveClaim
<1>6. NoneUnexpected'
  BY DEF Inv, NoneUnexpected, Sends, Others
<1>7. InPlayUnpaid'
  BY <1>1, <1>3, <1>4 DEF Inv, InPlayUnpaid, Sends, PublishedFor
<1>8. AtMostOnePublished'
  BY <1>3 DEF Inv, AtMostOnePublished, Sends, PublishedFor
<1> QED
  BY <1>5, <1>6, <1>7, <1>8 DEF Inv

LEMMA NextInv == Inv /\ [Next]_vars => Inv'
<1> SUFFICES ASSUME Inv, [Next]_vars PROVE Inv'
  OBVIOUS
<1>1. TypeOK' /\ Kinds
  BY NextSteps DEF Inv
<1> QED
  BY <1>1, QuietKeepsInv, TakesKeepsInv, GivesBackKeepsInv, SendsKeepsInv DEF Kinds

THEOREM Invariance == Spec => []Inv
<1>1. Init => Inv
  BY InitInv
<1>2. Inv /\ [Next]_vars => Inv'
  BY NextInv
<1> QED
  BY <1>1, <1>2, PTL DEF Spec

\* Every state has the declared type: statuses are those of the database's
\* enumeration, copies are where SQS can have them.
THEOREM TypeCorrect == Spec => []TypeOK
<1>1. Inv => TypeOK
  BY DEF Inv
<1> QED
  BY <1>1, Invariance, PTL

\* claimMessages keeps two jobs from working on one request at a time, however
\* many instances run and however often its messages are delivered.
THEOREM ClaimsAreExclusive == Spec => []ExclusiveClaim
<1>1. Inv => ExclusiveClaim
  BY DEF Inv
<1> QED
  BY <1>1, Invariance, PTL

\* No request that may still be claimed or published has been published.
THEOREM InPlayIsUnpaid == Spec => []InPlayUnpaid
<1>1. Inv => InPlayUnpaid
  BY DEF Inv
<1> QED
  BY <1>1, Invariance, PTL

\* The signing service sends at most one signed transaction for each withdrawal
\* request, alone or in a batch.
THEOREM NoDoublePayment == Spec => []AtMostOnePublished
<1>1. Inv => AtMostOnePublished
  BY DEF Inv
<1> QED
  BY <1>1, Invariance, PTL

----------------------------------------------------------------------------
(* SigningWorker implements SignOnce *)

\* The requests whose phase a step changes leave it for "closed", but for the
\* one that is taken or given back
LEMMA InitRefines == Init => Once!OnceInit
<1> SUFFICES ASSUME Init PROVE Once!OnceInit
  OBVIOUS
<1>1. \A i \in Instances, c \in Copies : ~Active(i, c)
  BY DEF Init, Idle, Active
<1>2. \A r \in Requests : Phase(r) = "open"
  BY <1>1 DEF Init, Phase, Held
<1> QED
  BY <1>2 DEF Init, Once!OnceInit

LEMMA QuietRefines ==
    ASSUME Inv, Quiet
    PROVE  Once!OnceNext
<1> DEFINE R == {r \in Requests : Phase(r)' # Phase(r)}
<1>1. \A r \in Requests : Held(r)' => Held(r)
  BY DEF Quiet, NothingStarts, Held
<1>2. \A r \in Requests : Held(r) => status[r] # "PENDING"
  BY DEF Inv, InPlayUnpaid, Held
<1>3. \A r \in R : Phase(r) \in {"open", "held"} /\ Phase(r)' = "closed"
  BY <1>1, <1>2 DEF Quiet, NothingStarts, Phase
<1>4. Once!Drop(R)
  BY <1>3 DEF Once!Drop, Once!Shift, Quiet, NothingStarts
<1> QED
  BY <1>4 DEF Once!OnceNext

LEMMA TakesRefines ==
    ASSUME Inv, NEW i \in Instances, NEW c \in Copies, Takes(i, c)
    PROVE  Once!OnceNext
<1>1. c[1] \in Requests
  BY DEF Copies
<1>2. \A j \in Instances, d \in Copies : d[1] # c[1] => (Active(j, d)' <=> Active(j, d))
  BY DEF Takes, Others
<1>3. \A r \in Requests : r # c[1] => Phase(r)' = Phase(r)
  BY <1>2 DEF Phase, Held, Takes
<1>4. Phase(c[1]) = "open" /\ Phase(c[1])' = "held"
  BY DEF Inv, InPlayUnpaid, Phase, Held, Takes
<1>5. Once!Take(c[1])
  BY <1>1, <1>3, <1>4 DEF Once!Take, Once!Shift, Takes
<1> QED
  BY <1>1, <1>5 DEF Once!OnceNext

LEMMA GivesBackRefines ==
    ASSUME Inv, NEW i \in Instances, NEW c \in Copies, GivesBack(i, c)
    PROVE  Once!OnceNext
<1>1. c[1] \in Requests
  BY DEF Copies
<1>2. \A j \in Instances, d \in Copies : d[1] # c[1] => (Active(j, d)' <=> Active(j, d))
  BY DEF GivesBack, Others
<1>3. \A r \in Requests : r # c[1] => Phase(r)' = Phase(r)
  BY <1>2 DEF Phase, Held, GivesBack
<1>4. Phase(c[1]) = "held"
  BY DEF Phase, Held, GivesBack
<1>5. \A j \in Instances, d \in Copies : Active(j, d)' => d[1] # c[1]
  BY DEF Inv, ExclusiveClaim, GivesBack, Others
<1>6. Phase(c[1])' = "open"
  BY <1>5 DEF Phase, Held, GivesBack
<1>7. Once!GiveBack(c[1])
  BY <1>1, <1>3, <1>4, <1>6 DEF Once!GiveBack, Once!Shift, GivesBack
<1> QED
  BY <1>1, <1>7 DEF Once!OnceNext

LEMMA SendsRefines ==
    ASSUME Inv, NEW i \in Instances, NEW C \in SUBSET Copies, Sends(i, C)
    PROVE  Once!OnceNext
<1> DEFINE R == RequestsOf(C)
<1>1. R \in SUBSET Requests
  BY DEF RequestsOf, Copies
<1>2. \A j \in Instances, d \in Copies : d[1] \notin R => (Active(j, d)' <=> Active(j, d))
  BY DEF Sends, Others, RequestsOf
<1>3. \A r \in Requests : r \notin R => Phase(r)' = Phase(r)
  BY <1>2 DEF Phase, Held, Sends
<1>4. \A r \in R : Phase(r) = "held"
  BY DEF Phase, Held, Sends, RequestsOf
<1>5. \A r \in R : status[r] # "PENDING"
  BY DEF Inv, InPlayUnpaid, Sends, RequestsOf
<1>6. \A j \in Instances, d \in Copies : Active(j, d)' => d[1] \notin R
  BY DEF Inv, ExclusiveClaim, Sends, Others, RequestsOf
<1>7. \A r \in R : Phase(r)' = "closed"
  BY <1>5, <1>6 DEF Phase, Held, Sends
<1>8. published' = [r \in Requests |-> IF r \in R THEN published[r] + 1 ELSE published[r]]
  BY DEF Sends, PublishedFor
<1>9. Once!Send(R)
  BY <1>1, <1>3, <1>4, <1>7, <1>8 DEF Once!Send, Once!Shift
<1> QED
  BY <1>1, <1>9 DEF Once!OnceNext

LEMMA StepRefines == Inv /\ [Next]_vars => [Once!OnceNext]_(Once!ovars)
BY NextSteps, QuietRefines, TakesRefines, GivesBackRefines, SendsRefines
   DEF Kinds, Inv

\* Whatever the instances do, a request goes through open, held and closed as
\* SignOnce has it, and is published once at most on the way.
THEOREM SigningRefines == Spec => RefinesSignOnce
<1>1. Init => Once!OnceInit
  BY InitRefines
<1>2. Inv /\ [Next]_vars => [Once!OnceNext]_(Once!ovars)
  BY StepRefines
<1> QED
  BY <1>1, <1>2, Invariance, PTL DEF Spec, RefinesSignOnce, Once!OnceSpec
----------------------------------------------------------------------------
(* One instance at a time: a request that waits has its message *)

OnQueue(c) == msg[c] \in Instances \cup {"visible"}

\* Where a job deletes its message
Deleting(i, c) ==
    \/ job[i][c].at \in {"discard", "delete", "bSkip", "bDelete", "bPurge"}
    \/ job[i][c].at = "caught" /\ ~IsRecoverableError(job[i][c].err)

\* A job whose message is there, and stays until the job deletes it
Keeping(i, c) ==
    \/ job[i][c].at = "received"
    \/ Active(i, c) /\ job[i][c].at # "bSend"

\* A job that will not delete its message while the row says PENDING
AtRest(i, c) ==
    \/ job[i][c].at \in {"idle", "received"}
    \/ job[i][c].at = "caught" /\ IsRecoverableError(job[i][c].err)

Waits(r) ==
    \E c \in Copies : c[1] = r /\ OnQueue(c) /\ \A i \in Instances : AtRest(i, c)

KeepInv ==
    /\ \A i \in Instances, c \in Copies : job[i][c].at # "idle" => life[i] = "up"
    /\ \A i, j \in Instances : life[i] = "up" /\ life[j] = "up" => i = j
    /\ \A i \in Instances, c \in Copies : Keeping(i, c) => OnQueue(c)

PendingWaits == \A r \in Requests : status[r] = "PENDING" => Waits(r)

\* What a step of instance i with the copies of C does to the messages
Handled(i, C) ==
    /\ C \subseteq Copies /\ life' = life
    /\ \A c \in C : job[i][c].at # "idle"
    /\ \A j \in Instances, d \in Copies :
          \/ j = i /\ d \in C
          \/ job'[j][d].at = job[j][d].at /\ job'[j][d].err = job[j][d].err
          \/ job'[j][d].at = "idle"
    /\ \A c \in Copies : OnQueue(c) => OnQueue(c)' \/ (c \in C /\ Deleting(i, c))
    /\ \A c \in C : Keeping(i, c)' => Keeping(i, c) /\ ~Deleting(i, c)
    /\ \A c \in C : AtRest(i, c) => AtRest(i, c)' \/ status'[c[1]] # "PENDING"
    /\ \A r \in Requests : status'[r] = "PENDING" =>
          \/ status[r] = "PENDING"
          \/ \E c \in C : c[1] = r /\ Keeping(i, c) /\ ~Deleting(i, c) /\ AtRest(i, c)'

Keeps == KeepInv' /\ \A r \in Requests :
            (status[r] = "PENDING" => Waits(r)) => (status'[r] = "PENDING" => Waits(r)')

LEMMA HandledKeeps ==
    ASSUME KeepInv, NEW i \in Instances, NEW C, Handled(i, C)
    PROVE  Keeps
<1>1. \A j \in Instances, c \in C : j # i => job[j][c].at = "idle"
  BY DEF KeepInv, Handled
<1>2. \A j \in Instances, d \in Copies :
         ~(j = i /\ d \in C) => (Keeping(j, d)' => Keeping(j, d)) /\ (AtRest(j, d) => AtRest(j, d)')
  BY DEF Handled, Keeping, Active, AtRest, IsRequeuedError, IsRecoverableError
<1>3. \A c \in C : Deleting(i, c) => ~AtRest(i, c)
  BY DEF Deleting, AtRest, IsRecoverableError
<1>4. \A j \in Instances, d \in Copies : Keeping(j, d)' => OnQueue(d)'
  <2> SUFFICES ASSUME NEW j \in Instances, NEW d \in Copies, Keeping(j, d)'
               PROVE  OnQueue(d)'
    OBVIOUS
  <2>1. Keeping(j, d) /\ (d \in C => ~Deleting(i, d))
    <3>1. CASE j = i /\ d \in C
      BY <3>1 DEF Handled
    <3>2. CASE ~(j = i /\ d \in C)
      <4>1. Keeping(j, d)
        BY <1>2, <3>2
      <4>2. job[j][d].at # "idle"
        BY <4>1 DEF Keeping, Active
      <4>3. d \notin C
        BY <1>1, <3>2, <4>2
      <4> QED
        BY <4>1, <4>3
    <3> QED
      BY <3>1, <3>2
  <2>2. OnQueue(d)
    BY <2>1 DEF KeepInv
  <2> QED
    BY <2>1, <2>2 DEF Handled
<1>5. \A j \in Instances, d \in Copies : job'[j][d].at # "idle" => job[j][d].at # "idle"
  BY DEF Handled
<1>6. KeepInv'
  BY <1>4, <1>5 DEF KeepInv, Handled
<1>7. ASSUME NEW r \in Requests, status[r] = "PENDING", Waits(r), status'[r] = "PENDING"
      PROVE  Waits(r)'
  <2>1. PICK c \in Copies : c[1] = r /\ OnQueue(c) /\ \A j \in Instances : AtRest(j, c)
    BY <1>7 DEF Waits
  <2>2. OnQueue(c)'
    BY <1>3, <2>1 DEF Handled
  <2>3. \A j \in Instances : AtRest(j, c)'
    BY <1>2, <1>7, <2>1 DEF Handled
  <2> QED
    BY <2>1, <2>2, <2>3 DEF Waits
<1>8. ASSUME NEW r \in Requests, status[r] # "PENDING", status'[r] = "PENDING"
      PROVE  Waits(r)'
  <2>1. PICK c \in C : c[1] = r /\ Keeping(i, c) /\ ~Deleting(i, c) /\ AtRest(i, c)'
    BY <1>8 DEF Handled
  <2>2. c \in Copies
    BY DEF Handled
  <2>3. OnQueue(c)'
    BY <2>1, <2>2 DEF KeepInv, Handled
  <2>4. \A j \in Instances : AtRest(j, c)'
    <3> SUFFICES ASSUME NEW j \in Instances, j # i
                 PROVE  AtRest(j, c)'
      BY <2>1
    <3>1. AtRest(j, c)
      BY <1>1 DEF AtRest
    <3> QED
      BY <1>2, <2>2, <3>1
  <2> QED
    BY <2>1, <2>2, <2>3, <2>4 DEF Waits
<1> QED
  BY <1>6, <1>7, <1>8 DEF Keeps

\* The messages that leave the queue are of C, and deleted by their own jobs
OnlyDeletes(i, C) ==
    \A c \in Copies : OnQueue(c) => OnQueue(c)' \/ (c \in C /\ Deleting(i, c))

LEMMA MessageEffects ==
    ASSUME TypeOK, NEW i \in Instances, NEW C
    PROVE  /\ msg' = msg => OnlyDeletes(i, C)
           /\ \A r \in Requests : SendCopy(r) => OnlyDeletes(i, C)
           /\ \A D \in SUBSET C :
                 (\A c \in C : Deleting(i, c)) /\ DeleteMessages(i, D) => OnlyDeletes(i, C)
           /\ (\A c \in C : Deleting(i, c)) /\ DeleteMessages(i, C) => OnlyDeletes(i, C)
<1>1. msg' = msg => OnlyDeletes(i, C)
  BY DEF OnlyDeletes, OnQueue
<1>2. ASSUME NEW r \in Requests, SendCopy(r)
      PROVE  OnlyDeletes(i, C)
  BY <1>2 DEF SendCopy, OnlyDeletes, OnQueue, TypeOK
<1>3. ASSUME NEW D \in SUBSET C, \A c \in C : Deleting(i, c), DeleteMessages(i, D)
      PROVE  OnlyDeletes(i, C)
  BY <1>3 DEF DeleteMessages, OnlyDeletes, OnQueue
<1> QED
  BY <1>1, <1>2, <1>3

\* A job that goes to stage st with an error of class e
KeepsAt(st, e) ==
    \/ st \in {"received", "claimed", "invalid", "valid", "fresh", "grouped", "single",
               "noGas", "estimated", "allocated", "signing", "signed",
               "publish", "failed", "bCreate", "bSign", "bSigned",
               "bDelete", "requeue", "requeued"}
    \/ st \in {"bBroken", "bRecover"} /\ IsRequeuedError(e)

RestsAt(st, e) == st \in {"idle", "received"} \/ (st = "caught" /\ IsRecoverableError(e))

NoneToPending == \A r \in Requests : status'[r] = "PENDING" => status[r] = "PENDING"

LEMMA MovedHandled ==
    ASSUME NEW i \in Instances, NEW C \in SUBSET Copies, NEW st, NEW e,
           Moved(i, C, st, e), life' = life, OnlyDeletes(i, C), NoneToPending,
           \A c \in C :
              /\ job[i][c].at # "idle"
              /\ KeepsAt(st, e) => Keeping(i, c) /\ ~Deleting(i, c)
              /\ AtRest(i, c) => RestsAt(st, e) \/ status'[c[1]] # "PENDING"
    PROVE  Handled(i, C)
<1>1. \A j \in Instances, d \in Copies :
          \/ j = i /\ d \in C
          \/ job'[j][d].at = job[j][d].at /\ job'[j][d].err = job[j][d].err
          \/ job'[j][d].at = "idle"
  BY DEF Moved
<1>2. \A c \in C : job'[i][c].at = st /\ job'[i][c].err = e
  BY DEF Moved
<1>3. \A c \in C : Keeping(i, c)' => KeepsAt(st, e)
  BY <1>2 DEF Keeping, Active, KeepsAt
<1>4. \A c \in C : RestsAt(st, e) => AtRest(i, c)'
  BY <1>2 DEF AtRest, RestsAt
<1> QED
  BY <1>1, <1>3, <1>4 DEF Handled, OnlyDeletes, NoneToPending

\* What a job at a stage is to the messages
LEMMA StageFacts ==
    ASSUME NEW i \in Instances, NEW c \in Copies
    PROVE  /\ KeepsAt(job[i][c].at, job[i][c].err) <=> Keeping(i, c)
           /\ RestsAt(job[i][c].at, job[i][c].err) <=> AtRest(i, c)
BY DEF Keeping, Active, KeepsAt, AtRest, RestsAt

LEMMA ClaimHandled ==
    ASSUME TypeOK, NEW i \in Instances, NEW c \in Copies, Claim(i, c)
    PROVE  Handled(i, {c})
<1> DEFINE C == {c}
<1>1. /\ c[1] \in Requests /\ C \in SUBSET Copies /\ life' = life /\ OnlyDeletes(i, C)
      /\ job[i][c].at = "received"
  BY MessageEffects DEF Claim, Copies
<1>2. /\ NoneToPending
      /\ \/ Moved(i, C, "claimed", "none") /\ status'[c[1]] # "PENDING"
         \/ Moved(i, C, "discard", "none") /\ status'[c[1]] # "PENDING"
         \/ Moved(i, C, "idle", "none")
  BY <1>1, Effects DEF Claim, Claimable, Stages, Status, StatusSet, NoneToPending
<1>3. Keeping(i, c) /\ ~Deleting(i, c)
  BY <1>1 DEF Keeping, Deleting
<1>4. RestsAt("idle", "none") /\ ~KeepsAt("idle", "none") /\ ~KeepsAt("discard", "none")
  BY DEF RestsAt, KeepsAt
<1> QED
  BY <1>1, <1>2, <1>3, <1>4, MovedHandled

LEMMA DiscardHandled ==
    ASSUME TypeOK, NEW i \in Instances, NEW c \in Copies, Discard(i, c)
    PROVE  Handled(i, {c})
<1>1. Moved(i, {c}, "idle", "none") /\ job[i][c].at = "discard" /\ Deleting(i, c)
  BY Effects DEF Discard, Stages, Deleting
<1>2. OnlyDeletes(i, {c}) /\ NoneToPending
  BY <1>1, MessageEffects DEF Discard, NoneToPending
<1>3. RestsAt("idle", "none") /\ ~KeepsAt("idle", "none")
  BY DEF RestsAt, KeepsAt
<1> QED
  BY <1>1, <1>2, <1>3, MovedHandled DEF Discard

\* A step of jobs that keep their messages, and do not delete them in it
LEMMA WorkHandled ==
    ASSUME NEW i \in Instances, NEW C \in SUBSET Copies, NEW st, NEW e,
           Moved(i, C, st, e), life' = life, OnlyDeletes(i, C), NoneToPending,
           \A c \in C : Keeping(i, c) /\ ~Deleting(i, c) /\ ~AtRest(i, c)
    PROVE  Handled(i, C)
<1>1. \A c \in C : job[i][c].at # "idle"
  BY DEF AtRest
<1> QED
  BY <1>1, MovedHandled

\* A step of jobs that keep nothing afterwards
LEMMA EndHandled ==
    ASSUME NEW i \in Instances, NEW C \in SUBSET Copies, NEW st, NEW e,
           Moved(i, C, st, e), life' = life, OnlyDeletes(i, C), NoneToPending,
           ~KeepsAt(st, e),
           \A c \in C : ~AtRest(i, c)
    PROVE  Handled(i, C)
<1>1. \A c \in C : job[i][c].at # "idle"
  BY DEF AtRest
<1> QED
  BY <1>1, MovedHandled

\* The stages of work, told by their names
WorkStages == {"claimed", "invalid", "valid", "fresh", "grouped", "single", "noGas",
               "estimated", "allocated", "signing", "signed", "publish", "failed",
               "bCreate", "bSign", "bSigned", "requeue", "requeued"}

LEMMA WorkFacts ==
    \A i \in Instances, c \in Copies :
       job[i][c].at \in WorkStages => Keeping(i, c) /\ ~Deleting(i, c) /\ ~AtRest(i, c)
BY DEF WorkStages, Keeping, Active, Deleting, AtRest

LEMMA ValidateHandled ==
    ASSUME TypeOK, NEW i \in Instances, NEW c \in Copies, Validate(i, c)
    PROVE  Handled(i, {c})
<1>1. job[i][c].at \in WorkStages
  BY DEF Validate, WorkStages
<1>2. PICK st, e : Moved(i, {c}, st, e)
  BY Effects DEF Validate, Stages
<1>3. NoneToPending
  BY Effects DEF Validate, NoneToPending, StatusSet, Status, Copies
<1>4. OnlyDeletes(i, {c}) /\ life' = life
  BY MessageEffects DEF Validate, Copies
<1> QED
  BY <1>1, <1>2, <1>3, <1>4, WorkFacts, WorkHandled

LEMMA FailUnfitHandled ==
    ASSUME TypeOK, NEW i \in Instances, NEW c \in Copies, FailUnfit(i, c)
    PROVE  Handled(i, {c})
<1>1. job[i][c].at \in WorkStages
  BY DEF FailUnfit, WorkStages
<1>2. PICK st, e : Moved(i, {c}, st, e)
  BY Effects DEF FailUnfit, Stages
<1>3. NoneToPending
  BY Effects DEF FailUnfit, NoneToPending, StatusSet, Status, Copies
<1>4. OnlyDeletes(i, {c}) /\ life' = life
  BY MessageEffects DEF FailUnfit, Copies
<1> QED
  BY <1>1, <1>2, <1>3, <1>4, WorkFacts, WorkHandled

LEMMA EstimateGasHandled ==
    ASSUME TypeOK, NEW i \in Instances, NEW c \in Copies, EstimateGas(i, c)
    PROVE  Handled(i, {c})
<1>1. job[i][c].at \in WorkStages
  BY DEF EstimateGas, WorkStages
<1>2. PICK st, e : Moved(i, {c}, st, e)
  BY Effects DEF EstimateGas, Stages
<1>3. NoneToPending
  BY Effects DEF EstimateGas, NoneToPending, StatusSet, Status, Copies
<1>4. OnlyDeletes(i, {c}) /\ life' = life
  BY MessageEffects DEF EstimateGas, Copies
<1> QED
  BY <1>1, <1>2, <1>3, <1>4, WorkFacts, WorkHandled

LEMMA AllocateNonceHandled ==
    ASSUME TypeOK, NEW i \in Instances, NEW c \in Copies, AllocateNonce(i, c)
    PROVE  Handled(i, {c})
<1>1. job[i][c].at \in WorkStages
  BY DEF AllocateNonce, WorkStages
<1>2. PICK st, e : Moved(i, {c}, st, e)
  BY Effects DEF AllocateNonce, Stages
<1>3. NoneToPending
  BY Effects DEF AllocateNonce, NoneToPending, StatusSet, Status, Copies
<1>4. OnlyDeletes(i, {c}) /\ life' = life
  BY MessageEffects DEF AllocateNonce, Copies
<1> QED
  BY <1>1, <1>2, <1>3, <1>4, WorkFacts, WorkHandled

LEMMA BeginSigningHandled ==
    ASSUME TypeOK, NEW i \in Instances, NEW c \in Copies, BeginSigning(i, c)
    PROVE  Handled(i, {c})
<1>1. job[i][c].at \in WorkStages
  BY DEF BeginSigning, WorkStages
<1>2. PICK st, e : Moved(i, {c}, st, e)
  BY Effects, ErrorsAssumption DEF BeginSigning, Stages
<1>3. NoneToPending
  BY Effects DEF BeginSigning, NoneToPending, StatusSet, Status, Copies
<1>4. OnlyDeletes(i, {c}) /\ life' = life
  BY MessageEffects DEF BeginSigning, Copies
<1> QED
  BY <1>1, <1>2, <1>3, <1>4, WorkFacts, WorkHandled

LEMMA SignHandled ==
    ASSUME TypeOK, NEW i \in Instances, NEW c \in Copies, Sign(i, c)
    PROVE  Handled(i, {c})
<1>1. job[i][c].at \in WorkStages
  BY DEF Sign, WorkStages
<1>2. PICK st, e : Moved(i, {c}, st, e)
  BY Effects, ErrorsAssumption DEF Sign, Stages
<1>3. NoneToPending
  BY Effects DEF Sign, NoneToPending, StatusSet, Status, Copies
<1>4. OnlyDeletes(i, {c}) /\ life' = life
  BY MessageEffects DEF Sign, Copies
<1> QED
  BY <1>1, <1>2, <1>3, <1>4, WorkFacts, WorkHandled

LEMMA MarkSignedHandled ==
    ASSUME TypeOK, NEW i \in Instances, NEW c \in Copies, MarkSigned(i, c)
    PROVE  Handled(i, {c})
<1>1. job[i][c].at \in WorkStages
  BY DEF MarkSigned, WorkStages
<1>2. PICK st, e : Moved(i, {c}, st, e)
  BY Effects, ErrorsAssumption DEF MarkSigned, Stages
<1>3. NoneToPending
  BY Effects DEF MarkSigned, NoneToPending, StatusSet, Status, Copies
<1>4. OnlyDeletes(i, {c}) /\ life' = life
  BY MessageEffects DEF MarkSigned, Copies
<1> QED
  BY <1>1, <1>2, <1>3, <1>4, WorkFacts, WorkHandled

LEMMA SendToRequestQueueHandled ==
    ASSUME TypeOK, NEW i \in Instances, NEW c \in Copies, SendToRequestQueue(i, c)
    PROVE  Handled(i, {c})
<1>1. job[i][c].at \in WorkStages
  BY DEF SendToRequestQueue, WorkStages
<1>2. PICK st, e : Moved(i, {c}, st, e)
  BY Effects DEF SendToRequestQueue, Stages
<1>3. NoneToPending
  BY Effects DEF SendToRequestQueue, NoneToPending, StatusSet, Status, Copies
<1>4. OnlyDeletes(i, {c}) /\ life' = life
  BY MessageEffects DEF SendToRequestQueue, Copies
<1> QED
  BY <1>1, <1>2, <1>3, <1>4, WorkFacts, WorkHandled

LEMMA PublishHandled ==
    ASSUME TypeOK, NEW i \in Instances, NEW c \in Copies, Publish(i, c)
    PROVE  Handled(i, {c})
<1>1. job[i][c].at \in {"publish", "null"} /\ life' = life
  BY DEF Publish
<1>2. PICK st \in {"delete", "caught"}, e \in Errors \cup {"none"} : Moved(i, {c}, st, e)
  BY Effects, ErrorsAssumption DEF Publish, Stages
<1>3. OnlyDeletes(i, {c}) /\ NoneToPending
  BY MessageEffects DEF Publish, NoneToPending
<1>4. ~KeepsAt(st, e) /\ ~AtRest(i, c)
  BY <1>1 DEF KeepsAt, AtRest
<1> QED
  BY <1>1, <1>2, <1>3, <1>4, EndHandled

LEMMA DeleteProcessedHandled ==
    ASSUME TypeOK, NEW i \in Instances, NEW c \in Copies, DeleteProcessed(i, c)
    PROVE  Handled(i, {c})
<1>1. job[i][c].at = "delete" /\ life' = life /\ Deleting(i, c)
  BY DEF DeleteProcessed, Deleting
<1>2. PICK st \in {"idle", "caught"}, e \in Errors \cup {"none"} : Moved(i, {c}, st, e)
  BY Effects, ErrorsAssumption DEF DeleteProcessed, Stages
<1>3. OnlyDeletes(i, {c}) /\ NoneToPending
  BY <1>1, MessageEffects DEF DeleteProcessed, NoneToPending
<1>4. ~KeepsAt(st, e) /\ ~AtRest(i, c)
  BY <1>1 DEF KeepsAt, AtRest
<1> QED
  BY <1>1, <1>2, <1>3, <1>4, EndHandled

\* An error the worker takes for recoverable makes the row PENDING, and the job
\* that caught it does not delete its message.
LEMMA HandleSigningErrorHandled ==
    ASSUME TypeOK, NEW i \in Instances, NEW c \in Copies, HandleSigningError(i, c)
    PROVE  Handled(i, {c})
<1>1. /\ job[i][c].at = "failed" /\ life' = life /\ c[1] \in Requests
      /\ Keeping(i, c) /\ ~Deleting(i, c) /\ ~AtRest(i, c)
  BY WorkFacts DEF HandleSigningError, WorkStages, Copies
<1>2. OnlyDeletes(i, {c})
  BY MessageEffects DEF HandleSigningError
<1>3. PICK e : e = job[i][c].err
  OBVIOUS
<1>4. StatusAfterError(e) \in Status
  BY DEF StatusAfterError, Status
<1>5. \/ /\ StatusSet({c[1]}, StatusAfterError(e))
         /\ StatusAfterError(e) = "PENDING"
         /\ Moved(i, {c}, "caught", e) /\ IsRecoverableError(e)
      \/ NoneToPending /\ \E st, d : Moved(i, {c}, st, d)
  <2>1. CASE /\ SetStatus({c[1]}, StatusAfterError(e))
             /\ IF IsNetworkError(e) \/ IsRecoverableError(e)
                THEN Raise(i, {c}, "caught", e)
                ELSE Move(i, {c}, "null")
    <3>1. StatusSet({c[1]}, StatusAfterError(e))
      BY <1>4, <2>1, Effects
    <3>2. IsNetworkError(e) \/ IsRecoverableError(e) => e \in Errors
      BY DEF IsNetworkError, IsRecoverableError, Errors
    <3>3. CASE StatusAfterError(e) = "PENDING"
      <4>1. IsRecoverableError(e)
        BY <3>3 DEF StatusAfterError
      <4>2. Moved(i, {c}, "caught", e)
        BY <2>1, <3>2, <4>1, Effects DEF Stages
      <4> QED
        BY <3>1, <3>3, <4>1, <4>2
    <3>4. CASE StatusAfterError(e) # "PENDING"
      <4>1. NoneToPending
        BY <3>1, <3>4 DEF NoneToPending, StatusSet
      <4>2. \E st, d : Moved(i, {c}, st, d)
        BY <2>1, <3>2, Effects DEF Stages
      <4> QED
        BY <4>1, <4>2
    <3> QED
      BY <3>3, <3>4
  <2>2. CASE (\E d \in InfraErrors : Raise(i, {c}, "caught", d)) /\ UNCHANGED status
    BY <2>2, Effects, ErrorsAssumption DEF NoneToPending, Stages
  <2> QED
    BY <1>3, <2>1, <2>2 DEF HandleSigningError
<1>6. CASE NoneToPending
  BY <1>1, <1>2, <1>5, <1>6, WorkHandled DEF NoneToPending, StatusSet
<1>7. CASE /\ StatusSet({c[1]}, StatusAfterError(e))
           /\ Moved(i, {c}, "caught", e) /\ IsRecoverableError(e)
  <2>1. /\ AtRest(i, c)' /\ ~Keeping(i, c)'
    BY <1>7 DEF Moved, AtRest, Keeping, Active
  <2>2. \A r \in Requests : status'[r] = "PENDING" => status[r] = "PENDING" \/ r = c[1]
    BY <1>7 DEF StatusSet
  <2>3. \A j \in Instances, d \in Copies : (j = i /\ d \in {c}) \/ job'[j][d] = job[j][d]
    BY <1>7 DEF Moved
  <2> QED
    BY <1>1, <1>2, <2>1, <2>2, <2>3 DEF Handled, OnlyDeletes
<1> QED
  BY <1>5, <1>6, <1>7

LEMMA ReturnToPendingHandled ==
    ASSUME TypeOK, NEW i \in Instances, NEW c \in Copies, ReturnToPending(i, c)
    PROVE  Handled(i, {c})
<1>1. /\ job[i][c].at = "requeued" /\ life' = life
      /\ Keeping(i, c) /\ ~Deleting(i, c) /\ ~AtRest(i, c)
  BY WorkFacts DEF ReturnToPending, WorkStages
<1>2. OnlyDeletes(i, {c})
  BY MessageEffects DEF ReturnToPending
<1>3. Moved(i, {c}, "idle", "none")
  BY Effects DEF ReturnToPending, Stages
<1>4. \A r \in Requests : status'[r] = "PENDING" => status[r] = "PENDING" \/ r = c[1]
  BY Effects DEF ReturnToPending, StatusSet, Status
<1>5. AtRest(i, c)' /\ ~Keeping(i, c)'
  BY <1>3 DEF Moved, AtRest, Keeping, Active
<1>6. \A j \in Instances, d \in Copies : (j = i /\ d \in {c}) \/ job'[j][d] = job[j][d]
  BY <1>3 DEF Moved
<1> QED
  BY <1>1, <1>2, <1>4, <1>5, <1>6 DEF Handled, OnlyDeletes

LEMMA RecoverMemberHandled ==
    ASSUME TypeOK, NEW i \in Instances, NEW c \in Copies, RecoverMember(i, c)
    PROVE  Handled(i, {c})
<1>1. job[i][c].at = "bRecover" /\ life' = life /\ ~AtRest(i, c) /\ ~Deleting(i, c)
  BY DEF RecoverMember, AtRest, Deleting
<1>2. OnlyDeletes(i, {c})
  BY MessageEffects DEF RecoverMember
<1>3. NoneToPending
  BY Effects DEF RecoverMember, RecoverOnError, NoneToPending, StatusSet, Status
<1>4. CASE IsRequeuedError(job[i][c].err)
  <2>1. Moved(i, {c}, "requeue", "none")
    BY <1>4, Effects DEF RecoverMember, RecoverOnError, Stages
  <2>2. Keeping(i, c)
    BY <1>1, <1>4 DEF Keeping, Active
  <2> QED
    BY <1>1, <1>2, <1>3, <2>1, <2>2, WorkHandled
<1>5. CASE ~IsRequeuedError(job[i][c].err)
  <2>1. Moved(i, {c}, "idle", "none")
    BY <1>5, Effects DEF RecoverMember, RecoverOnError, Stages
  <2>2. ~KeepsAt("idle", "none")
    BY DEF KeepsAt
  <2> QED
    BY <1>1, <1>2, <1>3, <2>1, <2>2, EndHandled
<1> QED
  BY <1>4, <1>5

LEMMA HandleProcessingErrorHandled ==
    ASSUME TypeOK, NoneUnexpected, NEW i \in Instances, NEW c \in Copies,
           HandleProcessingError(i, c)
    PROVE  Handled(i, {c})
<1>1. /\ job[i][c].at = "caught" /\ life' = life
      /\ ~IsRequeuedError(job[i][c].err)
  BY DEF HandleProcessingError, NoneUnexpected, Unexpected
<1>2. ~IsRecoverableError(job[i][c].err) => Deleting(i, c)
  BY <1>1 DEF Deleting
<1>3. OnlyDeletes(i, {c})
  <2>1. CASE msg' = msg
    BY <2>1, MessageEffects
  <2>2. CASE ~IsRecoverableError(job[i][c].err) /\ DeleteMessages(i, {c})
    BY <1>2, <2>2, MessageEffects
  <2> QED
    BY <2>1, <2>2 DEF HandleProcessingError
<1>4. NoneToPending
  BY Effects DEF HandleProcessingError, RecoverOnError, NoneToPending, StatusSet, Status
<1>5. \A j \in Instances, d \in Copies :
         \/ j = i /\ d \in {c}
         \/ job'[j][d].at = job[j][d].at /\ job'[j][d].err = job[j][d].err
         \/ job'[j][d].at = "idle"
  BY <1>1, Effects, AbandonEffect
     DEF HandleProcessingError, RecoverOnError, Moved, Stages, Idle
<1>6. job'[i][c].at = "idle"
  <2>1. CASE Abandon(i, c)
    BY <2>1, Effects DEF Abandon, Idle
  <2>2. CASE ~Abandon(i, c)
    BY <1>1, <2>2, Effects DEF HandleProcessingError, RecoverOnError, Moved, Stages
  <2> QED
    BY <2>1, <2>2
<1>7. ~Keeping(i, c)' /\ AtRest(i, c)'
  BY <1>6 DEF Keeping, Active, AtRest
<1> QED
  BY <1>1, <1>3, <1>4, <1>5, <1>7 DEF Handled, OnlyDeletes, NoneToPending

\* The jobs of a batch at one stage
LEMMA AtFacts ==
    \A i \in Instances : \A st :
       /\ At(i, st) \in SUBSET Copies
       /\ st \in WorkStages =>
            \A c \in At(i, st) : Keeping(i, c) /\ ~Deleting(i, c) /\ ~AtRest(i, c)
       /\ st \in {"bSkip", "bDelete", "bPurge"} =>
            \A c \in At(i, st) : Deleting(i, c) /\ ~AtRest(i, c)
       /\ st \in {"bSend", "bBroken", "bRefused", "bAbort", "bAbortUnbatched"} =>
            \A c \in At(i, st) : ~AtRest(i, c)
<1> SUFFICES ASSUME NEW i \in Instances, NEW st
             PROVE  /\ At(i, st) \in SUBSET Copies
                    /\ st \in WorkStages =>
                         \A c \in At(i, st) : Keeping(i, c) /\ ~Deleting(i, c) /\ ~AtRest(i, c)
                    /\ st \in {"bSkip", "bDelete", "bPurge"} =>
                         \A c \in At(i, st) : Deleting(i, c) /\ ~AtRest(i, c)
                    /\ st \in {"bSend", "bBroken", "bRefused", "bAbort", "bAbortUnbatched"} =>
                         \A c \in At(i, st) : ~AtRest(i, c)
  OBVIOUS
<1>1. \A c \in At(i, st) : c \in Copies /\ job[i][c].at = st
  BY DEF At
<1>2. st \in WorkStages =>
         \A c \in At(i, st) : Keeping(i, c) /\ ~Deleting(i, c) /\ ~AtRest(i, c)
  BY <1>1, WorkFacts
<1> QED
  BY <1>1, <1>2 DEF Deleting, AtRest

LEMMA SeparateHandled ==
    ASSUME TypeOK, NEW i \in Instances, SeparateByTryCount(i)
    PROVE  \E C \in SUBSET Copies : Handled(i, C)
<1> DEFINE C == {c \in Copies : job[i][c].at = "valid"}
<1>1. life' = life /\ msg' = msg /\ status' = status
  BY DEF SeparateByTryCount
<1>2. \A c \in C : Keeping(i, c) /\ ~Deleting(i, c) /\ ~AtRest(i, c)
  BY WorkFacts DEF WorkStages
<1>3. \A j \in Instances, d \in Copies : (j = i /\ d \in C) \/ job'[j][d] = job[j][d]
  <2> DEFINE row == [c \in Copies |->
                       IF job[i][c].at # "valid" THEN job[i][c]
                       ELSE [Idle EXCEPT !.at = IF tried[c[1]] THEN "single" ELSE "fresh"]]
  <2>1. CASE job' = [job EXCEPT ![i] = row]
    <3>1. \A d \in Copies : d \in C \/ row[d] = job[i][d]
      OBVIOUS
    <3> HIDE DEF row
    <3> QED
      BY <2>1, <3>1, Effects
  <2>2. CASE Moved(i, At(i, "valid"), "idle", "none")
    BY <2>2 DEF Moved, At
  <2> QED
    BY <2>1, <2>2, Effects DEF SeparateByTryCount, Stages
<1>4. OnlyDeletes(i, C)
  BY <1>1, MessageEffects
<1> QED
  BY <1>1, <1>2, <1>3, <1>4 DEF Handled, OnlyDeletes, AtRest

LEMMA GroupingHandled ==
    ASSUME TypeOK, NEW i \in Instances, DecideBatching(i) \/ NextGroup(i)
    PROVE  \E C \in SUBSET Copies : Handled(i, C)
<1>1. PICK C \in SUBSET Copies, st \in WorkStages :
         /\ Moved(i, C, st, "none")
         /\ C \subseteq At(i, "fresh") \/ C \subseteq At(i, "grouped")
  <2>1. CASE DecideBatching(i)
    BY <2>1, Effects, AtFacts DEF DecideBatching, Stages, WorkStages
  <2>2. CASE NextGroup(i)
    <3>1. PICK t \in Tokens : \E st \in {"bCreate", "single"} :
                                 Move(i, OfToken(At(i, "grouped"), t), st)
      BY <2>2 DEF NextGroup
    <3>2. OfToken(At(i, "grouped"), t) \subseteq At(i, "grouped")
      BY DEF OfToken
    <3> QED
      BY <3>1, <3>2, Effects, AtFacts DEF Stages, WorkStages
  <2> QED
    BY <2>1, <2>2
<1>2. life' = life /\ OnlyDeletes(i, C) /\ NoneToPending
  BY MessageEffects DEF DecideBatching, NextGroup, NoneToPending
<1>3. \A c \in C : Keeping(i, c) /\ ~Deleting(i, c) /\ ~AtRest(i, c)
  BY <1>1, AtFacts DEF WorkStages
<1> QED
  BY <1>1, <1>2, <1>3, WorkHandled

LEMMA CreateBatchHandled ==
    ASSUME TypeOK, NEW i \in Instances, CreateBatch(i)
    PROVE  \E C \in SUBSET Copies : Handled(i, C)
<1> DEFINE C == At(i, "bCreate")
<1>1. life' = life /\ OnlyDeletes(i, C)
  BY MessageEffects DEF CreateBatch
<1>2. NoneToPending
  BY Effects DEF CreateBatch, NoneToPending, StatusSet, Status
<1>3. PICK st, e : Moved(i, C, st, e)
  BY Effects, ErrorsAssumption DEF CreateBatch, Group, Stages
<1>4. C \in SUBSET Copies /\ \A c \in C : Keeping(i, c) /\ ~Deleting(i, c) /\ ~AtRest(i, c)
  BY AtFacts DEF WorkStages
<1> QED
  BY <1>1, <1>2, <1>3, <1>4, WorkHandled

LEMMA SignBatchHandled ==
    ASSUME TypeOK, NEW i \in Instances, SignBatch(i)
    PROVE  \E C \in SUBSET Copies : Handled(i, C)
<1> DEFINE C == At(i, "bSign")
<1>1. life' = life /\ OnlyDeletes(i, C) /\ NoneToPending
  BY MessageEffects DEF SignBatch, NoneToPending
<1>2. PICK st, e : Moved(i, C, st, e)
  BY Effects, ErrorsAssumption DEF SignBatch, Stages
<1>3. C \in SUBSET Copies /\ \A c \in C : Keeping(i, c) /\ ~Deleting(i, c) /\ ~AtRest(i, c)
  BY AtFacts DEF WorkStages
<1> QED
  BY <1>1, <1>2, <1>3, WorkHandled

LEMMA MarkBatchSignedHandled ==
    ASSUME TypeOK, NEW i \in Instances, MarkBatchSigned(i)
    PROVE  \E C \in SUBSET Copies : Handled(i, C)
<1> DEFINE C == At(i, "bSigned")
<1>1. life' = life /\ OnlyDeletes(i, C)
  BY MessageEffects DEF MarkBatchSigned
<1>2. NoneToPending
  BY Effects DEF MarkBatchSigned, NoneToPending, StatusSet, Status
<1>3. PICK st, e : Moved(i, C, st, e)
  BY Effects, ErrorsAssumption DEF MarkBatchSigned, Stages
<1>4. C \in SUBSET Copies /\ \A c \in C : Keeping(i, c) /\ ~Deleting(i, c) /\ ~AtRest(i, c)
  BY AtFacts DEF WorkStages
<1> QED
  BY <1>1, <1>2, <1>3, <1>4, WorkHandled

\* Deletions, all of them or a part
LEMMA DeleteAllEffect ==
    ASSUME TypeOK, NEW i \in Instances, NEW C, \A c \in C : Deleting(i, c),
           DeleteMessages(i, C) \/ \E D \in SUBSET C : DeleteMessages(i, D)
    PROVE  OnlyDeletes(i, C)
BY MessageEffects

LEMMA DeletingBatchHandled ==
    ASSUME TypeOK, NEW i \in Instances, SkipBatch(i) \/ DeleteBatch(i) \/ PurgeBatch(i)
    PROVE  \E C \in SUBSET Copies : Handled(i, C)
<1>1. PICK s \in {"bSkip", "bDelete", "bPurge"}, st \in {"idle", "bRefused", "bSend", "bBroken"},
           e \in (Errors \ {"funds"}) \cup {"none"} :
         /\ Moved(i, At(i, s), st, e)
         /\ \/ DeleteMessages(i, At(i, s))
            \/ \E D \in SUBSET At(i, s) : DeleteMessages(i, D)
  <2>1. CASE SkipBatch(i)
    BY <2>1, Effects, ErrorsAssumption DEF SkipBatch, DeleteAll, Stages
  <2>2. CASE DeleteBatch(i)
    BY <2>2, Effects, ErrorsAssumption DEF DeleteBatch, DeleteAll, Stages
  <2>3. CASE PurgeBatch(i)
    BY <2>3, Effects, ErrorsAssumption DEF PurgeBatch, DeleteAll, Stages
  <2> QED
    BY <2>1, <2>2, <2>3
<1>2. /\ At(i, s) \in SUBSET Copies
      /\ \A c \in At(i, s) : Deleting(i, c) /\ ~AtRest(i, c)
  BY AtFacts
<1>3. OnlyDeletes(i, At(i, s))
  BY <1>1, <1>2, DeleteAllEffect
<1>4. life' = life /\ NoneToPending
  BY DEF SkipBatch, DeleteBatch, PurgeBatch, NoneToPending
<1>5. ~KeepsAt(st, e)
  BY DEF KeepsAt, IsRequeuedError
<1> QED
  BY <1>1, <1>2, <1>3, <1>4, <1>5, EndHandled

LEMMA SendBatchHandled ==
    ASSUME TypeOK, NEW i \in Instances, SendBatch(i)
    PROVE  \E C \in SUBSET Copies : Handled(i, C)
<1> DEFINE C == At(i, "bSend")
<1>1. life' = life /\ OnlyDeletes(i, C) /\ NoneToPending
  BY MessageEffects DEF SendBatch, NoneToPending
<1>2. PICK st \in {"idle", "bBroken"}, e \in (Errors \ {"funds"}) \cup {"none"} :
         Moved(i, C, st, e)
  BY Effects, ErrorsAssumption DEF SendBatch, Stages
<1>3. ~KeepsAt(st, e)
  BY DEF KeepsAt, IsRequeuedError
<1>4. C \in SUBSET Copies /\ \A c \in C : ~AtRest(i, c)
  BY AtFacts
<1> QED
  BY <1>1, <1>2, <1>3, <1>4, EndHandled

LEMMA HandleBatchErrorHandled ==
    ASSUME TypeOK, NoneUnexpected, NEW i \in Instances, HandleBatchError(i)
    PROVE  \E C \in SUBSET Copies : Handled(i, C)
<1>1. PICK s \in {"bBroken", "bRefused"}, e \in Errors :
         LET C == {c \in At(i, s) : job[i][c].err = e}
         IN  /\ \/ IsRecoverableError(e) /\ Raise(i, C, "bRecover", e)
                \/ \E st \in {"bAbort", "bAbortUnbatched", "idle"} : Move(i, C, st)
             /\ UNCHANGED <<status, owner, tried, msg, life, published, nullSent>>
  BY DEF HandleBatchError
<1> DEFINE C == {c \in At(i, s) : job[i][c].err = e}
<1>2. /\ C \in SUBSET Copies
      /\ \A c \in C : ~AtRest(i, c) /\ ~Deleting(i, c) /\ job[i][c].at = s /\ job[i][c].err = e
  BY DEF At, AtRest, Deleting
<1>3. life' = life /\ OnlyDeletes(i, C) /\ NoneToPending
  BY <1>1, MessageEffects DEF NoneToPending
<1>4. CASE Raise(i, C, "bRecover", e) /\ IsRequeuedError(e)
  <2>1. Moved(i, C, "bRecover", e)
    BY <1>4, Effects DEF Stages
  <2>2. \A c \in C : Keeping(i, c)
    BY <1>2, <1>4 DEF Keeping, Active, NoneUnexpected, Unexpected
  <2> QED
    BY <1>2, <1>3, <2>1, <2>2, WorkHandled
<1>5. CASE \/ Raise(i, C, "bRecover", e) /\ ~IsRequeuedError(e)
           \/ \E st \in {"bAbort", "bAbortUnbatched", "idle"} : Move(i, C, st)
  <2>1. \/ Moved(i, C, "bRecover", e) /\ ~IsRequeuedError(e)
        \/ \E st \in {"bAbort", "bAbortUnbatched", "idle"} : Moved(i, C, st, "none")
    BY <1>5, Effects DEF Stages
  <2>2. PICK st, d : Moved(i, C, st, d) /\ ~KeepsAt(st, d)
    <3> HIDE DEF C
    <3> QED
      BY <2>1 DEF KeepsAt
  <2> QED
    BY <1>2, <1>3, <2>2, EndHandled
<1> QED
  BY <1>1, <1>4, <1>5

LEMMA AbortHandled ==
    ASSUME TypeOK, NEW i \in Instances, AbortBatch(i) \/ AbortUnbatched(i)
    PROVE  \E C \in SUBSET Copies : Handled(i, C)
<1>1. PICK s \in {"bAbort", "bAbortUnbatched"}, st \in {"bPurge", "idle"} :
         Moved(i, At(i, s), st, "none")
  BY Effects DEF AbortBatch, AbortUnbatched, Stages
<1>2. NoneToPending
  BY Effects DEF AbortBatch, AbortUnbatched, NoneToPending, StatusSet, Status
<1>3. life' = life /\ OnlyDeletes(i, At(i, s))
  BY MessageEffects DEF AbortBatch, AbortUnbatched
<1>4. /\ At(i, s) \in SUBSET Copies /\ \A c \in At(i, s) : ~AtRest(i, c)
      /\ ~KeepsAt(st, "none")
  BY AtFacts DEF KeepsAt
<1> QED
  BY <1>1, <1>2, <1>3, <1>4, EndHandled

\* One receiver takes its batch only from the queue
LEMMA ReceiveKeeps ==
    ASSUME TypeOK, KeepInv, NEW i \in Instances, Receive(i)
    PROVE  Keeps
<1>1. PICK C \in SUBSET At(i, "idle") :
         /\ \A c \in C : msg[c] = "visible"
         /\ msg' = [c \in Copies |-> IF c \in C THEN i ELSE msg[c]]
         /\ Moved(i, C, "received", "none")
  BY Effects DEF Receive, Stages
<1>2. \A c \in Copies : OnQueue(c) \/ c \in C => OnQueue(c)'
  BY <1>1 DEF OnQueue
<1>3. \A j \in Instances, d \in Copies :
         /\ Keeping(j, d)' => Keeping(j, d) \/ (j = i /\ d \in C)
         /\ AtRest(j, d) => AtRest(j, d)'
  BY <1>1 DEF Moved, Keeping, Active, AtRest, IsRequeuedError, IsRecoverableError
<1>4. \A j \in Instances, d \in Copies :
         job'[j][d].at # "idle" => job[j][d].at # "idle" \/ j = i
  BY <1>1 DEF Moved
<1>5. life' = life /\ status' = status /\ life[i] = "up"
  BY DEF Receive
<1>6. KeepInv'
  BY <1>2, <1>3, <1>4, <1>5 DEF KeepInv
<1>7. \A r \in Requests : Waits(r) => Waits(r)'
  BY <1>2, <1>3 DEF Waits
<1> QED
  BY <1>5, <1>6, <1>7 DEF Keeps

\* Nothing but the queue, or the end of jobs
LEMMA FewerKeeps ==
    ASSUME KeepInv, NoneToPending,
           \A j \in Instances, d \in Copies : job'[j][d] = job[j][d] \/ job'[j][d].at = "idle",
           \A c \in Copies : OnQueue(c) => OnQueue(c)',
           \A j \in Instances, d \in Copies : job'[j][d].at # "idle" => life'[j] = "up",
           \A i, j \in Instances : life'[i] = "up" /\ life'[j] = "up" => i = j
    PROVE  Keeps
<1>1. \A j \in Instances, d \in Copies :
         (Keeping(j, d)' => Keeping(j, d)) /\ (AtRest(j, d) => AtRest(j, d)')
  BY DEF Keeping, Active, AtRest, IsRequeuedError, IsRecoverableError
<1>2. KeepInv'
  BY <1>1 DEF KeepInv
<1>3. \A r \in Requests : Waits(r) => Waits(r)'
  BY <1>1 DEF Waits
<1> QED
  BY <1>2, <1>3 DEF Keeps, NoneToPending

\* An instance is started only when none is up
LEMMA NoneUp ==
    ASSUME MaxLive <= 1, KeepInv, NEW i \in Instances, Start(i)
    PROVE  \A j \in Instances : life[j] # "up"
<1> DEFINE Up == {j \in Instances : life[j] = "up"}
<1>1. SUFFICES ASSUME NEW j \in Instances, life[j] = "up"
               PROVE  FALSE
  OBVIOUS
<1>2. Up = {j}
  BY <1>1 DEF KeepInv
<1>3. Cardinality(Up) = 1
  BY <1>2, FS_Singleton
<1>4. Cardinality(Up) < MaxLive
  BY DEF Start
<1> QED
  BY <1>3, <1>4, BoundsAssumption

LEMMA EnvironmentKeeps ==
    ASSUME MaxLive <= 1, TypeOK, KeepInv,
           \/ \E c \in Copies : Redeliver(c)
           \/ \E i \in Instances : Start(i) \/ Crash(i)
           \/ UNCHANGED vars
    PROVE  Keeps
<1>1. CASE \E c \in Copies : Redeliver(c)
  <2>1. \A c \in Copies : OnQueue(c) => OnQueue(c)'
    BY <1>1 DEF Redeliver, OnQueue, TypeOK
  <2> QED
    BY <1>1, <2>1, FewerKeeps DEF Redeliver, KeepInv, NoneToPending
<1>2. ASSUME NEW i \in Instances, Start(i)
      PROVE  Keeps
  <2>1. \A j \in Instances : life[j] # "up"
    BY <1>2, NoneUp
  <2>2. \A j \in Instances : life'[j] = "up" => j = i
    BY <1>2, <2>1 DEF Start, TypeOK
  <2>3. \A j \in Instances, d \in Copies : job[j][d].at = "idle"
    BY <2>1 DEF KeepInv
  <2>4. job' = job /\ msg' = msg /\ status' = status
    BY <1>2 DEF Start
  <2>5. \A c \in Copies : OnQueue(c) => OnQueue(c)'
    BY <2>4 DEF OnQueue
  <2> QED
    BY <2>2, <2>3, <2>4, <2>5, FewerKeeps DEF NoneToPending
<1>3. ASSUME NEW i \in Instances, Crash(i)
      PROVE  Keeps
  <2>1. \A j \in Instances, d \in Copies :
           job'[j][d] = (IF j = i THEN Idle ELSE job[j][d])
    BY <1>3 DEF Crash, TypeOK
  <2>2. \A j \in Instances : life'[j] = IF j = i THEN "down" ELSE life[j]
    BY <1>3 DEF Crash, TypeOK
  <2>3. \A c \in Copies : OnQueue(c) => OnQueue(c)'
    BY <1>3 DEF Crash, OnQueue
  <2>4. status' = status
    BY <1>3 DEF Crash
  <2>5. Idle.at = "idle"
    BY DEF Idle
  <2> QED
    BY <2>1, <2>2, <2>3, <2>4, <2>5, FewerKeeps DEF KeepInv, NoneToPending
<1>4. CASE UNCHANGED vars
  <2>1. /\ status' = status /\ job' = job /\ life' = life /\ msg' = msg
    BY <1>4 DEF vars
  <2>2. \A c \in Copies : OnQueue(c) => OnQueue(c)'
    BY <2>1 DEF OnQueue
  <2> QED
    BY <2>1, <2>2, FewerKeeps DEF KeepInv, NoneToPending
<1> QED
  BY <1>1, <1>2, <1>3, <1>4

LEMMA WorkerHandled ==
    ASSUME TypeOK, NoneUnexpected, NEW i \in Instances, Worker(i), ~Receive(i)
    PROVE  \E C \in SUBSET Copies : Handled(i, C)
<1>1. ASSUME NEW c \in Copies, MessageStep(i, c)
      PROVE  Handled(i, {c})
  BY <1>1, ClaimHandled, DiscardHandled, ValidateHandled, FailUnfitHandled,
     EstimateGasHandled, AllocateNonceHandled, BeginSigningHandled, SignHandled,
     MarkSignedHandled, HandleSigningErrorHandled, PublishHandled,
     DeleteProcessedHandled, HandleProcessingErrorHandled, SendToRequestQueueHandled,
     ReturnToPendingHandled, RecoverMemberHandled
     DEF MessageStep
<1>2. CASE BatchStep(i)
  BY <1>2, SeparateHandled, GroupingHandled, CreateBatchHandled, DeletingBatchHandled,
     SignBatchHandled, MarkBatchSignedHandled, SendBatchHandled,
     HandleBatchErrorHandled, AbortHandled
     DEF BatchStep
<1> QED
  BY <1>1, <1>2 DEF Worker

LEMMA NextKeeps ==
    ASSUME MaxLive <= 1, TypeOK, NoneUnexpected, KeepInv, [Next]_vars
    PROVE  Keeps
<1>1. ASSUME NEW i \in Instances, Worker(i)
      PROVE  Keeps
  BY <1>1, ReceiveKeeps, WorkerHandled, HandledKeeps
<1>2. CASE ~\E i \in Instances : Worker(i)
  BY <1>2, EnvironmentKeeps DEF Next
<1> QED
  BY <1>1, <1>2

LEMMA InitKeeps == Init => KeepInv /\ PendingWaits
<1> SUFFICES ASSUME Init PROVE KeepInv /\ PendingWaits
  OBVIOUS
<1>1. \A i \in Instances, c \in Copies : job[i][c].at = "idle"
  BY DEF Init, Idle
<1>2. \A i \in Instances : life[i] # "up"
  BY DEF Init
<1>3. KeepInv
  BY <1>1, <1>2 DEF KeepInv, Keeping, Active
<1>4. ASSUME NEW r \in Requests
      PROVE  Waits(r)
  <2>1. <<r, 1>> \in Copies /\ msg[<<r, 1>>] = "visible"
    BY BoundsAssumption DEF Copies, Init
  <2> QED
    BY <1>1, <2>1 DEF Waits, OnQueue, AtRest
<1> QED
  BY <1>3, <1>4 DEF PendingWaits

\* A request that waits to be processed is never without a message, as long as
\* one instance runs at a time: claims, redeliveries, requeues, failures of every
\* call, crashes and replacements do not lose it.  With two at work it does not
\* hold: the other one finds the row still SIGNING and deletes the message that was
\* requeued before the row says PENDING.
THEOREM PendingIsQueued ==
    ASSUME MaxLive <= 1
    PROVE  Spec => []PendingHasMessage
<1>1. Init => KeepInv /\ PendingWaits
  BY InitKeeps
<1>2. Inv /\ KeepInv /\ PendingWaits /\ [Next]_vars => (KeepInv /\ PendingWaits)'
  BY NextKeeps DEF Inv, Keeps, PendingWaits
<1>3. PendingWaits => PendingHasMessage
  BY DEF PendingWaits, Waits, PendingHasMessage, OnQueue
<1> QED
  BY <1>1, <1>2, <1>3, Invariance, PTL DEF Spec

----------------------------------------------------------------------------
(* One instance at a time: a request has one job, and is paid when SIGNED *)

\* A job whose claim succeeded
Busy(i, c) == job[i][c].at \notin {"idle", "received", "discard"}

\* A job past the claims of its batch
Past(i, c) == job[i][c].at \notin {"idle", "received", "discard", "claimed"}

NoneReceived(i) == \A c \in Copies : job[i][c].at # "received"

\* A job that will send, or has sent, without looking at the row again
Sealed(i, c) == job[i][c].at \in {"publish", "bDelete", "bSend"}

\* No deletion throws in the catch block of processSingleTransactions: either no
\* call fails, or the errors that come there are not the ones it deletes for.
Steady ==
    InfraErrors # {} =>
        /\ \A e \in InfraErrors : IsRecoverableError(e)
        /\ \A e \in SignErrors : IsNetworkError(e) => IsRecoverableError(e)

SoundAt(st, e) ==
    InfraErrors # {} =>
        /\ st = "failed" => (IsNetworkError(e) => IsRecoverableError(e))
        /\ st = "caught" => IsRecoverableError(e)

NoneLate == \A i \in Instances, c \in Copies : ~job[i][c].late

\* While a batch is being claimed nothing of it has gone further
InTurn ==
    \A i \in Instances, c \in Copies :
        Past(i, c) => NoneReceived(i)

OneJob ==
    \A i, j \in Instances, c, d \in Copies :
        Busy(i, c) /\ Busy(j, d) /\ c[1] = d[1] => i = j /\ c = d

TurnInv ==
    /\ NoneLate /\ InTurn /\ OneJob
    /\ \A i \in Instances, c \in Copies : SoundAt(job[i][c].at, job[i][c].err)

SealedSigned ==
    \A i \in Instances, c \in Copies : Sealed(i, c) => status[c[1]] = "SIGNED"

PaidSigned ==
    /\ \A r \in Requests : published[r] # 0 => status[r] = "SIGNED"
    /\ \A i \in Instances, c \in Copies :
          Busy(i, c) /\ job[i][c].at # "delete" => published[c[1]] = 0

\* What a step of instance i with its jobs on C does
Paced(i, C) ==
    /\ \A j \in Instances, d \in Copies :
          \/ j = i /\ d \in C
          \/ job'[j][d] = job[j][d]
          \/ job'[j][d].at = "idle" /\ ~job'[j][d].late
    /\ \A c \in C : /\ c \in Copies /\ Busy(i, c) /\ NoneReceived(i)
                    /\ ~job'[i][c].late /\ job'[i][c].at # "received"
                    /\ SoundAt(job'[i][c].at, job'[i][c].err)
                    /\ Sealed(i, c)' => \/ status'[c[1]] = "SIGNED"
                                        \/ Sealed(i, c) /\ status'[c[1]] = status[c[1]]
    /\ status' = status \/ published' = published
    /\ \A r \in Requests :
          /\ status'[r] # status[r] => \E c \in C : c[1] = r /\ job[i][c].at # "delete"
          /\ published'[r] # published[r] =>
                \E c \in C : c[1] = r /\ job[i][c].at \in {"publish", "bSend"}
    /\ InfraErrors = {} =>
          \A c \in C : job[i][c].at \in {"publish", "bSend", "delete"} =>
                          job'[i][c].at \in {"delete", "idle"}

\* What comes of it for the whole stage
Advances ==
    /\ TurnInv'
    /\ \A i \in Instances, c \in Copies :
          Sealed(i, c)' => \/ status'[c[1]] = "SIGNED"
                           \/ Sealed(i, c) /\ status'[c[1]] = status[c[1]]
    /\ \A r \in Requests :
          published'[r] # published[r] =>
              \E i \in Instances, c \in Copies : c[1] = r /\ Sealed(i, c)
    /\ InfraErrors = {} /\ SealedSigned /\ PaidSigned => PaidSigned'

LEMMA PacedAdvances ==
    ASSUME TurnInv, NEW i \in Instances, NEW C, Paced(i, C)
    PROVE  Advances
<1>1. \A j \in Instances, d \in Copies :
         /\ Busy(j, d)' => Busy(j, d)
         /\ job'[j][d].at = "received" => job[j][d].at = "received" /\ ~(j = i /\ d \in C)
         /\ Past(j, d)' => (Past(j, d) /\ job'[j][d] = job[j][d]) \/ (j = i /\ d \in C)
  BY DEF Paced, Busy, Past, Idle
<1>2. NoneLate'
  BY DEF Paced, TurnInv, NoneLate, Idle
<1>3. OneJob'
  BY <1>1 DEF OneJob, TurnInv
<1>4. InTurn'
  <2> SUFFICES ASSUME NEW j \in Instances, NEW c \in Copies, Past(j, c)',
                      NEW d \in Copies, job'[j][d].at = "received"
               PROVE  FALSE
    BY DEF InTurn, NoneReceived
  <2>1. job[j][d].at = "received"
    BY <1>1
  <2>2. CASE Past(j, c)
    BY <2>1, <2>2 DEF TurnInv, InTurn, NoneReceived
  <2>3. CASE j = i /\ c \in C
    BY <2>1, <2>3 DEF Paced, NoneReceived
  <2> QED
    BY <1>1, <2>2, <2>3
<1>5. \A j \in Instances, d \in Copies : SoundAt(job'[j][d].at, job'[j][d].err)
  BY DEF Paced, TurnInv, Idle, SoundAt
<1>6. \A j \in Instances, d \in Copies :
         Busy(j, d) /\ ~(j = i /\ d \in C) => \A c \in C : c[1] # d[1]
  BY DEF Paced, TurnInv, OneJob
<1>7. \A d \in Copies : d[1] \in Requests
  BY DEF Copies
<1>8. \A j \in Instances, d \in Copies :
         Busy(j, d) /\ ~(j = i /\ d \in C) =>
            status'[d[1]] = status[d[1]] /\ published'[d[1]] = published[d[1]]
  BY <1>6, <1>7 DEF Paced
<1>9. ASSUME NEW j \in Instances, NEW d \in Copies, Sealed(j, d)'
      PROVE  \/ status'[d[1]] = "SIGNED"
             \/ Sealed(j, d) /\ status'[d[1]] = status[d[1]]
  <2>1. CASE j = i /\ d \in C
    BY <1>9, <2>1 DEF Paced
  <2>2. CASE ~(j = i /\ d \in C)
    <3>1. job'[j][d] = job[j][d]
      BY <1>9, <2>2 DEF Paced, Sealed, Idle
    <3>2. Sealed(j, d) /\ Busy(j, d)
      BY <1>9, <3>1 DEF Sealed, Busy
    <3> QED
      BY <1>8, <2>2, <3>2
  <2> QED
    BY <2>1, <2>2
<1>10. \A r \in Requests :
          published'[r] # published[r] =>
              \E j \in Instances, c \in Copies : c[1] = r /\ Sealed(j, c)
  BY DEF Paced, Sealed
<1>11. ASSUME InfraErrors = {}, SealedSigned, PaidSigned
       PROVE  PaidSigned'
  <2>1. ASSUME NEW r \in Requests, published'[r] # 0
        PROVE  status'[r] = "SIGNED"
    <3>1. CASE published'[r] # published[r]
      <4>1. status[r] = "SIGNED"
        BY <1>10, <1>11, <3>1 DEF SealedSigned
      <4>2. status' = status
        BY <3>1 DEF Paced
      <4> QED
        BY <4>1, <4>2
    <3>2. CASE published'[r] = published[r]
      <4>1. status[r] = "SIGNED" /\ published[r] # 0
        BY <1>11, <2>1, <3>2 DEF PaidSigned
      <4>2. ~\E c \in C : c[1] = r /\ job[i][c].at # "delete"
        BY <1>11, <4>1 DEF PaidSigned, Paced
      <4> QED
        BY <4>1, <4>2 DEF Paced
    <3> QED
      BY <3>1, <3>2
  <2>2. ASSUME NEW j \in Instances, NEW d \in Copies, Busy(j, d)', job'[j][d].at # "delete"
        PROVE  published'[d[1]] = 0
    <3>1. CASE j = i /\ d \in C
      <4>1. job[i][d].at \notin {"publish", "bSend", "delete"} /\ Busy(i, d)
        BY <1>11, <2>2, <3>1 DEF Paced, Busy
      <4>2. published[d[1]] = 0
        BY <1>11, <4>1 DEF PaidSigned
      <4>3. \A c \in C : c[1] = d[1] => c = d
        BY <3>1 DEF Paced, TurnInv, OneJob
      <4>4. published'[d[1]] = published[d[1]]
        BY <1>7, <4>1, <4>3 DEF Paced
      <4> QED
        BY <4>2, <4>4
    <3>2. CASE ~(j = i /\ d \in C)
      <4>1. job'[j][d] = job[j][d]
        BY <2>2, <3>2 DEF Paced, Busy, Idle
      <4>2. Busy(j, d) /\ job[j][d].at # "delete"
        BY <2>2, <4>1 DEF Busy
      <4>3. published[d[1]] = 0
        BY <1>11, <4>2 DEF PaidSigned
      <4> QED
        BY <1>8, <3>2, <4>2, <4>3
    <3> QED
      BY <3>1, <3>2
  <2> QED
    BY <2>1, <2>2 DEF PaidSigned
<1> QED
  BY <1>2, <1>3, <1>4, <1>5, <1>9, <1>10, <1>11 DEF Advances, TurnInv

\* No job becomes late
NotLater == \A j \in Instances, d \in Copies : job'[j][d].late => job[j][d].late

\* The rows that a step writes are of its jobs
OnlyRows(C) == \A r \in Requests : status'[r] # status[r] => r \in RequestsOf(C)

LEMMA LateEffects ==
    ASSUME TypeOK, NEW i \in Instances
    PROVE  /\ \A C, st, e : Raise(i, C, st, e) => NotLater
           /\ \A C, st : Move(i, C, st) => NotLater
<1>1. ASSUME NEW C, NEW st, NEW e, Raise(i, C, st, e)
      PROVE  NotLater
  BY <1>1 DEF Raise, TypeOK, NotLater
<1> QED
  BY <1>1 DEF Move

LEMMA RowEffects ==
    ASSUME TypeOK
    PROVE  /\ status' = status => \A C : OnlyRows(C)
           /\ \A s, C : SetStatus(RequestsOf(C), s) => OnlyRows(C)
           /\ \A s : \A c \in Copies : SetStatus({c[1]}, s) => OnlyRows({c})
<1>1. \A s, C : SetStatus(RequestsOf(C), s) => OnlyRows(C)
  BY DEF SetStatus, OnlyRows
<1>2. \A s : \A c \in Copies : SetStatus({c[1]}, s) => OnlyRows({c})
  BY DEF SetStatus, OnlyRows, RequestsOf
<1> QED
  BY <1>1, <1>2 DEF OnlyRows

\* Stages of jobs past their claim that do not send
Plain == Stages \ {"idle", "received", "discard", "claimed", "publish", "bSend", "delete"}

\* Stages a job gets to without a look at its row
Open == Stages \ {"received", "publish", "bDelete", "bSend"}

LEMMA PlainPaced ==
    ASSUME TypeOK, TurnInv, NEW i \in Instances, NEW C \in SUBSET Copies,
           NEW st \in Open, NEW e, Moved(i, C, st, e), NotLater, SoundAt(st, e),
           \A c \in C : job[i][c].at \in Plain,
           OnlyRows(C), published' = published
    PROVE  Paced(i, C)
<1>1. \A c \in C : Past(i, c) /\ Busy(i, c) /\ job[i][c].at \notin {"publish", "bSend", "delete"}
  BY DEF Plain, Past, Busy
<1>2. \A c \in C : /\ job'[i][c].at = st /\ job'[i][c].err = e /\ ~job'[i][c].late
                   /\ ~Sealed(i, c)' /\ st # "received"
  BY DEF Moved, NotLater, TurnInv, NoneLate, Open, Sealed
<1>3. \A c \in C : NoneReceived(i)
  BY <1>1 DEF TurnInv, InTurn
<1>4. \A r \in Requests : status'[r] # status[r] => \E c \in C : c[1] = r
  BY DEF OnlyRows, RequestsOf
<1>5. \A j \in Instances, d \in Copies : (j = i /\ d \in C) \/ job'[j][d] = job[j][d]
  BY DEF Moved
<1> QED
  BY <1>1, <1>2, <1>3, <1>4, <1>5 DEF Paced

\* Steps of one job that write no SIGNED and send nothing
LEMMA WorkPaced ==
    ASSUME Steady, TypeOK, NoneUnexpected, TurnInv, NEW i \in Instances, NEW c \in Copies,
           \/ FailUnfit(i, c) \/ EstimateGas(i, c) \/ AllocateNonce(i, c)
           \/ BeginSigning(i, c) \/ Sign(i, c) \/ HandleSigningError(i, c)
           \/ SendToRequestQueue(i, c) \/ ReturnToPending(i, c)
           \/ RecoverMember(i, c) \/ HandleProcessingError(i, c)
    PROVE  Paced(i, {c})
<1>1. job[i][c].at \in Plain
  BY DEF FailUnfit, EstimateGas, AllocateNonce, BeginSigning, Sign, HandleSigningError,
         SendToRequestQueue, ReturnToPending, RecoverMember, HandleProcessingError,
         Plain, Stages
<1>2. SoundAt(job[i][c].at, job[i][c].err)
  BY DEF TurnInv
<1>3. NotLater /\ \E st \in Open : \E e : Moved(i, {c}, st, e) /\ SoundAt(st, e)
  <2>1. CASE FailUnfit(i, c) \/ EstimateGas(i, c) \/ AllocateNonce(i, c)
    BY <2>1, Effects, LateEffects
       DEF FailUnfit, EstimateGas, AllocateNonce, Open, Stages, SoundAt
  <2>2. CASE BeginSigning(i, c)
    <3>1. Move(i, {c}, "signing") \/ Move(i, {c}, "null")
             \/ \E e \in InfraErrors : Raise(i, {c}, "failed", e)
      BY <2>2 DEF BeginSigning
    <3>2. \A e \in InfraErrors : e \in Errors /\ SoundAt("failed", e)
      BY ErrorsAssumption DEF SoundAt, Steady
    <3>3. SoundAt("signing", "none") /\ SoundAt("null", "none")
      BY DEF SoundAt
    <3> QED
      BY <3>1, <3>2, <3>3, Effects, LateEffects DEF Open, Stages
  <2>3. CASE Sign(i, c)
    <3>1. \/ Move(i, {c}, "signed")
          \/ \E e \in InfraErrors \cup SignErrors : Raise(i, {c}, "failed", e)
      BY <2>3 DEF Sign
    <3>2. \A e \in InfraErrors \cup SignErrors : e \in Errors /\ SoundAt("failed", e)
      BY ErrorsAssumption DEF SoundAt, Steady
    <3>3. SoundAt("signed", "none")
      BY DEF SoundAt
    <3> QED
      BY <3>1, <3>2, <3>3, Effects, LateEffects DEF Open, Stages
  <2>4. CASE HandleSigningError(i, c)
    <3> DEFINE e == job[i][c].err
    <3>1. job[i][c].at = "failed"
      BY <2>4 DEF HandleSigningError
    <3>2. IsNetworkError(e) \/ IsRecoverableError(e) => e \in Errors /\ SoundAt("caught", e)
      BY <1>2, <3>1 DEF SoundAt, IsNetworkError, IsRecoverableError, Errors
    <3>3. \A d \in InfraErrors : d \in Errors /\ SoundAt("caught", d)
      BY ErrorsAssumption DEF SoundAt, Steady
    <3>4. SoundAt("null", "none")
      BY DEF SoundAt
    <3>5. \/ Raise(i, {c}, "caught", e) /\ (IsNetworkError(e) \/ IsRecoverableError(e))
          \/ Move(i, {c}, "null")
          \/ \E d \in InfraErrors : Raise(i, {c}, "caught", d)
      BY <2>4 DEF HandleSigningError
    <3> QED
      BY <3>2, <3>3, <3>4, <3>5, Effects, LateEffects DEF Open, Stages
  <2>5. CASE SendToRequestQueue(i, c) \/ ReturnToPending(i, c)
    BY <2>5, Effects, LateEffects DEF SendToRequestQueue, ReturnToPending, Open, Stages, SoundAt
  <2>6. CASE RecoverMember(i, c)
    BY <2>6, Effects, LateEffects DEF RecoverMember, RecoverOnError, Open, Stages, SoundAt
  <2>7. CASE HandleProcessingError(i, c)
    <3>1. InfraErrors # {} => IsRecoverableError(job[i][c].err)
      BY <1>2, <2>7 DEF HandleProcessingError, SoundAt
    <3>2. \E st \in {"requeue", "idle"} : Move(i, {c}, st)
      BY <2>7, <3>1 DEF HandleProcessingError, RecoverOnError
    <3> QED
      BY <3>2, Effects, LateEffects DEF Open, Stages, SoundAt
  <2> QED
    BY <2>1, <2>2, <2>3, <2>4, <2>5, <2>6, <2>7
<1>4. OnlyRows({c})
  <2>1. status' = status \/ \E s : SetStatus({c[1]}, s)
    BY DEF FailUnfit, EstimateGas, AllocateNonce, BeginSigning, Sign, HandleSigningError,
           SendToRequestQueue, ReturnToPending, RecoverMember, HandleProcessingError,
           RecoverOnError
  <2> QED
    BY <2>1, RowEffects
<1>5. published' = published
  BY DEF FailUnfit, EstimateGas, AllocateNonce, BeginSigning, Sign, HandleSigningError,
         SendToRequestQueue, ReturnToPending, RecoverMember, HandleProcessingError
<1> QED
  BY <1>1, <1>3, <1>4, <1>5, PlainPaced

LEMMA ValidatePaced ==
    ASSUME TypeOK, TurnInv, NEW i \in Instances, NEW c \in Copies, Validate(i, c)
    PROVE  Paced(i, {c})
<1>1. PICK st \in {"valid", "invalid"} : Moved(i, {c}, st, "none") /\ NotLater
  BY Effects, LateEffects DEF Validate, Stages
<1>2. NoneReceived(i)
  BY DEF Validate, In, TurnInv, NoneLate, NoneReceived
<1>3. Busy(i, c) /\ job[i][c].at = "claimed"
  BY DEF Validate, Busy
<1>4. status' = status /\ published' = published
  BY DEF Validate
<1> QED
  BY <1>1, <1>2, <1>3, <1>4 DEF Moved, NotLater, TurnInv, NoneLate, Paced, Sealed, SoundAt

LEMMA MarkSignedPaced ==
    ASSUME Steady, TypeOK, TurnInv, NEW i \in Instances, NEW c \in Copies, MarkSigned(i, c)
    PROVE  Paced(i, {c})
<1>1. job[i][c].at = "signed" /\ published' = published
  BY DEF MarkSigned
<1>2. NotLater /\ OnlyRows({c})
  BY LateEffects, RowEffects DEF MarkSigned
<1>3. \/ Moved(i, {c}, "publish", "none") /\ status'[c[1]] = "SIGNED"
      \/ \E e \in InfraErrors : Moved(i, {c}, "failed", e)
  <2>1. \/ SetStatus({c[1]}, "SIGNED") /\ Move(i, {c}, "publish")
        \/ \E e \in InfraErrors : Raise(i, {c}, "failed", e)
    BY DEF MarkSigned
  <2>2. SetStatus({c[1]}, "SIGNED") => status'[c[1]] = "SIGNED"
    BY DEF SetStatus, Copies
  <2> QED
    BY <2>1, <2>2, Effects, ErrorsAssumption DEF Stages
<1>4. CASE \E e \in InfraErrors : Moved(i, {c}, "failed", e)
  <2>1. \A e \in InfraErrors : SoundAt("failed", e)
    BY DEF SoundAt, Steady
  <2> QED
    BY <1>1, <1>2, <1>4, <2>1, PlainPaced DEF Plain, Open, Stages
<1>5. CASE Moved(i, {c}, "publish", "none") /\ status'[c[1]] = "SIGNED"
  <2>1. Busy(i, c) /\ NoneReceived(i)
    BY <1>1 DEF Busy, Past, TurnInv, InTurn
  <2>2. \A r \in Requests : status'[r] # status[r] => c[1] = r
    BY <1>2 DEF OnlyRows, RequestsOf
  <2>3. ~job'[i][c].late
    BY <1>2 DEF NotLater, TurnInv, NoneLate
  <2> QED
    BY <1>1, <1>5, <2>1, <2>2, <2>3 DEF Moved, Paced, SoundAt
<1> QED
  BY <1>3, <1>4, <1>5

LEMMA PublishPaced ==
    ASSUME Steady, TypeOK, TurnInv, NEW i \in Instances, NEW c \in Copies, Publish(i, c)
    PROVE  Paced(i, {c})
<1>1. job[i][c].at \in {"publish", "null"} /\ status' = status
  BY DEF Publish
<1>2. NotLater
  BY LateEffects DEF Publish
<1>3. PICK st \in {"delete", "caught"}, e \in Errors \cup {"none"} :
         Moved(i, {c}, st, e) /\ SoundAt(st, e) /\ (st = "caught" => InfraErrors # {})
  <2>1. \A e \in InfraErrors : e \in Errors /\ SoundAt("caught", e)
    BY ErrorsAssumption DEF SoundAt, Steady
  <2>2. SoundAt("delete", "none")
    BY DEF SoundAt
  <2>3. Move(i, {c}, "delete") \/ \E e \in InfraErrors : Raise(i, {c}, "caught", e)
    BY DEF Publish
  <2> QED
    BY <2>1, <2>2, <2>3, Effects DEF Stages
<1>4. \A r \in Requests : published'[r] # published[r] => c[1] = r /\ job[i][c].at = "publish"
  BY <1>1, PublishForEffect DEF Publish, PublishedFor
<1>5. Busy(i, c) /\ NoneReceived(i)
  BY <1>1 DEF Busy, Past, TurnInv, InTurn
<1>6. ~job'[i][c].late
  BY <1>2 DEF NotLater, TurnInv, NoneLate
<1> QED
  BY <1>1, <1>3, <1>4, <1>5, <1>6 DEF Moved, Paced, Sealed

LEMMA DeleteProcessedPaced ==
    ASSUME Steady, TypeOK, TurnInv, NEW i \in Instances, NEW c \in Copies,
           DeleteProcessed(i, c)
    PROVE  Paced(i, {c})
<1>1. job[i][c].at = "delete" /\ status' = status /\ published' = published
  BY DEF DeleteProcessed
<1>2. NotLater
  BY LateEffects DEF DeleteProcessed
<1>3. PICK st \in {"idle", "caught"}, e \in Errors \cup {"none"} :
         Moved(i, {c}, st, e) /\ SoundAt(st, e) /\ (st = "caught" => InfraErrors # {})
  <2>1. \A e \in InfraErrors : e \in Errors /\ SoundAt("caught", e)
    BY ErrorsAssumption DEF SoundAt, Steady
  <2>2. SoundAt("idle", "none")
    BY DEF SoundAt
  <2>3. Move(i, {c}, "idle") \/ \E e \in InfraErrors : Raise(i, {c}, "caught", e)
    BY DEF DeleteProcessed
  <2> QED
    BY <2>1, <2>2, <2>3, Effects DEF Stages
<1>4. Busy(i, c) /\ NoneReceived(i)
  BY <1>1 DEF Busy, Past, TurnInv, InTurn
<1>5. ~job'[i][c].late
  BY <1>2 DEF NotLater, TurnInv, NoneLate
<1> QED
  BY <1>1, <1>3, <1>4, <1>5 DEF Moved, Paced, Sealed

\* The jobs of a batch at one stage, or some of them, go on together.
LEMMA TogetherPaced ==
    ASSUME TypeOK, TurnInv, NEW i \in Instances, NEW s \in Plain, NEW C \in SUBSET At(i, s),
           NEW st \in Open \ {"failed", "caught"}, NEW e \in Errors \cup {"none"},
           Raise(i, C, st, e), OnlyRows(C), published' = published
    PROVE  Paced(i, C)
<1>1. Moved(i, C, st, e) /\ NotLater
  BY RaiseEffect, LateEffects DEF Open
<1>2. C \in SUBSET Copies /\ \A c \in C : job[i][c].at \in Plain
  BY DEF At
<1>3. SoundAt(st, e) /\ st \in Open
  BY DEF SoundAt
<1> QED
  BY <1>1, <1>2, <1>3, PlainPaced

LEMMA GroupingPaced ==
    ASSUME TypeOK, TurnInv, NEW i \in Instances, DecideBatching(i) \/ NextGroup(i)
    PROVE  \E C : Paced(i, C)
<1>1. PICK s \in {"fresh", "grouped"}, st \in {"grouped", "single", "bCreate"} :
         \E C \in SUBSET At(i, s) : Raise(i, C, st, "none")
  <2>1. CASE DecideBatching(i)
    BY <2>1 DEF DecideBatching, Move
  <2>2. CASE NextGroup(i)
    <3>1. PICK t \in Tokens : \E st \in {"bCreate", "single"} :
                                 Move(i, OfToken(At(i, "grouped"), t), st)
      BY <2>2 DEF NextGroup
    <3>2. OfToken(At(i, "grouped"), t) \subseteq At(i, "grouped")
      BY DEF OfToken
    <3> QED
      BY <3>1, <3>2 DEF Move
  <2> QED
    BY <2>1, <2>2
<1>4. PICK C \in SUBSET At(i, s) : Raise(i, C, st, "none")
  BY <1>1
<1>2. OnlyRows(C) /\ published' = published
  BY RowEffects DEF DecideBatching, NextGroup
<1>3. s \in Plain /\ st \in Open \ {"failed", "caught"}
  BY DEF Plain, Open, Stages
<1> QED
  BY <1>2, <1>3, <1>4, TogetherPaced

LEMMA SeparatePaced ==
    ASSUME TypeOK, TurnInv, NEW i \in Instances, SeparateByTryCount(i)
    PROVE  \E C : Paced(i, C)
<1> DEFINE C == {c \in Copies : job[i][c].at = "valid"}
           row == [c \in Copies |->
                     IF job[i][c].at # "valid" THEN job[i][c]
                     ELSE [Idle EXCEPT !.at = IF tried[c[1]] THEN "single" ELSE "fresh"]]
<1>1. status' = status /\ published' = published
  BY DEF SeparateByTryCount
<1>2. \A c \in C : c \in Copies /\ Past(i, c) /\ Busy(i, c) /\ job[i][c].at = "valid"
  BY DEF Past, Busy
<1>3. CASE Move(i, At(i, "valid"), "idle")
  <2>1. "valid" \in Plain /\ "idle" \in Open \ {"failed", "caught"}
    BY DEF Plain, Open, Stages
  <2> QED
    BY <1>1, <1>3, <2>1, RowEffects, TogetherPaced DEF Move
<1>4. CASE job' = [job EXCEPT ![i] = row]
  <2>1. \A d \in Copies : d \in C \/ row[d] = job[i][d]
    OBVIOUS
  <2>2. \A d \in C : row[d].at \in {"single", "fresh"} /\ ~row[d].late
    BY DEF Idle
  <2> HIDE DEF row
  <2>3. \A j \in Instances, d \in Copies : (j = i /\ d \in C) \/ job'[j][d] = job[j][d]
    BY <1>4, <2>1, Effects
  <2>4. \A d \in C : job'[i][d].at \in {"single", "fresh"} /\ ~job'[i][d].late
    BY <1>4, <2>2, Effects
  <2>5. \A d \in C : NoneReceived(i)
    BY <1>2 DEF TurnInv, InTurn
  <2>6. \A d \in C : ~Sealed(i, d)' /\ SoundAt(job'[i][d].at, job'[i][d].err)
    BY <2>4 DEF Sealed, SoundAt
  <2> HIDE DEF C
  <2>7. Paced(i, C)
    BY <1>1, <1>2, <2>3, <2>4, <2>5, <2>6 DEF Paced
  <2> QED
    BY <2>7
<1> QED
  BY <1>3, <1>4 DEF SeparateByTryCount

LEMMA CreateBatchPaced ==
    ASSUME TypeOK, TurnInv, NEW i \in Instances, CreateBatch(i)
    PROVE  \E C : Paced(i, C)
<1> DEFINE C == At(i, "bCreate")
<1>1. PICK st \in {"bSign", "bSkip", "bRefused"}, e \in Errors \cup {"none"} : Raise(i, C, st, e)
  BY ErrorsAssumption DEF CreateBatch, Group, Move
<1>2. OnlyRows(C) /\ published' = published
  BY RowEffects DEF CreateBatch, Group
<1>3. "bCreate" \in Plain /\ st \in Open \ {"failed", "caught"}
  BY DEF Plain, Open, Stages
<1> QED
  BY <1>1, <1>2, <1>3, TogetherPaced

LEMMA SkipPaced ==
    ASSUME TypeOK, TurnInv, NEW i \in Instances, SkipBatch(i) \/ PurgeBatch(i) \/ SignBatch(i)
    PROVE  \E C : Paced(i, C)
<1>1. PICK s \in {"bSkip", "bPurge", "bSign"}, st \in {"idle", "bRefused", "bSigned", "bBroken"},
           e \in Errors \cup {"none"} : Raise(i, At(i, s), st, e)
  <2>1. CASE SkipBatch(i)
    BY <2>1, ErrorsAssumption DEF SkipBatch, DeleteAll, Move
  <2>2. CASE PurgeBatch(i)
    BY <2>2, ErrorsAssumption DEF PurgeBatch, DeleteAll, Move
  <2>3. CASE SignBatch(i)
    BY <2>3, ErrorsAssumption DEF SignBatch, Move
  <2> QED
    BY <2>1, <2>2, <2>3
<1>2. OnlyRows(At(i, s)) /\ published' = published
  BY RowEffects DEF SkipBatch, PurgeBatch, SignBatch
<1>3. s \in Plain /\ st \in Open \ {"failed", "caught"}
  BY DEF Plain, Open, Stages
<1> QED
  BY <1>1, <1>2, <1>3, TogetherPaced

LEMMA AbortPaced ==
    ASSUME TypeOK, TurnInv, NEW i \in Instances, AbortBatch(i) \/ AbortUnbatched(i)
    PROVE  \E C : Paced(i, C)
<1>1. PICK s \in {"bAbort", "bAbortUnbatched"}, st \in {"idle", "bPurge"} :
         /\ Raise(i, At(i, s), st, "none")
         /\ status' = status \/ \E R \in SUBSET RequestsOf(At(i, s)) : SetStatus(R, "FAILED")
  <2>1. CASE AbortBatch(i)
    BY <2>1 DEF AbortBatch, Move
  <2>2. CASE AbortUnbatched(i)
    BY <2>2 DEF AbortUnbatched, Move
  <2> QED
    BY <2>1, <2>2
<1>2. OnlyRows(At(i, s)) /\ published' = published
  BY <1>1 DEF AbortBatch, AbortUnbatched, SetStatus, OnlyRows
<1>3. s \in Plain /\ st \in Open \ {"failed", "caught"}
  BY DEF Plain, Open, Stages
<1> QED
  BY <1>1, <1>2, <1>3, TogetherPaced

LEMMA HandleBatchErrorPaced ==
    ASSUME TypeOK, TurnInv, NEW i \in Instances, HandleBatchError(i)
    PROVE  \E C : Paced(i, C)
<1>1. PICK s \in {"bBroken", "bRefused"}, e \in Errors :
         LET C == {c \in At(i, s) : job[i][c].err = e}
         IN  /\ \E st \in {"bRecover", "bAbort", "bAbortUnbatched", "idle"},
                   d \in Errors \cup {"none"} : Raise(i, C, st, d)
             /\ status' = status /\ published' = published
  BY DEF HandleBatchError, Move
<1> DEFINE C == {c \in At(i, s) : job[i][c].err = e}
<1>2. C \in SUBSET At(i, s)
  OBVIOUS
<1>3. PICK st \in {"bRecover", "bAbort", "bAbortUnbatched", "idle"},
           d \in Errors \cup {"none"} : Raise(i, C, st, d)
  BY <1>1
<1>4. OnlyRows(C) /\ published' = published
  BY <1>1, RowEffects
<1>5. s \in Plain /\ st \in Open \ {"failed", "caught"}
  BY DEF Plain, Open, Stages
<1> HIDE DEF C
<1> QED
  BY <1>2, <1>3, <1>4, <1>5, TogetherPaced

LEMMA MarkBatchSignedPaced ==
    ASSUME TypeOK, TurnInv, NEW i \in Instances, MarkBatchSigned(i)
    PROVE  \E C : Paced(i, C)
<1> DEFINE C == At(i, "bSigned")
<1>1. published' = published /\ OnlyRows(C)
  BY RowEffects DEF MarkBatchSigned
<1>2. CASE \E e \in InfraErrors : Raise(i, C, "bBroken", e)
  <2>1. "bSigned" \in Plain /\ "bBroken" \in Open \ {"failed", "caught"}
    BY DEF Plain, Open, Stages
  <2> QED
    BY <1>1, <1>2, <2>1, TogetherPaced, ErrorsAssumption
<1>3. CASE SetStatus(RequestsOf(C), "SIGNED") /\ Move(i, C, "bDelete")
  <2>1. Moved(i, C, "bDelete", "none") /\ NotLater
    BY <1>3, Effects, LateEffects DEF Stages
  <2>2. \A c \in C : c \in Copies /\ Busy(i, c) /\ Past(i, c) /\ job[i][c].at = "bSigned"
    BY DEF At, Busy, Past
  <2>3. \A c \in C : NoneReceived(i) /\ ~job'[i][c].late
    BY <2>1, <2>2 DEF TurnInv, InTurn, NotLater, NoneLate
  <2>4. \A c \in C : status'[c[1]] = "SIGNED"
    BY <1>3, <2>2 DEF SetStatus, RequestsOf, Copies
  <2>5. \A c \in C : job'[i][c].at = "bDelete" /\ job'[i][c].err = "none"
    BY <2>1, <2>2 DEF Moved
  <2>6. \A r \in Requests : status'[r] # status[r] => \E c \in C : c[1] = r
    BY <1>1 DEF OnlyRows, RequestsOf
  <2>7. \A j \in Instances, d \in Copies : (j = i /\ d \in C) \/ job'[j][d] = job[j][d]
    BY <2>1 DEF Moved
  <2>8. SoundAt("bDelete", "none")
    BY DEF SoundAt
  <2> HIDE DEF C
  <2> QED
    BY <1>1, <2>2, <2>3, <2>4, <2>5, <2>6, <2>7, <2>8 DEF Paced
<1> QED
  BY <1>2, <1>3 DEF MarkBatchSigned

LEMMA DeleteBatchPaced ==
    ASSUME TypeOK, TurnInv, NEW i \in Instances, DeleteBatch(i)
    PROVE  \E C : Paced(i, C)
<1> DEFINE C == At(i, "bDelete")
<1>1. published' = published /\ status' = status
  BY DEF DeleteBatch
<1>2. PICK st \in {"bSend", "bBroken"}, e \in Errors \cup {"none"} : Raise(i, C, st, e)
  BY ErrorsAssumption DEF DeleteBatch, DeleteAll, Move
<1>3. Moved(i, C, st, e) /\ NotLater
  BY <1>2, RaiseEffect, LateEffects DEF Stages
<1>4. \A c \in C : c \in Copies /\ Busy(i, c) /\ Past(i, c) /\ job[i][c].at = "bDelete"
  BY DEF At, Busy, Past
<1>5. \A c \in C : NoneReceived(i) /\ ~job'[i][c].late
  BY <1>3, <1>4 DEF TurnInv, InTurn, NotLater, NoneLate
<1>6. \A c \in C : job'[i][c].at = st /\ job'[i][c].err = e /\ Sealed(i, c)
  BY <1>3, <1>4 DEF Moved, Sealed
<1>7. \A j \in Instances, d \in Copies : (j = i /\ d \in C) \/ job'[j][d] = job[j][d]
  BY <1>3 DEF Moved
<1>8. SoundAt(st, e)
  BY DEF SoundAt
<1> HIDE DEF C
<1>9. Paced(i, C)
  BY <1>1, <1>4, <1>5, <1>6, <1>7, <1>8 DEF Paced
<1> QED
  BY <1>9

LEMMA SendBatchPaced ==
    ASSUME TypeOK, TurnInv, NEW i \in Instances, SendBatch(i)
    PROVE  \E C : Paced(i, C)
<1> DEFINE C == At(i, "bSend")
<1>1. status' = status
  BY DEF SendBatch
<1>2. PICK st \in {"idle", "bBroken"}, e \in Errors \cup {"none"} :
         Raise(i, C, st, e) /\ (st = "bBroken" => InfraErrors # {})
  BY ErrorsAssumption DEF SendBatch, Move
<1>3. Moved(i, C, st, e) /\ NotLater
  BY <1>2, RaiseEffect, LateEffects DEF Stages
<1>4. \A c \in C : c \in Copies /\ Busy(i, c) /\ Past(i, c) /\ job[i][c].at = "bSend"
  BY DEF At, Busy, Past
<1>5. \A c \in C : NoneReceived(i) /\ ~job'[i][c].late
  BY <1>3, <1>4 DEF TurnInv, InTurn, NotLater, NoneLate
<1>6. \A c \in C : job'[i][c].at = st /\ job'[i][c].err = e /\ ~Sealed(i, c)'
  BY <1>3, <1>4 DEF Moved, Sealed
<1>7. \A j \in Instances, d \in Copies : (j = i /\ d \in C) \/ job'[j][d] = job[j][d]
  BY <1>3 DEF Moved
<1>8. SoundAt(st, e)
  BY DEF SoundAt
<1>9. \A r \in Requests : published'[r] # published[r] => \E c \in C : c[1] = r
  <2>1. PublishFor(RequestsOf(C)) \/ published' = published
    BY DEF SendBatch
  <2> QED
    BY <2>1, PublishForEffect DEF PublishedFor, RequestsOf
<1> HIDE DEF C
<1>10. Paced(i, C)
  BY <1>1, <1>2, <1>4, <1>5, <1>6, <1>7, <1>8, <1>9 DEF Paced
<1> QED
  BY <1>10

\* Jobs that end, or nothing
LEMMA EndsPaced ==
    ASSUME NEW i \in Instances, status' = status, published' = published,
           \A j \in Instances, d \in Copies :
              \/ job'[j][d] = job[j][d]
              \/ job'[j][d].at = "idle" /\ ~job'[j][d].late
    PROVE  Paced(i, {})
BY DEF Paced

\* Only a claim makes a job busy: of a request that is PENDING, so that no other
\* job has it, while everything of the batch is still being claimed.
LEMMA ClaimAdvances ==
    ASSUME Inv, KeepInv, TurnInv, NEW i \in Instances, NEW c \in Copies, Claim(i, c)
    PROVE  Advances
<1>1. TypeOK /\ c[1] \in Requests /\ job[i][c].at = "received" /\ published' = published
  BY DEF Inv, Copies, Claim
<1>2. NotLater
  BY <1>1, LateEffects DEF Claim
<1>3. CASE Move(i, {c}, "idle") /\ UNCHANGED status
  <2>1. \A j \in Instances, d \in Copies :
           job'[j][d] = job[j][d] \/ (job'[j][d].at = "idle" /\ ~job'[j][d].late)
    BY <1>1, <1>2, <1>3, Effects DEF Moved, Stages, NotLater, TurnInv, NoneLate
  <2> QED
    BY <1>1, <1>3, <2>1, EndsPaced, PacedAdvances
<1>4. ASSUME NEW st \in {"claimed", "discard"}, Move(i, {c}, st),
             \/ st = "claimed" /\ Claimable(c[1]) /\ SetStatus({c[1]}, "VALIDATING")
             \/ st = "discard" /\ UNCHANGED status
      PROVE  Advances
  <2>1. Moved(i, {c}, st, "none")
    BY <1>1, <1>4, Effects DEF Stages
  <2>2. \A j \in Instances, d \in Copies : ~(j = i /\ d = c) => job'[j][d] = job[j][d]
    BY <2>1 DEF Moved
  <2>3. job'[i][c].at = st /\ job'[i][c].err = "none" /\ ~job'[i][c].late
    BY <1>2, <2>1 DEF Moved, NotLater, TurnInv, NoneLate
  <2>4. ~Past(i, c)' /\ ~Sealed(i, c)' /\ (Busy(i, c)' => st = "claimed")
    BY <2>3 DEF Past, Sealed, Busy
  <2>5. NoneLate'
    BY <2>2, <2>3 DEF TurnInv, NoneLate
  <2>6. InTurn'
    <3>1. \A j \in Instances, d \in Copies : Past(j, d)' => Past(j, d)
      BY <2>2, <2>4 DEF Past
    <3>2. \A j \in Instances, d \in Copies :
             job'[j][d].at = "received" => job[j][d].at = "received"
      BY <2>2, <2>3
    <3> QED
      BY <3>1, <3>2 DEF TurnInv, InTurn, NoneReceived
  <2>7. \A j \in Instances, d \in Copies : SoundAt(job'[j][d].at, job'[j][d].err)
    BY <2>2, <2>3 DEF TurnInv, SoundAt
  <2>8. Claimable(c[1]) =>
           \A j \in Instances, d \in Copies : Busy(j, d) => d[1] # c[1]
    <3> SUFFICES ASSUME Claimable(c[1]), NEW j \in Instances, NEW d \in Copies, Busy(j, d)
                 PROVE  d[1] # c[1]
      OBVIOUS
    <3>1. life[i] = "up"
      BY <1>1 DEF KeepInv
    <3>2. job[j][d].at # "idle"
      BY DEF Busy
    <3>3. life[j] = "up"
      BY <3>2 DEF KeepInv
    <3>4. j = i
      BY <3>1, <3>3 DEF KeepInv
    <3>5. ~Past(i, d)
      BY <1>1 DEF TurnInv, InTurn, NoneReceived
    <3>6. Active(i, d)
      BY <3>4, <3>5 DEF Busy, Past, Active
    <3> QED
      BY <3>6 DEF Inv, InPlayUnpaid, Claimable
  <2>9. \A j \in Instances, d \in Copies :
           Busy(j, d)' => Busy(j, d) \/ (j = i /\ d = c /\ Claimable(c[1]))
    BY <1>4, <2>2, <2>4 DEF Busy
  <2>10. OneJob'
    BY <2>8, <2>9 DEF TurnInv, OneJob
  <2>11. \A r \in Requests : status'[r] # status[r] => r = c[1] /\ status[r] = "PENDING"
    BY <1>1, <1>4 DEF SetStatus, Claimable, TypeOK
  <2>12. \A j \in Instances, d \in Copies :
            Sealed(j, d)' => Sealed(j, d) /\ status'[d[1]] = status[d[1]]
    <3> SUFFICES ASSUME NEW j \in Instances, NEW d \in Copies, Sealed(j, d)'
                 PROVE  Sealed(j, d) /\ status'[d[1]] = status[d[1]]
      OBVIOUS
    <3>1. Sealed(j, d) /\ Active(j, d) /\ d[1] \in Requests
      BY <2>2, <2>4 DEF Sealed, Active, Copies
    <3>2. status[d[1]] # "PENDING"
      BY <3>1 DEF Inv, InPlayUnpaid
    <3> QED
      BY <2>11, <3>1, <3>2
  <2>13. PaidSigned => PaidSigned'
    <3> SUFFICES ASSUME PaidSigned PROVE PaidSigned'
      OBVIOUS
    <3>1. \A r \in Requests : status[r] = "PENDING" => published[r] = 0
      BY DEF Inv, InPlayUnpaid
    <3>2. \A r \in Requests : published'[r] # 0 => status'[r] = "SIGNED"
      BY <1>1, <2>11, <3>1 DEF PaidSigned
    <3>3. \A j \in Instances, d \in Copies :
             Busy(j, d)' /\ job'[j][d].at # "delete" => published'[d[1]] = 0
      BY <1>1, <2>2, <2>9, <3>1 DEF PaidSigned, Busy, Claimable
    <3> QED
      BY <3>2, <3>3 DEF PaidSigned
  <2> QED
    BY <1>1, <2>5, <2>6, <2>7, <2>10, <2>12, <2>13 DEF Advances, TurnInv
<1> QED
  BY <1>3, <1>4 DEF Claim

LEMMA ReceiveAdvances ==
    ASSUME TypeOK, TurnInv, NEW i \in Instances, Receive(i)
    PROVE  Advances
<1>1. PICK C \in SUBSET Copies : Move(i, C, "received")
  BY DEF Receive, At
<1>2. Moved(i, C, "received", "none") /\ NotLater
  BY <1>1, Effects, LateEffects DEF Stages
<1>3. \A d \in Copies : job[i][d].at = "idle"
  BY Effects DEF Receive, In, TurnInv, NoneLate, Jobs
<1>4. status' = status /\ published' = published
  BY DEF Receive
<1>5. \A j \in Instances, d \in Copies :
         \/ job'[j][d] = job[j][d]
         \/ j = i /\ job'[j][d].at = "received" /\ job'[j][d].err = "none"
  BY <1>2 DEF Moved
<1>6. \A j \in Instances, d \in Copies :
         /\ Busy(j, d)' => Busy(j, d) /\ job'[j][d] = job[j][d]
         /\ Past(j, d)' => Past(j, d) /\ j # i
         /\ Sealed(j, d)' => Sealed(j, d)
  BY <1>3, <1>5 DEF Busy, Past, Sealed
<1>7. NoneLate' /\ OneJob'
  BY <1>2, <1>6 DEF TurnInv, NoneLate, NotLater, OneJob
<1>8. InTurn'
  <2>1. \A j \in Instances, d \in Copies :
           j # i => (job'[j][d].at = "received" => job[j][d].at = "received")
    BY <1>5
  <2> QED
    BY <1>6, <2>1 DEF TurnInv, InTurn, NoneReceived
<1>9. \A j \in Instances, d \in Copies : SoundAt(job'[j][d].at, job'[j][d].err)
  BY <1>5 DEF TurnInv, SoundAt
<1>10. PaidSigned => PaidSigned'
  BY <1>4, <1>6 DEF PaidSigned
<1> QED
  BY <1>4, <1>6, <1>7, <1>8, <1>9, <1>10 DEF Advances, TurnInv

LEMMA WorkerPaced ==
    ASSUME Steady, TypeOK, NoneUnexpected, TurnInv, NEW i \in Instances,
           Worker(i), ~Receive(i), \A c \in Copies : ~Claim(i, c)
    PROVE  \E C : Paced(i, C)
<1>1. ASSUME NEW c \in Copies, Discard(i, c)
      PROVE  Paced(i, {})
  <2>1. Moved(i, {c}, "idle", "none") /\ NotLater
    BY <1>1, Effects, LateEffects DEF Discard, Stages
  <2>2. \A j \in Instances, d \in Copies :
           job'[j][d] = job[j][d] \/ (job'[j][d].at = "idle" /\ ~job'[j][d].late)
    BY <2>1 DEF Moved, NotLater, TurnInv, NoneLate
  <2> QED
    BY <1>1, <2>2, EndsPaced DEF Discard
<1>2. ASSUME NEW c \in Copies, MessageStep(i, c)
      PROVE  \E C : Paced(i, C)
  BY <1>1, <1>2, WorkPaced, ValidatePaced, MarkSignedPaced, PublishPaced,
     DeleteProcessedPaced
     DEF MessageStep
<1>3. CASE BatchStep(i)
  BY <1>3, GroupingPaced, SeparatePaced, CreateBatchPaced, SkipPaced, AbortPaced,
     HandleBatchErrorPaced, MarkBatchSignedPaced, DeleteBatchPaced, SendBatchPaced
     DEF BatchStep
<1> QED
  BY <1>2, <1>3 DEF Worker

LEMMA NextAdvances ==
    ASSUME Steady, Inv, KeepInv, TurnInv, [Next]_vars
    PROVE  Advances
<1>1. TypeOK /\ NoneUnexpected
  BY DEF Inv
<1>2. ASSUME NEW i \in Instances, Worker(i)
      PROVE  Advances
  BY <1>1, <1>2, WorkerPaced, PacedAdvances, ClaimAdvances, ReceiveAdvances
<1>3. ASSUME NEW i \in Instances, Crash(i)
      PROVE  Advances
  <2>1. \A j \in Instances, d \in Copies :
           job'[j][d] = job[j][d] \/ (job'[j][d].at = "idle" /\ ~job'[j][d].late)
    BY <1>1, <1>3 DEF Crash, TypeOK, Idle
  <2> QED
    BY <1>3, <2>1, EndsPaced, PacedAdvances DEF Crash
<1>4. ASSUME UNCHANGED <<status, job, published>>
      PROVE  Advances
  <2>1. TurnInv' /\ (PaidSigned => PaidSigned')
    BY <1>4 DEF TurnInv, NoneLate, InTurn, OneJob, Past, Busy, NoneReceived, PaidSigned
  <2> QED
    BY <1>4, <2>1 DEF Advances, Sealed
<1> QED
  BY <1>2, <1>3, <1>4 DEF Next, Redeliver, Start, vars

\* Before anything happens there are no jobs
LEMMA InitTurn == Init => TurnInv /\ SealedSigned /\ PaidSigned
<1> SUFFICES ASSUME Init PROVE TurnInv /\ SealedSigned /\ PaidSigned
  OBVIOUS
<1>1. \A i \in Instances, c \in Copies : job[i][c] = Idle
  BY DEF Init
<1> QED
  BY <1>1 DEF Init, Idle, TurnInv, NoneLate, InTurn, OneJob, Past, Busy, SoundAt, Sealed,
              SealedSigned, PaidSigned

LEMMA AdvancesSigned == SealedSigned /\ Advances => SealedSigned'
BY DEF SealedSigned, Advances

\* A request reported FAILED was not paid, when no call of the database, of Redis or
\* of SQS fails and one instance runs at a time: whatever signing and preparing a
\* batch report, and wherever instances stop.  A send that was accepted and reports
\* an error breaks it: the request is then FAILED, and paid.
THEOREM FailedIsUnpaid ==
    ASSUME MaxLive <= 1, InfraErrors = {}
    PROVE  Spec => []FailedNotPublished
<1> DEFINE All == KeepInv /\ TurnInv /\ SealedSigned /\ PaidSigned
<1>1. Steady
  BY DEF Steady
<1>2. Init => All
  BY InitKeeps, InitTurn
<1>3. Inv /\ All /\ [Next]_vars => All'
  <2> SUFFICES ASSUME Inv, All, [Next]_vars PROVE All'
    OBVIOUS
  <2>1. Advances
    BY <1>1, NextAdvances
  <2>2. KeepInv'
    BY NextKeeps DEF Inv, Keeps
  <2> QED
    BY <2>1, <2>2, AdvancesSigned DEF Advances
<1>4. All => FailedNotPublished
  BY DEF PaidSigned, FailedNotPublished
<1> QED
  BY <1>2, <1>3, <1>4, Invariance, PTL DEF Spec

----------------------------------------------------------------------------
(* Nothing fails and nothing stops: a claimed request is in somebody's hands *)

\* A job whose row is as the claim left it
JustClaimed(i, c) ==
    job[i][c].at \in {"claimed", "invalid", "valid", "fresh", "grouped", "single", "noGas",
                      "estimated", "allocated", "bCreate", "bRefused", "bAbortUnbatched"}

Unfinished(r) == status[r] \in {"VALIDATING", "SIGNING"}

InHand(i, c) == job[i][c].at \notin Decided

Claimed(r) == \E i \in Instances, c \in Copies : c[1] = r /\ owner[r] = i /\ InHand(i, c)

HandInv ==
    /\ \A r \in Requests : Unfinished(r) => Claimed(r)
    /\ \A i \in Instances, c \in Copies : JustClaimed(i, c) => status[c[1]] = "VALIDATING"

\* What a step of instance i with its jobs on C does to their rows
Serves(i, C) ==
    /\ owner' = owner /\ OnlyRows(C)
    /\ \A j \in Instances, d \in Copies :
          \/ j = i /\ d \in C
          \/ job'[j][d].at = job[j][d].at
          \/ job[j][d].at \in Decided /\ job'[j][d].at \in Decided
    /\ \A c \in C :
          /\ c \in Copies /\ Busy(i, c)
          /\ Unfinished(c[1])' => Unfinished(c[1]) /\ InHand(i, c)'
          /\ JustClaimed(i, c)' => status'[c[1]] = "VALIDATING"

\* A job that is busy has its request to itself, so a claimed request is its own.
LEMMA OwnJob ==
    ASSUME HandInv, OneJob, NEW i \in Instances, NEW c \in Copies, Busy(i, c),
           Unfinished(c[1])
    PROVE  owner[c[1]] = i /\ InHand(i, c)
<1>1. PICK j \in Instances, d \in Copies : d[1] = c[1] /\ owner[c[1]] = j /\ InHand(j, d)
  BY DEF HandInv, Claimed, Copies
<1>2. Busy(j, d)
  BY <1>1 DEF InHand, Busy, Decided
<1>3. j = i /\ d = c
  BY <1>1, <1>2 DEF OneJob
<1> QED
  BY <1>1, <1>3

LEMMA ServesKeeps ==
    ASSUME HandInv, OneJob, NEW i \in Instances, NEW C, Serves(i, C)
    PROVE  HandInv'
<1>1. \A j \in Instances, d \in Copies :
         ~(j = i /\ d \in C) /\ (InHand(j, d)' \/ JustClaimed(j, d)') =>
             /\ job'[j][d].at = job[j][d].at /\ Busy(j, d)
             /\ \A c \in C : c[1] # d[1]
  BY DEF Serves, InHand, JustClaimed, Decided, Busy, OneJob
<1>2. ASSUME NEW r \in Requests, Unfinished(r)'
      PROVE  Claimed(r)'
  <2>1. CASE \E c \in C : c[1] = r
    <3>1. PICK c \in C : c[1] = r
      BY <2>1
    <3>2. c \in Copies /\ Busy(i, c) /\ Unfinished(r) /\ InHand(i, c)'
      BY <1>2, <3>1 DEF Serves
    <3>3. owner'[r] = i
      BY <3>1, <3>2, OwnJob DEF Serves
    <3> QED
      BY <3>1, <3>2, <3>3 DEF Claimed
  <2>2. CASE ~\E c \in C : c[1] = r
    <3>1. status'[r] = status[r]
      BY <2>2 DEF Serves, OnlyRows, RequestsOf
    <3>2. PICK j \in Instances, d \in Copies : d[1] = r /\ owner[r] = j /\ InHand(j, d)
      BY <1>2, <3>1 DEF Unfinished, HandInv, Claimed
    <3>3. job'[j][d].at = job[j][d].at
      BY <2>2, <3>2 DEF Serves, InHand
    <3> QED
      BY <3>2, <3>3 DEF Serves, InHand, Claimed
  <2> QED
    BY <2>1, <2>2
<1>3. ASSUME NEW j \in Instances, NEW d \in Copies, JustClaimed(j, d)'
      PROVE  status'[d[1]] = "VALIDATING"
  <2>1. CASE j = i /\ d \in C
    BY <1>3, <2>1 DEF Serves
  <2>2. CASE ~(j = i /\ d \in C)
    <3>1. status[d[1]] = "VALIDATING"
      BY <1>1, <1>3, <2>2 DEF HandInv, JustClaimed
    <3>2. status'[d[1]] = status[d[1]]
      BY <1>1, <1>3, <2>2 DEF Serves, OnlyRows, RequestsOf, Copies
    <3> QED
      BY <3>1, <3>2
  <2> QED
    BY <2>1, <2>2
<1> QED
  BY <1>2, <1>3 DEF HandInv

\* Jobs that go on together from a busy stage
LEMMA MovedServes ==
    ASSUME HandInv, OneJob, NEW i \in Instances, NEW C \in SUBSET Copies,
           NEW st, NEW e, Moved(i, C, st, e), owner' = owner, OnlyRows(C),
           \A c \in C : /\ Busy(i, c)
                        /\ \/ ~Unfinished(c[1])'
                           \/ Unfinished(c[1]) /\ st \notin Decided
                        /\ JustClaimed(i, c)' => status'[c[1]] = "VALIDATING"
    PROVE  Serves(i, C)
<1>1. \A c \in C : job'[i][c].at = st
  BY DEF Moved
<1>2. \A j \in Instances, d \in Copies : (j = i /\ d \in C) \/ job'[j][d].at = job[j][d].at
  BY DEF Moved
<1> QED
  BY <1>1, <1>2 DEF Serves, InHand

\* Steps that leave the rows alone: whoever has a row in hand keeps it
LEMMA KeptServes ==
    ASSUME HandInv, OneJob, NEW i \in Instances, NEW C \in SUBSET Copies,
           NEW st, NEW e, Moved(i, C, st, e), owner' = owner, status' = status,
           \A c \in C : /\ Busy(i, c) /\ st \notin Decided
                        /\ JustClaimed(i, c)' => JustClaimed(i, c)
    PROVE  HandInv'
<1>1. \A c \in C : Unfinished(c[1])' => Unfinished(c[1])
  BY DEF Unfinished
<1>2. \A c \in C : JustClaimed(i, c)' => status'[c[1]] = "VALIDATING"
  BY DEF HandInv
<1>3. OnlyRows(C)
  BY DEF OnlyRows
<1> QED
  BY <1>1, <1>2, <1>3, MovedServes, ServesKeeps

\* Steps of jobs that have decided their rows, or never had one
LEMMA DecidedKeeps ==
    ASSUME HandInv, OneJob, NEW i \in Instances, NEW C \in SUBSET Copies,
           NEW st \in Decided, NEW e, Moved(i, C, st, e), owner' = owner, status' = status,
           \A c \in C : job[i][c].at \in Decided
    PROVE  HandInv'
<1>1. Serves(i, {})
  BY DEF Serves, Moved, OnlyRows
<1> QED
  BY <1>1, ServesKeeps

\* Where a job stands on its row alone: the steps of one job
LEMMA ReadingHand ==
    ASSUME InfraErrors = {}, TypeOK, NoneUnexpected, HandInv, OneJob,
           NEW i \in Instances, NEW c \in Copies,
           \/ Validate(i, c) \/ EstimateGas(i, c) \/ AllocateNonce(i, c) \/ Sign(i, c)
           \/ SendToRequestQueue(i, c)
    PROVE  HandInv'
<1>1. PICK st \in {"valid", "invalid", "estimated", "noGas", "allocated", "signed", "failed",
                   "requeued"},
           e \in Errors \cup {"none"} :
         /\ Moved(i, {c}, st, e)
         /\ st \in {"valid", "invalid", "estimated", "noGas", "allocated"} => JustClaimed(i, c)
  <2>1. CASE Validate(i, c) \/ EstimateGas(i, c) \/ AllocateNonce(i, c)
    <3>1. JustClaimed(i, c)
      BY <2>1 DEF Validate, EstimateGas, AllocateNonce, JustClaimed
    <3>2. \E st \in {"valid", "invalid", "estimated", "noGas", "allocated"} :
             Moved(i, {c}, st, "none")
      BY <2>1, Effects DEF Validate, EstimateGas, AllocateNonce, Stages
    <3> QED
      BY <3>1, <3>2
  <2>2. CASE Sign(i, c)
    BY <2>2, Effects, ErrorsAssumption DEF Sign, Stages
  <2>3. CASE SendToRequestQueue(i, c)
    BY <2>3, Effects DEF SendToRequestQueue, Stages
  <2> QED
    BY <2>1, <2>2, <2>3
<1>2. owner' = owner /\ status' = status
  BY DEF Validate, EstimateGas, AllocateNonce, Sign, SendToRequestQueue
<1>3. Busy(i, c)
  BY DEF Validate, EstimateGas, AllocateNonce, Sign, SendToRequestQueue, Busy
<1>4. st \notin Decided
  BY DEF Decided
<1>5. JustClaimed(i, c)' => JustClaimed(i, c)
  BY <1>1 DEF Moved, JustClaimed
<1> QED
  BY <1>1, <1>2, <1>3, <1>4, <1>5, KeptServes

\* A job whose row gets a status that ends its claim
LEMMA DecidingHand ==
    ASSUME HandInv, OneJob, NEW i \in Instances, NEW C \in SUBSET Copies,
           NEW st, NEW e, Moved(i, C, st, e), owner' = owner,
           NEW s \in {"PENDING", "RETRYING", "SIGNED", "FAILED"},
           SetStatus(RequestsOf(C), s), \A c \in C : Busy(i, c),
           st \in Decided \cup {"bDelete"}
    PROVE  HandInv'
<1>1. \A c \in C : c[1] \in Requests /\ status'[c[1]] = s
  BY DEF SetStatus, RequestsOf, Copies
<1>2. \A c \in C : ~Unfinished(c[1])'
  BY <1>1 DEF Unfinished
<1>3. \A c \in C : ~JustClaimed(i, c)'
  BY DEF Moved, JustClaimed, Decided
<1>4. OnlyRows(C)
  BY DEF SetStatus, OnlyRows
<1> QED
  BY <1>2, <1>3, <1>4, MovedServes, ServesKeeps

LEMMA SingleRow == \A c, s : SetStatus({c[1]}, s) <=> SetStatus(RequestsOf({c}), s)
<1>1. \A c : RequestsOf({c}) = {c[1]}
  BY DEF RequestsOf
<1> QED
  BY <1>1

\* The catch blocks and recoveries: each writes a row that is not claimed any more
LEMMA WritingHand ==
    ASSUME InfraErrors = {}, TypeOK, NoneUnexpected, HandInv, OneJob,
           NEW i \in Instances, NEW c \in Copies,
           \/ FailUnfit(i, c) \/ MarkSigned(i, c) \/ HandleSigningError(i, c)
           \/ ReturnToPending(i, c)
    PROVE  HandInv'
<1>1. PICK st \in {"discard", "publish", "caught", "null", "idle"}, e \in Errors \cup {"none"},
           s \in {"PENDING", "RETRYING", "SIGNED", "FAILED"} :
         Moved(i, {c}, st, e) /\ SetStatus({c[1]}, s)
  <2>1. CASE FailUnfit(i, c)
    BY <2>1, Effects DEF FailUnfit, Stages
  <2>2. CASE MarkSigned(i, c)
    BY <2>2, Effects DEF MarkSigned, Stages
  <2>3. CASE HandleSigningError(i, c)
    <3> DEFINE e == job[i][c].err
    <3>1. SetStatus({c[1]}, StatusAfterError(e))
      BY <2>3 DEF HandleSigningError
    <3>2. StatusAfterError(e) \in {"RETRYING", "PENDING", "FAILED"}
      BY DEF StatusAfterError
    <3>3. (Raise(i, {c}, "caught", e) /\ e \in Errors) \/ Move(i, {c}, "null")
      BY <2>3 DEF HandleSigningError, IsNetworkError, IsRecoverableError, Errors
    <3>4. \/ Moved(i, {c}, "caught", e) /\ e \in Errors
          \/ Moved(i, {c}, "null", "none")
      BY <3>3, Effects DEF Stages
    <3> HIDE DEF e
    <3> QED
      BY <3>1, <3>2, <3>4
  <2>4. CASE ReturnToPending(i, c)
    BY <2>4, Effects DEF ReturnToPending, Stages
  <2> QED
    BY <2>1, <2>2, <2>3, <2>4
<1>2. owner' = owner /\ Busy(i, c)
  BY DEF FailUnfit, MarkSigned, HandleSigningError, ReturnToPending, Busy
<1>3. st \in Decided
  BY DEF Decided
<1> QED
  BY <1>1, <1>2, <1>3, SingleRow, DecidingHand

LEMMA RecoveringHand ==
    ASSUME InfraErrors = {}, TypeOK, NoneUnexpected, HandInv, OneJob,
           NEW i \in Instances, NEW c \in Copies,
           RecoverMember(i, c) \/ HandleProcessingError(i, c)
    PROVE  HandInv'
<1>1. owner' = owner /\ Busy(i, c) /\ job[i][c].at \in {"bRecover", "caught"}
  BY DEF RecoverMember, HandleProcessingError, Busy
<1>2. CASE Moved(i, {c}, "idle", "none") /\ SetStatus({c[1]}, "FAILED")
  BY <1>1, <1>2, SingleRow, DecidingHand DEF Decided
<1>3. CASE Moved(i, {c}, "idle", "none") /\ job[i][c].at = "caught" /\ status' = status
  BY <1>1, <1>3, DecidedKeeps DEF Decided
<1>4. CASE Moved(i, {c}, "requeue", "none") /\ job[i][c].at = "bRecover" /\ status' = status
  <2>1. ~JustClaimed(i, c)' /\ "requeue" \notin Decided
    BY <1>4 DEF Moved, JustClaimed, Decided
  <2> QED
    BY <1>1, <1>4, <2>1, KeptServes
<1>5. CASE RecoverMember(i, c)
  BY <1>2, <1>4, <1>5, Effects DEF RecoverMember, RecoverOnError, Stages
<1>6. CASE HandleProcessingError(i, c)
  <2>1. ~IsRequeuedError(job[i][c].err)
    BY <1>6 DEF HandleProcessingError, NoneUnexpected, Unexpected
  <2> QED
    BY <1>2, <1>3, <1>6, <2>1, Effects DEF HandleProcessingError, RecoverOnError, Stages
<1> QED
  BY <1>5, <1>6

\* Sends and deletions come after the row
LEMMA DoneHand ==
    ASSUME InfraErrors = {}, TypeOK, HandInv, OneJob,
           NEW i \in Instances, NEW c \in Copies,
           Discard(i, c) \/ Publish(i, c) \/ DeleteProcessed(i, c)
    PROVE  HandInv'
<1>1. PICK st \in {"idle", "delete"} : Moved(i, {c}, st, "none")
  BY Effects DEF Discard, Publish, DeleteProcessed, Stages
<1>2. owner' = owner /\ status' = status /\ job[i][c].at \in Decided
  BY DEF Discard, Publish, DeleteProcessed, Decided
<1>3. st \in Decided
  BY DEF Decided
<1> QED
  BY <1>1, <1>2, <1>3, DecidedKeeps

\* The owner check finds what the claim wrote.
LEMMA BeginSigningHand ==
    ASSUME InfraErrors = {}, TypeOK, HandInv, OneJob,
           NEW i \in Instances, NEW c \in Copies, BeginSigning(i, c)
    PROVE  HandInv'
<1>1. JustClaimed(i, c) /\ Busy(i, c) /\ c[1] \in Requests
  BY DEF BeginSigning, JustClaimed, Busy, Copies
<1>2. status[c[1]] = "VALIDATING" /\ Unfinished(c[1])
  BY <1>1 DEF HandInv, Unfinished
<1>3. owner[c[1]] = i
  BY <1>1, <1>2, OwnJob
<1>4. SetStatus({c[1]}, "SIGNING") /\ Move(i, {c}, "signing") /\ owner' = owner
  BY <1>3 DEF BeginSigning
<1>5. Moved(i, {c}, "signing", "none") /\ OnlyRows({c})
  BY <1>4, Effects, RowEffects DEF Stages
<1>6. ~JustClaimed(i, c)' /\ "signing" \notin Decided
  BY <1>5 DEF Moved, JustClaimed, Decided
<1> QED
  BY <1>1, <1>2, <1>4, <1>5, <1>6, MovedServes, ServesKeeps

\* The jobs of a batch at one stage, or some of them, go on with their rows kept.
LEMMA TogetherKept ==
    ASSUME TypeOK, HandInv, OneJob, NEW i \in Instances,
           NEW s \in Stages \ Decided, NEW C \in SUBSET At(i, s),
           NEW st \in Stages \ Decided, NEW e \in Errors \cup {"none"}, Raise(i, C, st, e),
           \A c \in C : JustClaimed(i, c)' => JustClaimed(i, c),
           owner' = owner, status' = status
    PROVE  HandInv'
<1>1. Moved(i, C, st, e)
  BY RaiseEffect
<1>2. C \in SUBSET Copies /\ \A c \in C : Busy(i, c)
  BY DEF At, Busy, Decided
<1> QED
  BY <1>1, <1>2, KeptServes

LEMMA GroupingHand ==
    ASSUME TypeOK, HandInv, OneJob, NEW i \in Instances, DecideBatching(i) \/ NextGroup(i)
    PROVE  HandInv'
<1>1. PICK s \in {"fresh", "grouped"}, st \in {"grouped", "single", "bCreate"} :
         \E C \in SUBSET At(i, s) : Raise(i, C, st, "none")
  <2>1. CASE DecideBatching(i)
    BY <2>1 DEF DecideBatching, Move
  <2>2. CASE NextGroup(i)
    <3>1. PICK t \in Tokens : \E st \in {"bCreate", "single"} :
                                 Move(i, OfToken(At(i, "grouped"), t), st)
      BY <2>2 DEF NextGroup
    <3>2. OfToken(At(i, "grouped"), t) \subseteq At(i, "grouped")
      BY DEF OfToken
    <3> QED
      BY <3>1, <3>2 DEF Move
  <2> QED
    BY <2>1, <2>2
<1>2. PICK C \in SUBSET At(i, s) : Raise(i, C, st, "none")
  BY <1>1
<1>3. \A c \in C : JustClaimed(i, c)
  BY DEF At, JustClaimed
<1>4. owner' = owner /\ status' = status
  BY DEF DecideBatching, NextGroup
<1>5. s \in Stages \ Decided /\ st \in Stages \ Decided
  BY DEF Stages, Decided
<1> QED
  BY <1>2, <1>3, <1>4, <1>5, TogetherKept

LEMMA SeparateHand ==
    ASSUME InfraErrors = {}, TypeOK, HandInv, OneJob, NEW i \in Instances,
           SeparateByTryCount(i)
    PROVE  HandInv'
<1> DEFINE C == {c \in Copies : job[i][c].at = "valid"}
           row == [c \in Copies |->
                     IF job[i][c].at # "valid" THEN job[i][c]
                     ELSE [Idle EXCEPT !.at = IF tried[c[1]] THEN "single" ELSE "fresh"]]
<1>1. status' = status /\ owner' = owner /\ job' = [job EXCEPT ![i] = row]
  BY DEF SeparateByTryCount
<1>2. \A d \in Copies : d \in C \/ row[d] = job[i][d]
  OBVIOUS
<1>3. \A d \in C : row[d].at \in {"single", "fresh"}
  BY DEF Idle
<1>4. \A d \in C : d \in Copies /\ Busy(i, d) /\ JustClaimed(i, d)
  BY DEF Busy, JustClaimed
<1> HIDE DEF row, C
<1>5. \A j \in Instances, d \in Copies :
         (j = i /\ d \in C) \/ job'[j][d].at = job[j][d].at
  BY <1>1, <1>2, Effects
<1>6. \A d \in C : job'[i][d].at \in {"single", "fresh"}
  BY <1>1, <1>3, <1>4, Effects
<1>7. \A d \in C : InHand(i, d)'
  BY <1>6 DEF InHand, Decided
<1>8. \A d \in C : status[d[1]] = "VALIDATING"
  BY <1>4 DEF HandInv
<1>9. Serves(i, C)
  BY <1>1, <1>4, <1>5, <1>7, <1>8 DEF Serves, OnlyRows, Unfinished
<1> QED
  BY <1>9, ServesKeeps

\* All members still have the rows of their claims, so the batch is created, or
\* preparing it failed.
LEMMA CreateBatchHand ==
    ASSUME InfraErrors = {}, TypeOK, HandInv, OneJob, NEW i \in Instances, CreateBatch(i)
    PROVE  HandInv'
<1> DEFINE C == At(i, "bCreate")
<1>1. \A c \in C : c \in Copies /\ JustClaimed(i, c) /\ Busy(i, c)
  BY DEF At, JustClaimed, Busy
<1>2. \A c \in C : status[c[1]] = "VALIDATING" /\ owner[c[1]] = i /\ Unfinished(c[1])
  BY <1>1, OwnJob DEF HandInv, Unfinished
<1>3. \A r \in RequestsOf(C) : status[r] = "VALIDATING" /\ owner[r] = i
  BY <1>2 DEF RequestsOf
<1>4. owner' = owner
  BY DEF CreateBatch
<1>5. \/ SetStatus(RequestsOf(C), "SIGNING") /\ Move(i, C, "bSign")
      \/ \E e \in BatchErrors : Raise(i, C, "bRefused", e) /\ status' = status
  BY <1>3 DEF CreateBatch, Group
<1>6. CASE SetStatus(RequestsOf(C), "SIGNING") /\ Move(i, C, "bSign")
  <2>1. Moved(i, C, "bSign", "none") /\ OnlyRows(C)
    BY <1>6, Effects, RowEffects DEF Stages
  <2>2. \A c \in C : ~JustClaimed(i, c)'
    BY <1>1, <2>1 DEF Moved, JustClaimed
  <2>3. "bSign" \notin Decided /\ C \in SUBSET Copies
    BY <1>1 DEF Decided
  <2> HIDE DEF C
  <2> QED
    BY <1>1, <1>2, <1>4, <2>1, <2>2, <2>3, MovedServes, ServesKeeps
<1>7. CASE \E e \in BatchErrors : Raise(i, C, "bRefused", e) /\ status' = status
  <2>1. {"bCreate", "bRefused"} \subseteq Stages \ Decided
    BY DEF Stages, Decided
  <2> QED
    BY <1>1, <1>4, <1>7, <2>1, TogetherKept, ErrorsAssumption
<1> QED
  BY <1>5, <1>6, <1>7

LEMMA SignBatchHand ==
    ASSUME InfraErrors = {}, TypeOK, HandInv, OneJob, NEW i \in Instances, SignBatch(i)
    PROVE  HandInv'
<1> DEFINE C == At(i, "bSign")
<1>1. PICK st \in {"bSigned", "bBroken"}, e \in Errors \cup {"none"} : Raise(i, C, st, e)
  BY ErrorsAssumption DEF SignBatch, Move
<1>2. st \in Stages \ Decided /\ "bSign" \in Stages \ Decided
  BY DEF Stages, Decided
<1>3. Moved(i, C, st, e)
  BY <1>1, <1>2, RaiseEffect
<1>4. owner' = owner /\ status' = status
  BY DEF SignBatch
<1>5. \A c \in C : ~JustClaimed(i, c)'
  BY <1>3 DEF Moved, JustClaimed, At
<1> QED
  BY <1>1, <1>2, <1>4, <1>5, TogetherKept

LEMMA HandleBatchErrorHand ==
    ASSUME InfraErrors = {}, TypeOK, HandInv, OneJob, NEW i \in Instances,
           HandleBatchError(i)
    PROVE  HandInv'
<1>1. PICK s \in {"bBroken", "bRefused"}, f \in Errors :
         LET C == {c \in At(i, s) : job[i][c].err = f}
         IN  /\ \E e \in Errors \cup {"none"} :
                   \/ Raise(i, C, "bRecover", e)
                   \/ Raise(i, C, IF s = "bBroken" THEN "bAbort" ELSE "bAbortUnbatched", e)
             /\ status' = status /\ owner' = owner
  BY DEF HandleBatchError, Move
<1> DEFINE C == {c \in At(i, s) : job[i][c].err = f}
<1>2. C \in SUBSET At(i, s)
  OBVIOUS
<1>3. PICK st \in {"bRecover", "bAbort", "bAbortUnbatched"}, e \in Errors \cup {"none"} :
         Raise(i, C, st, e) /\ (st = "bAbortUnbatched" => s = "bRefused")
  BY <1>1
<1>4. status' = status /\ owner' = owner
  BY <1>1
<1>5. s \in Stages \ Decided /\ st \in Stages \ Decided
  BY DEF Stages, Decided
<1> HIDE DEF C
<1>6. \A c \in C : JustClaimed(i, c)' => JustClaimed(i, c)
  <2>1. Moved(i, C, st, e)
    BY <1>3, <1>5, RaiseEffect
  <2>2. \A c \in C : c \in Copies /\ job[i][c].at = s /\ job'[i][c].at = st
    BY <1>2, <2>1 DEF Moved, At
  <2> QED
    BY <1>3, <2>2 DEF JustClaimed
<1> QED
  BY <1>2, <1>3, <1>4, <1>5, <1>6, TogetherKept

\* Every row of the batch is written: those of a refused one, too, for the instance
\* still owns what it claimed.
LEMMA WholeBatchHand ==
    ASSUME InfraErrors = {}, TypeOK, HandInv, OneJob, NEW i \in Instances,
           MarkBatchSigned(i) \/ AbortBatch(i) \/ AbortUnbatched(i)
    PROVE  HandInv'
<1>1. PICK s \in {"bSigned", "bAbort", "bAbortUnbatched"}, st \in {"bDelete", "bPurge"},
           w \in {"SIGNED", "FAILED"} :
         Move(i, At(i, s), st) /\ SetStatus(RequestsOf(At(i, s)), w)
  <2>1. CASE MarkBatchSigned(i)
    BY <2>1 DEF MarkBatchSigned
  <2>2. CASE AbortBatch(i)
    BY <2>2 DEF AbortBatch
  <2>3. CASE AbortUnbatched(i)
    <3> DEFINE C == At(i, "bAbortUnbatched")
               Owned == {r \in RequestsOf(C) : owner[r] = i}
    <3>1. \A c \in C : c \in Copies /\ JustClaimed(i, c) /\ Busy(i, c)
      BY DEF At, JustClaimed, Busy
    <3>2. \A c \in C : owner[c[1]] = i
      BY <3>1, OwnJob DEF HandInv, Unfinished
    <3>3. Owned = RequestsOf(C)
      BY <3>2 DEF RequestsOf
    <3>4. SetStatus(Owned, "FAILED") /\ Move(i, C, "bPurge")
      BY <2>3 DEF AbortUnbatched
    <3> QED
      BY <3>3, <3>4
  <2> QED
    BY <2>1, <2>2, <2>3
<1> DEFINE C == At(i, s)
<1>2. Moved(i, C, st, "none")
  BY <1>1, Effects DEF Stages
<1>3. C \in SUBSET Copies /\ \A c \in C : Busy(i, c)
  BY DEF At, Busy
<1>4. owner' = owner
  BY DEF MarkBatchSigned, AbortBatch, AbortUnbatched
<1>5. st \in Decided \cup {"bDelete"}
  BY DEF Decided
<1>6. SetStatus(RequestsOf(C), w)
  BY <1>1
<1> HIDE DEF C
<1> QED
  BY <1>2, <1>3, <1>4, <1>5, <1>6, DecidingHand

\* What comes after the rows of a batch
LEMMA BatchDoneHand ==
    ASSUME InfraErrors = {}, TypeOK, HandInv, OneJob, NEW i \in Instances,
           Receive(i) \/ SkipBatch(i) \/ DeleteBatch(i) \/ SendBatch(i) \/ PurgeBatch(i)
    PROVE  HandInv'
<1>1. PICK s \in {"idle", "bSkip", "bDelete", "bSend", "bPurge"},
           st \in {"received", "idle", "bSend"} :
         \E C \in SUBSET At(i, s) : Move(i, C, st)
  <2>1. CASE Receive(i)
    BY <2>1 DEF Receive
  <2>2. CASE SkipBatch(i)
    BY <2>2 DEF SkipBatch, DeleteAll
  <2>3. CASE DeleteBatch(i)
    BY <2>3 DEF DeleteBatch, DeleteAll
  <2>4. CASE SendBatch(i)
    BY <2>4 DEF SendBatch
  <2>5. CASE PurgeBatch(i)
    BY <2>5 DEF PurgeBatch, DeleteAll
  <2> QED
    BY <2>1, <2>2, <2>3, <2>4, <2>5
<1>2. PICK C \in SUBSET At(i, s) : Move(i, C, st)
  BY <1>1
<1>3. Moved(i, C, st, "none")
  BY <1>2, Effects DEF Stages
<1>4. C \in SUBSET Copies /\ \A c \in C : job[i][c].at \in Decided
  BY DEF At, Decided
<1>5. st \in Decided
  BY DEF Decided
<1>6. owner' = owner /\ status' = status
  BY DEF Receive, SkipBatch, DeleteBatch, SendBatch, PurgeBatch
<1> QED
  BY <1>3, <1>4, <1>5, <1>6, DecidedKeeps

LEMMA ClaimHand ==
    ASSUME InfraErrors = {}, TypeOK, HandInv, OneJob,
           NEW i \in Instances, NEW c \in Copies, Claim(i, c)
    PROVE  HandInv'
<1>1. job[i][c].at = "received" /\ c[1] \in Requests
  BY DEF Claim, Copies
<1>2. CASE Move(i, {c}, "discard") /\ UNCHANGED <<status, owner>>
  <2>1. Moved(i, {c}, "discard", "none")
    BY <1>2, Effects DEF Stages
  <2> QED
    BY <1>1, <1>2, <2>1, DecidedKeeps DEF Decided
<1>3. CASE /\ SetStatus({c[1]}, "VALIDATING") /\ Move(i, {c}, "claimed")
           /\ owner' = [owner EXCEPT ![c[1]] = i]
  <2>1. Moved(i, {c}, "claimed", "none")
    BY <1>3, Effects DEF Stages
  <2>2. \A r \in Requests :
           /\ status'[r] = IF r = c[1] THEN "VALIDATING" ELSE status[r]
           /\ owner'[r] = IF r = c[1] THEN i ELSE owner[r]
    BY <1>3 DEF SetStatus, TypeOK
  <2>3. ASSUME NEW r \in Requests, Unfinished(r)'
        PROVE  Claimed(r)'
    <3>1. CASE r = c[1]
      <4>1. InHand(i, c)'
        BY <2>1 DEF Moved, InHand, Decided
      <4> QED
        BY <2>2, <3>1, <4>1 DEF Claimed
    <3>2. CASE r # c[1]
      <4>1. PICK j \in Instances, d \in Copies : d[1] = r /\ owner[r] = j /\ InHand(j, d)
        BY <2>2, <2>3, <3>2 DEF Unfinished, HandInv, Claimed
      <4>2. job'[j][d] = job[j][d]
        BY <2>1, <3>2, <4>1 DEF Moved
      <4> QED
        BY <2>2, <3>2, <4>1, <4>2 DEF InHand, Claimed
    <3> QED
      BY <3>1, <3>2
  <2>4. ASSUME NEW j \in Instances, NEW d \in Copies, JustClaimed(j, d)'
        PROVE  status'[d[1]] = "VALIDATING"
    <3>1. d[1] \in Requests
      BY DEF Copies
    <3>2. CASE d[1] = c[1]
      BY <2>2, <3>1, <3>2
    <3>3. CASE d[1] # c[1]
      <4>1. job'[j][d] = job[j][d]
        BY <2>1, <3>3 DEF Moved
      <4> QED
        BY <2>2, <2>4, <3>1, <3>3, <4>1 DEF HandInv, JustClaimed
    <3> QED
      BY <3>2, <3>3
  <2> QED
    BY <2>3, <2>4 DEF HandInv
<1> QED
  BY <1>2, <1>3 DEF Claim

LEMMA WorkerHand ==
    ASSUME InfraErrors = {}, TypeOK, NoneUnexpected, HandInv, OneJob,
           NEW i \in Instances, Worker(i)
    PROVE  HandInv'
<1>1. ASSUME NEW c \in Copies, MessageStep(i, c)
      PROVE  HandInv'
  BY <1>1, ReadingHand, WritingHand, RecoveringHand, DoneHand, BeginSigningHand, ClaimHand
     DEF MessageStep
<1>2. CASE BatchStep(i)
  BY <1>2, GroupingHand, SeparateHand, CreateBatchHand, SignBatchHand, HandleBatchErrorHand,
     WholeBatchHand, BatchDoneHand
     DEF BatchStep
<1> QED
  BY <1>1, <1>2 DEF Worker

LEMMA NextHand ==
    ASSUME InfraErrors = {}, Unstable = {}, TypeOK, NoneUnexpected, HandInv, OneJob,
           [Next]_vars
    PROVE  HandInv'
<1>1. CASE UNCHANGED <<status, owner, job>>
  BY <1>1 DEF HandInv, Unfinished, Claimed, InHand, JustClaimed
<1>2. \A i \in Instances : ~Crash(i)
  BY DEF Crash
<1> QED
  BY <1>1, <1>2, WorkerHand DEF Next, Redeliver, Start, vars

\* When no call of the database, of Redis or of SQS fails and no instance stops, no
\* request is left behind, whatever signing reports and however requests go round
\* between the queue, batches and single attempts: one that is PENDING has a message
\* that brings it back, and one that is VALIDATING or SIGNING has a job that has yet
\* to write its row.  Both assumptions are needed: a crash, or an error between the
\* claim and that write, leaves the row as it is.
THEOREM NobodyIsStranded ==
    ASSUME MaxLive <= 1, InfraErrors = {}, Unstable = {}
    PROVE  Spec => []NoneStranded
<1> DEFINE All == KeepInv /\ PendingWaits /\ TurnInv /\ HandInv
<1>1. Steady
  BY DEF Steady
<1>2. Init => All
  <2>1. Init => HandInv
    <3> SUFFICES ASSUME Init PROVE HandInv
      OBVIOUS
    <3>1. \A i \in Instances, c \in Copies : job[i][c].at = "idle"
      BY DEF Init, Idle
    <3> QED
      BY <3>1 DEF Init, HandInv, Unfinished, JustClaimed
  <2> QED
    BY <2>1, InitKeeps, InitTurn
<1>3. Inv /\ All /\ [Next]_vars => All'
  <2> SUFFICES ASSUME Inv, All, [Next]_vars PROVE All'
    OBVIOUS
  <2>1. Advances
    BY <1>1, NextAdvances
  <2>2. (KeepInv /\ PendingWaits)'
    BY NextKeeps DEF Inv, Keeps, PendingWaits
  <2>3. HandInv'
    BY NextHand DEF Inv, TurnInv
  <2> QED
    BY <2>1, <2>2, <2>3 DEF Advances
<1>4. All => NoneStranded
  <2>1. PendingWaits => PendingHasMessage
    BY DEF PendingWaits, Waits, PendingHasMessage, OnQueue
  <2>2. HandInv => \A r \in Requests : status[r] \in {"VALIDATING", "SIGNING"} =>
                      \E i \in Instances, c \in Copies :
                         c[1] = r /\ owner[r] = i /\ job[i][c].at \notin Decided
    BY DEF HandInv, Unfinished, Claimed, InHand
  <2> QED
    BY <2>1, <2>2 DEF NoneStranded
<1> QED
  BY <1>2, <1>3, <1>4, Invariance, PTL DEF Spec

=============================================================================
