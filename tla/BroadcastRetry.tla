--------------------------- MODULE BroadcastRetry ---------------------------
(***************************************************************************)
(* broadcastWithRetry of the broadcaster's worker with what it rests on:   *)
(* the state-managing broadcast of Broadcaster, the row updates of         *)
(* TransactionService and the decisions of RetryService.  The worker that  *)
(* runs does not call it yet, it broadcasts without retries (see           *)
(* TxBroadcaster); here one call for one transaction is followed.          *)
(*                                                                         *)
(* An error is its code and the set of fragments its text contains, which  *)
(* is all that the patterns of RetryService tell apart.  Delays are left   *)
(* out.                                                                    *)
(***************************************************************************)
EXTENDS Naturals

CONSTANTS
    MaxRetries,   \* config.maxRetries, at least 1: 0 falls back to the default
    Codes,        \* codes of the errors of the node, "none" for one without code
    NodeTexts,    \* texts of the errors of the node
    DbTexts       \* texts of the errors of the database, {} when it never fails

Fragments == {"nonce too low", "nonce too high", "pending", "nonce", "refusal", "outage"}

ASSUME RetryAssumption ==
    /\ MaxRetries \in Nat \ {0}
    /\ NodeTexts \subseteq SUBSET Fragments
    /\ DbTexts \subseteq SUBSET Fragments

VARIABLES
    kind,      \* transactionType
    request,   \* status of the row, or of all rows of the batch
    signedRow, \* status of the signed transaction's row
    onChain,   \* was the transaction taken by the node?
    attempt,   \* attemptCount
    place,     \* the await at which the call stands
    text,      \* text of the error it carries
    dbFailed   \* history: did a call to the database fail?

retryVars == <<kind, request, signedRow, onChain, attempt, place, text, dbFailed>>

RowStatus == {"SIGNED", "BROADCASTING", "BROADCASTED", "FAILED"}

RetryPlaces == {"mark", "markSigned", "send", "record", "recordSigned", "fail", "failSigned",
           "caught", "caughtSigned", "decide", "succeeded", "conflict", "gaveUp"}

RetryTypeOK ==
    /\ kind \in {"SINGLE", "BATCH"}
    /\ {request, signedRow} \subseteq RowStatus
    /\ {onChain, dbFailed} \subseteq BOOLEAN
    /\ attempt \in 0..MaxRetries
    /\ place \in RetryPlaces
    /\ text \subseteq Fragments

RetryInit ==
    /\ kind \in {"SINGLE", "BATCH"}
    /\ request = "SIGNED"
    /\ signedRow = "SIGNED"
    /\ onChain = FALSE
    /\ attempt = 0
    /\ place = "mark"
    /\ text = {}
    /\ dbFailed = FALSE

----------------------------------------------------------------------------
(* Errors *)

\* What handleBroadcastError writes when the error has no text of its own
DefaultText(code) ==
    CASE code = "INSUFFICIENT_FUNDS" -> {"refusal"}
      [] code = "NONCE_TOO_HIGH" -> {"nonce too high"}
      [] code = "NONCE_TOO_LOW" -> {"nonce too low"}
      [] code \in {"NONCE_EXPIRED", "REPLACEMENT_UNDERPRICED"} -> {"nonce"}
      [] code = "TIMEOUT" -> {"outage"}
      [] OTHER -> {}

\* The result keeps the text; its code is not looked at again
TextOf(code, own) == IF own = {} THEN DefaultText(code) ELSE own

\* detectNonceConflict
IsNonceConflict(t) == t \cap {"nonce too low", "nonce too high", "pending", "nonce"} # {}

\* isRetryableErrorMessage: the patterns of refusal are tried first
IsRetryableText(t) == "refusal" \notin t /\ "outage" \in t

----------------------------------------------------------------------------
(* One attempt: broadcastTransactionWithStateManagement and its batch form *)

\* A statement of the database fails at this place: where the call goes on
DbFails(next) ==
    \E t \in DbTexts :
      /\ text' = t
      /\ dbFailed' = TRUE
      /\ place' = next
      /\ UNCHANGED <<request, signedRow>>

Done(next) == place' = next /\ UNCHANGED <<text, dbFailed>>

MarkBroadcasting ==
    /\ place = "mark"
    /\ \/ /\ request' = "BROADCASTING"
          /\ Done(IF kind = "SINGLE" THEN "markSigned" ELSE "send")
          /\ UNCHANGED signedRow
       \/ DbFails("caught")
    /\ UNCHANGED <<kind, onChain, attempt>>

MarkSignedBroadcasting ==
    /\ place = "markSigned"
    /\ \/ signedRow' = "BROADCASTING" /\ Done("send") /\ UNCHANGED request
       \/ DbFails("caught")
    /\ UNCHANGED <<kind, onChain, attempt>>

\* The node takes the transaction, once; the answer may get lost
NodeTakes ==
    /\ place = "send" /\ ~onChain
    /\ onChain' = TRUE
    /\ \/ Done("record")
       \/ text' = DefaultText("TIMEOUT") /\ place' = "fail" /\ UNCHANGED dbFailed
    /\ UNCHANGED <<kind, request, signedRow, attempt>>

\* It refuses it, or is not reached; a second copy is known, or mined already
NodeRefuses ==
    /\ place = "send"
    /\ IF onChain THEN text' \in {{"pending"}, {"nonce too low"}, {"outage"}}
       ELSE \E code \in Codes, own \in NodeTexts : text' = TextOf(code, own)
    /\ place' = "fail"
    /\ UNCHANGED <<kind, request, signedRow, onChain, attempt, dbFailed>>

RecordBroadcasted ==
    /\ place = "record"
    /\ \/ request' = "BROADCASTED" /\ Done("recordSigned") /\ UNCHANGED signedRow
       \/ DbFails("caught")
    /\ UNCHANGED <<kind, onChain, attempt>>

RecordSignedBroadcasted ==
    /\ place = "recordSigned"
    /\ \/ /\ signedRow' = "BROADCASTED"
          /\ place' = "succeeded" /\ attempt' = attempt + 1
          /\ UNCHANGED <<request, text, dbFailed>>
       \/ DbFails("caught") /\ UNCHANGED attempt
    /\ UNCHANGED <<kind, onChain>>

\* updateToFailed, after a refusal; its own failure is caught and it runs again
RecordFailed ==
    /\ place = "fail"
    /\ \/ /\ request' = "FAILED"
          /\ Done(IF kind = "SINGLE" THEN "failSigned" ELSE "decide")
          /\ UNCHANGED signedRow
       \/ DbFails("caught")
    /\ UNCHANGED <<kind, onChain, attempt>>

RecordSignedFailed ==
    /\ place = "failSigned"
    /\ \/ signedRow' = "FAILED" /\ Done("decide") /\ UNCHANGED request
       \/ DbFails("caught")
    /\ UNCHANGED <<kind, onChain, attempt>>

\* updateToFailed in the catch block: the error that led there is kept
CatchFailed ==
    /\ place = "caught"
    /\ \/ /\ request' = "FAILED"
          /\ Done(IF kind = "SINGLE" THEN "caughtSigned" ELSE "decide")
       \/ DbTexts # {} /\ Done("decide") /\ UNCHANGED request
    /\ UNCHANGED <<kind, signedRow, onChain, attempt>>

CatchSignedFailed ==
    /\ place = "caughtSigned"
    /\ signedRow' = "FAILED" \/ (DbTexts # {} /\ UNCHANGED signedRow)
    /\ Done("decide")
    /\ UNCHANGED <<kind, request, onChain, attempt>>

----------------------------------------------------------------------------
(* After a failed attempt *)

\* Mutant: the last attempt is not made
DecideEarly(t, n) ==
    IF IsNonceConflict(t) THEN "conflict"
    ELSE IF n + 1 < MaxRetries /\ IsRetryableText(t) THEN "mark"
    ELSE "gaveUp"

\* detectNonceConflict first, then shouldRetry
Decide(t, n) ==
    IF IsNonceConflict(t) THEN "conflict"
    ELSE IF n < MaxRetries /\ IsRetryableText(t) THEN "mark"
    ELSE "gaveUp"

AfterFailure ==
    /\ place = "decide"
    /\ attempt' = attempt + 1
    /\ place' = Decide(text, attempt + 1)
    /\ UNCHANGED <<kind, request, signedRow, onChain, text, dbFailed>>

RetryNext ==
    \/ MarkBroadcasting \/ MarkSignedBroadcasting \/ NodeTakes \/ NodeRefuses
    \/ RecordBroadcasted \/ RecordSignedBroadcasted \/ RecordFailed \/ RecordSignedFailed
    \/ CatchFailed \/ CatchSignedFailed \/ AfterFailure

RetrySpec == RetryInit /\ [][RetryNext]_retryVars

----------------------------------------------------------------------------
(* Properties *)

\* The outcome and the rows agree: a success left the transaction on the chain
\* and both rows BROADCASTED; any other end left the request FAILED, and the
\* signed row of a single too, unless a call to the database failed; and what is
\* given up was refused for good or tried MaxRetries times (broadcastWithRetry).
OutcomeTrue ==
    /\ place = "succeeded" => onChain /\ request = "BROADCASTED" /\ signedRow = "BROADCASTED"
    /\ place \in {"conflict", "gaveUp"} /\ ~dbFailed =>
         request = "FAILED" /\ signedRow = (IF kind = "SINGLE" THEN "FAILED" ELSE "SIGNED")
    /\ place = "gaveUp" => attempt = MaxRetries \/ "refusal" \in text \/ "outage" \notin text
    /\ request = "BROADCASTED" => onChain
=============================================================================
