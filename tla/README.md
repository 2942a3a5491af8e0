# Asset withdrawal: a TLA+ model

This directory specifies the withdrawal pipeline of this repository in TLA+:
modules translated from the TypeScript sources, TLC configurations that check
them on small instances, and proofs, checked by TLAPS, of what matters most for
instances of any size. `PROJECT.json` lists the same things for tools: which
definition stands for which lines, which run checks what, which change of a
definition breaks which property, which hazard each property is for.

To repeat a check, inside this directory:

    tlc -workers 2 -config SigningWorkerTwo.cfg MCSigningWorker
    tlapm SigningWorkerProofs.tla
    tlapm NonceAllocationProofs.tla
    tlapm TxBroadcasterProofs.tla
    tlapm WithdrawalApiProofs.tla
    tlapm SequenceFacts.tla
    tlapm PartsProofs.tla
    tlapm TxMonitorProofs.tla
    tlapm RecoveryServiceProofs.tla

## The system

A withdrawal is a row of the table `withdrawalRequest` and a message that moves
through three SQS queues.

    client -> api-server -> tx-request-queue -> signing-service (n instances)
           -> signed-tx-queue -> tx-broadcaster (n workers) -> blockchain node
           -> broadcast-tx-queue -> tx-monitor -> row SENT/CONFIRMED/FAILED
    dead-letter queues -> recovery-service

MySQL holds the rows, Redis the nonce counter, the pool of returned nonces, the
broadcaster's locks and its last broadcast nonce. SQS delivers at least once: a
message is hidden for 30 seconds when it is received and delivered again unless
it was deleted in time. All components are single-threaded event loops, so steps
interleave at awaits only, but the number of processes is not limited.

### Inventory

| part | state it keeps | operations | what is hard | what makes it correct |
|---|---|---|---|---|
| api-server, `routes/withdrawal.ts` | row | create row, send message, mark FAILED when the send fails, read status | crash between row and message; a send that fails after it was accepted; the FAILED write overwrites any status | a PENDING row has a message; a request reported as refused is not paid |
| signing worker, `signing-worker.ts`, `base-worker.ts` | row status, owner, tryCount; messages in flight; batch rows | receive, claim, validate, sign alone, sign as Multicall batch, publish, delete, error recovery | two instances, redelivery, crash after a claim, errors between any two of the five awaits that end a request, promises that outlive their batch | no request is paid twice; claims exclude each other; every accepted request ends |
| queue recovery, `queue-recovery.service.ts` | row status, messages | requeue after an error, FAILED otherwise | message sent before the row is PENDING | a requeued request is processed again |
| nonce cache and pool, `nonce-cache.service.ts`, `nonce-pool.service.ts`, `transaction-signer.ts` | Redis counter with a 24 h expiry, sorted set of returned nonces | initialise, INCR, synchronise with the node, return a nonce | GET and SET around an INCR; expiry; several signers per process | no two transactions carry one nonce; a pooled nonce is in no transaction |
| broadcaster, `sqs-worker.ts`, `redis-client.ts` | processing locks, broadcast marks, retry counts | receive, lock, broadcast, mark, update row, send result, retry, DLQ | lock read before it is taken, locks deleted at start, crash between broadcast and mark | a transaction accepted by the node is reported; a message is deleted only when its transaction went on |
| nonce manager, `nonce-manager.ts` | memory buffer, last broadcast nonce (memory and Redis), gap timer | expected nonce, buffer, take consecutive nonces, search the queue for missing ones | the buffer is only memory; pool nonces taken as expected; a failure in the middle of a sequence | nonces go out in order; nothing buffered is lost |
| monitor, `monitor.service.ts`, `polling.service.ts` | map of active transactions, rows of `sentTransaction` | add, check, poll by age tier, react to blocks | three callers check one transaction concurrently; node errors count as retries | a confirmed transaction is never written FAILED; statuses go forward |
| monitor's connection, `chain.service.ts`, `websocket.service.ts` | cached provider, state of the connection, block listener, reconnection timers | get a provider, set up, subscribe, disconnect, reconnect | `getProvider` overwrites its cache after an await, calls overlap, events of old sockets come late | the end of a connection believed to be up is noticed; setting one up ends |
| recovery service, `priority-queue.service.ts` and others | queue in memory | enqueue by priority, dequeue ready, schedule retry, remove | insertion by binary search, capacity, priorities computed once | sorted by priority, first in first out among equals |
| shared and database packages | none of their own | SQS client, error classifier, status updates | which messages an error class matches | the classes the modules distinguish |
| test console, local chain, scripts | none | developer tools | - | not part of the system |

### Modules

| module | models | extends or uses |
|---|---|---|
| `SigningWorker` | the signing service's workers on tx-request-queue | implements `SignOnce` |
| `WithdrawalApi` | POST /request in front of the workers | extends `SigningWorker` |
| `NonceAllocation` | the nonce counter and the pool | implements `NonceOnce` |
| `BatchSigning` | gas, fee, split, nonce and signature of a call of the signer | |
| `TxBroadcaster` | the broadcaster's worker, its Redis keys and its buffer | |
| `PendingList` | the Redis list of pending transactions and its timer | |
| `BroadcastRetry` | broadcastWithRetry, the row updates and the retry decision | |
| `ChainConnection` | the monitor's provider, connection and block listener | |
| `TxMonitor` | checks of a transaction and the map | extends `ChainConnection` |
| `PriorityQueue`, `DlqMonitor`, `RecoveryOrchestrator` | the recovery service | `PriorityQueue` implements `MostUrgent` |
| `RecoveryService` | the three of them as one process | |
| `Parts` | `BatchSigning`, `PendingList`, `BroadcastRetry` and `RecoveryService` side by side | |
| `SignOnce`, `NonceOnce`, `MostUrgent` | what is promised: a request is signed at most once, a nonce is put to one use, the most urgent message is taken | abstract, with no code of their own |
| `SigningWorkerProofs`, `WithdrawalApiProofs`, `NonceAllocationProofs`, `TxBroadcasterProofs`, `TxMonitorProofs`, `RecoveryServiceProofs` | the theorems about the module they are named after | |
| `PartsProofs` | the theorems about `BatchSigning`, `PendingList`, `BroadcastRetry` and `Parts` | |
| `SequenceFacts` | lemmas about searching, inserting, removing, counting and joining sequences, for the two before | |
| `MC...` | constants for TLC | |

`Parts` runs parts that have no variable in common. They all start in
their initial states, and `focus`, chosen once, names the one that moves; the rest is
unchanged. So the run `parts` explores each part by itself, and what holds there holds of any
interleaving, because no action of one part reads or writes a variable of another.

### Plan

The order is that of what can go wrong with money, then with progress.

1. `SigningWorker`, its abstraction `SignOnce`, and `SigningWorkerProofs`: done.
2. `NonceAllocation` and `NonceAllocationProofs`: done.
3. `TxBroadcaster` and `TxBroadcasterProofs`: done.
4. `WithdrawalApi`, the API composed with the signing stage, and its proofs: done.
5. `ChainConnection`, `TxMonitor` and `TxMonitorProofs`: done.
6. The recovery service and `RecoveryServiceProofs`, with the refinement of `MostUrgent` by
   `PriorityQueue`: done.
7. `BatchSigning`, `PendingList`, `BroadcastRetry`, with `PartsProofs` and the lemmas on
   sequences they rest on, and `Parts`, which puts them beside the recovery service: done.
8. Open: the composition of broadcaster and monitor, whose messages are the results;
   the gap timer of an address; the mode without batches.

## SigningWorker

**State.** `status`, `owner` and `tried` are the columns `status`,
`processingInstanceId` and `tryCount > 0` of a row. `msg` gives each message of
tx-request-queue its place: `unsent`, `visible`, `deleted`, or the instance whose
receipt hides it. `job[i][c]` says where instance `i` stands with message `c`
(`at`), the class of error it is carrying (`err`), and whether its batch has
already ended without waiting for it (`late`). `life` is the life cycle of an
instance id; a restart is another id, as in the code, where the id contains the
process id and the start time. `published` counts the signed transactions sent
for a request, `nullSent` records the messages with a null body that requests
without a signature cause.

**Actions.** One per await of `processBatch` and what it calls, in the order of
the code; a comment at each names what it stands for.

| code | actions |
|---|---|
| `processLoop` | `Receive`, `Start`, `Crash` |
| `claimMessages` | `Claim`, `Discard` |
| `validateMessages`, FAILED for what it rejects | `Validate`, `FailUnfit`, `Discard` |
| `separateMessagesByTryCount`, `shouldUseBatchProcessing`, `processBatchTransactions` | `SeparateByTryCount`, `DecideBatching`, `NextGroup` |
| `processSingleTransactions` | `EstimateGas`, `AllocateNonce`, `Publish`, `DeleteProcessed`, `HandleProcessingError`, `Abandon` |
| `processMessage` | `BeginSigning`, `Sign`, `MarkSigned`, `HandleSigningError` |
| `recoverTransactionOnError`, `handleNonceCollision` | `RecoverOnError`, `SendToRequestQueue`, `ReturnToPending` |
| `processBatchGroup`, `createBatchWithLocking` | `CreateBatch`, `SkipBatch`, `SignBatch`, `MarkBatchSigned`, `DeleteBatch`, `SendBatch`, `HandleBatchError`, `RecoverMember`, `AbortBatch`, `AbortUnbatched`, `PurgeBatch` |
| SQS visibility timeout | `Redeliver` |

A database statement runs or fails without effect. A send may report an error
after the message was accepted. A deletion by a receipt that is no longer the
last one may or may not delete. Error texts are reduced to the five classes that
the three lists in the code (`isNetworkError`, `isRecoverableError`, the list of
the recovery service) tell apart.

Steps of one batch wait for each other where the code awaits a loop or a
`Promise.all`: `In(i, ...) = {}` in a guard is that barrier. The one place where
the barrier fails is modelled too: when a deletion throws inside the catch block
of `processSingleTransactions`, `Promise.all` rejects, the batch ends, and the
promises that still run become `late` jobs beside the next batch.

**Bounds.** `MaxCopies` messages per request: with 2, a first message and one
requeue, which is all there is, because only the batch path requeues and a
request is batched only while it was never tried. `MaxLive` live instances,
`Instances` ids overall, batches of `BatchSize`. A late job's message is not
received again by the same instance. One token contract in the runs; the
grouping by token is in the model.

**Properties and runs.**

| run | instance | shows |
|---|---|---|
| `SigningWorkerTwo` | 2 live instances that may crash, 1 request, 2 messages, all error classes | `ExclusiveClaim`, `InPlayUnpaid`, and that the stage implements `SignOnce` (`RefinesSignOnce`) |
| `SigningWorkerBatches` | 2 live instances that may crash, 2 requests that one instance signs as a batch and the other alone, 1 message each, failing updates and sends | `AtMostOnePublished`, also when a row is failed between its claim and its batch (`SkipBatch`) |
| `SigningWorkerSettles` | 1 instance that keeps running, 2 requests, signing errors | `Settles` (liveness), `NoneStranded`, `FailedNotPublished` |
| `SigningWorkerCrash` | an instance crashes, another takes over | `Settles` fails: finding 1 |

Two live instances are enough for each race the code has: all of them are
between one job that stands between two awaits and one other that acts. Two
requests are enough for a batch with something to disagree about.

**Fairness** (`FairSpec`, used by `Settles` only). An instance that runs takes a
step when it can: an event loop with a pending continuation runs it (`WF` of
`Worker` and `Start`). A hidden message becomes visible again (`WF` of
`Redeliver`): SQS's visibility timeout. A message that is visible again and again
is received at some time (`SF` of receiving each message): SQS does not pass over
a message for ever. No fairness is assumed of `Crash`, of errors, or of the
choice between an error and a success.

`NoneStranded` is the safety half of `Settles`: at every moment a request that has not ended
has something that will take it further, a message if it is PENDING (`PendingHasMessage`), and if
it is VALIDATING or SIGNING a job, of the instance named in its row, that has yet to write that row. `Settles`
adds, under fairness, that the requests do not go round for ever.

Crashes and failing calls with one live instance and requeues are in the run
`withdrawals`, which has the API in front of this stage: `WaitingIsQueued` there is
`PendingHasMessage` with what the API does, and `OnlySignedPublished` says that nothing
is sent for a row that does not say SIGNED.

**Finding 1.** A request whose instance crashes after the claim stays VALIDATING or
SIGNING for ever. The redelivered message is rejected, because the row is not
PENDING, and deleted. `base-worker.ts:194` and `docs/TRANSACTION_LIFECYCLE.md:166`
expect it to be processed again.

**Known behaviour.** Three things the model does that the properties leave out, each by
a restriction of the run that checks the property:

- `handleNonceCollision` sends the new message before the row is PENDING
  (`queue-recovery.service.ts:491`, `:494`). An instance that receives it in between
  deletes it; the row then waits PENDING without a message. `NoneStranded` and
  `WaitingIsQueued` are checked with one live instance for this reason.
- A deletion that fails after the send makes the row of a published request FAILED
  (`signing-worker.ts:940-945`, `queue-recovery.service.ts:545`), the status that
  `docs/api/endpoints/withdrawal.md:122` explains as a failed transaction.
  `FailedNotPublished` is checked without infrastructure errors.

- A recoverable error before the send (`ENOTFOUND`, a lost DNS lookup) makes the row
  PENDING (`signing-worker.ts:1636`) and then FAILED
  (`queue-recovery.service.ts:545`), in two awaits. An instance that claims the row in
  between is overtaken by the second write: as a batch it is skipped, alone it goes on and
  sends a transaction for a row that says FAILED. `OnlySignedPublished` is checked with one
  live instance for this reason.

That two instances never pay a request twice holds in spite of these: each of
them errs on the side of not processing. What makes it hold is that the only
writes of PENDING are those on paths that have not published, which is what
`InPlayUnpaid` says.

### What is proved

`SigningWorkerProofs` proves, for any sets of requests, instances and tokens and
any values of the bounds that satisfy the assumptions in `SigningWorker`
(`BoundsAssumption`, `NamesAssumption`, `ErrorsAssumption`):

- `TypeCorrect`: `Spec => []TypeOK`
- `ClaimsAreExclusive`: `Spec => []ExclusiveClaim`
- `InPlayIsUnpaid`: `Spec => []InPlayUnpaid`
- `NoDoublePayment`: `Spec => []AtMostOnePublished`
- `SigningRefines`: `Spec => RefinesSignOnce`
- `PendingIsQueued`: `Spec => []PendingHasMessage`, if `MaxLive <= 1`
- `FailedIsUnpaid`: `Spec => []FailedNotPublished`, if `MaxLive <= 1` and `InfraErrors = {}`
- `NobodyIsStranded`: `Spec => []NoneStranded`, if moreover `Unstable = {}`

The inductive invariant `Inv` is the conjunction of `TypeOK`, `ExclusiveClaim`,
`InPlayUnpaid`, `AtMostOnePublished` and `NoneUnexpected` (a job that carries no
error is not in a stage that handles one). `AtMostOnePublished` is not inductive
alone: a job about to publish could stand beside a request already paid.
`InPlayUnpaid` excludes that, and needs `ExclusiveClaim` so that one job's
publishing cannot pay a request another job holds.

The argument has two layers. For each action a lemma (`ClaimStep`, `SignStep`,
...) shows that it keeps `TypeOK` and that its effect on what the invariant talks
about is one of four kinds: quiet (nothing becomes active or PENDING, nothing is
published), takes (a PENDING request gets one active job), gives back (the one
active job of a request ends and the row becomes PENDING), sends (active jobs
end and their requests are published once). `Kinds` collects them; that the four
kinds keep `Inv`, and that each maps to a step or a stutter of `SignOnce`, is
then proved without looking at an action again. So a new action of the code needs
one new lemma.

`ErrorsAssumption` matters: it says that no error of MySQL, Redis, SQS or local
signing reads like one of the node's messages about balances and nonces. If one
did, a request already sent could be requeued, and it would be paid twice.

`PendingIsQueued` allows every crash, replacement and failing call. A PENDING row must have a
message that is on the queue and that no job is going to delete (`Waits`), also while a
job has it: `KeepInv` says that only an instance that is up has jobs, that one is up at a
time, and that the message of a job which may still put its request back (`Keeping`) has not been
deleted. The lemma of an action shows what it does to the messages of its own jobs
(`Handled`), and `HandledKeeps` concludes for the rest. With two instances the
property is false: the other one finds the row SIGNING and deletes the message that was requeued
before the row became PENDING.

`FailedIsUnpaid` needs the order in which an instance works through a batch, so its
invariant has four parts. `TurnInv`: no job is late, nothing has gone past the
claims while others of the batch still wait for theirs, a request has one busy job, and an error
that reaches the catch block is one for which nothing is deleted there. `SealedSigned`: a job about
to send has a row that says SIGNED. `PaidSigned`: a published request is SIGNED, and no other
job than the one deleting its message is busy with it. Each action is `Paced`, and `Paced`
gives `Advances`, from which the invariant follows without the actions. The two assumptions are
needed: a deletion that fails after the send makes a published request FAILED, and a second
instance can fail what the first one signed.

`NobodyIsStranded` adds `HandInv` to these: whatever is VALIDATING or SIGNING is `Claimed` (an
undecided job of its owner has it), and a job that has not begun to sign (`JustClaimed`) finds the row
as its claim left it. The second half is what the two checks of the row need: the one in `BeginSigning`
never sends a request away, and the one in `createBatchWithLocking` never skips a batch whose rows are still
claimed. Since a busy job has its request to itself (`OneJob`), each action only has to say what becomes
of the rows of its own jobs (`Serves`). With a crash or a failing call between the claim and the
write of the outcome the row stays as it is, which is finding 1.

Liveness (`Settles`) is model-checked only.

## NonceAllocation

One wallet on one chain. The module models what decides the number in a
transaction: the Redis key `nonce:<chain>:<network>:<address>`, its two writers,
the INCR, and the pool of returned nonces.

**State.** `counter` is the key's value or `Missing`. `mined` and `pending` are the
node's two transaction counts. `ready` are the instances whose `signers` map has
the chain's signer; `init[i][k]` is where task `k` of instance `i` stands in
`TransactionSigner.initialize` (several messages of a batch create the signer at
the same time), with the count it has from the node and the value it will write.
`sync[i]` is the same for the synchronisation at the start of
`signBatchTransaction`. `open[i][n]` counts the transactions of `i` that have nonce
`n` and are not signed yet, `signed[n]` the signed ones, `pool` is the sorted set.

| code | actions |
|---|---|
| `TransactionSigner.initialize`, `getOrCreateSigner` | `AskLatest` (count, block "latest"), `GetCached` and `SetStart` (the read and the write of `NonceCacheService.initialize`), `InitFails` |
| `processSingleTransactions`, allocation | `AllocateSingle` |
| `signBatchTransaction`, synchronisation | `AskPending`, `CompareCached`, `CatchUp`, `SyncFails` |
| `signBatchTransaction`, after gas estimation | `AllocateBatch`, `BatchFails` |
| `signTransaction` and what follows it | `SignAndSend`, `ReturnNonce`, `LoseNonce` |
| `NoncePoolService.getAvailableNonce`, called by the broadcaster | `TakePooled` |
| node, other senders, Redis expiry, processes | `Accept`, `Mine`, `Outside`, `Expire`, `Start`, `Crash` |

The signing service returns nonces to the pool and never takes one out, although
`docs/NONCE_MANAGEMENT.md` describes reuse; the model has the reader the code has,
the broadcaster. `docs/ARCHITECTURE.md:113` is about that design, not this code.

**Two environments.** `Fleets` is what runs at the start. With a running fleet, all
signers exist and any number of instances allocate beside each other. From a cold
start, or after crashes, instances start. With `Overlap = FALSE` one starts only
while no other is up, and somebody else sends from the wallet only while at most
one instance is up; `Overlap = TRUE` lifts both. With `Expires = FALSE` the key expires
only while the service is at rest and everything it signed is mined; `Expires = TRUE`
lets it expire at any time: the code renews it by SET only, so a service that
works for more than a day without creating a signer loses it.

**Runs.** Two instances, two tasks each, histories of 0 or 1 transactions, nonces up
to 3 (`MaxNonce` bounds the counter and the node's counts). Three nonces are
enough for a history, one nonce given out, and one written back below it; two
tasks for two initialisations that read and write around each other.

| run | shows |
|---|---|
| `NonceAllocation` | with `Overlap` and `Expires` off: `NonceUnique` (no two signed transactions with one nonce), `AllotsOnce` (the implementation of `NonceOnce`), `CounterAhead` (whoever may allocate finds the counter above everything in use), `BatchAheadOfNode` (a synchronised batch is not behind the node) |
| `NonceAllocationOverlap` | with `Overlap`: `NonceUnique` fails, finding 2 |

**The abstract specification.** `NonceOnce` gives every nonce a place, `free`, `held`, `returned` or
`used`. A free one is given out, above every nonce that is not free; a held one is used or returned; held and
returned ones may be forgotten (lost with a crash, taken by the broadcaster); a used one is used for
ever. `AllotsOnce` says that `NonceAllocation` implements it. `Place` reads the place of a nonce off the
open and the signed transactions and the pool, and is `twice`, which no step of `NonceOnce` allows, for a
nonce that is in two of them or in two transactions. So the refinement contains that a pooled nonce is in no
transaction (`PooledUnused`), and adds how nonces move.

**Finding 2.** `initialize` reads the counter, takes the maximum and writes it back.
An instance that is started beside a working one writes an old value over the
other's INCR, and the nonce is allocated twice; of two transactions with one
nonce the node takes one. `docs/ARCHITECTURE.md:312` calls nonce management "atomic
Redis operations". The INCR is one, the initialisation is not.

### What is proved

`NonceAllocationProofs` proves, for any sets of instances and tasks, any initial
fleets and histories and any bound, under `ConstantsAssumption` and
`Calm == ~Overlap /\ ~Expires`: `TypeCorrect`, `NoncesAreUnique`, `PooledAreUnused`,
`CounterStaysAhead`, `BatchesAreAhead` and `AllocationRefines` (`AllotsOnce`). `Calm` is
needed: the run above breaks `NonceUnique` without its first half.

`NonceUnique` says nothing of nonces that are still open or of who may write the
counter, so the inductive invariant `Inv` adds: a nonce is in one place
(`OneHolder`); the counter, if there is one, is above every nonce used
(`CounterInv`); if there is none, everything used is mined and nobody may allocate
(`MissingInv`); what an initialisation is going to write is above every nonce used,
and it runs alone (`InitInv`); with two instances up the node counts only what was
allocated (`PendingInv`), so that a counter behind the node means a single instance
(`SyncInv`), which is why `CatchUp` never moves the counter down. Every action has one
lemma with one step per conjunct; the used nonces are kept as one set (`Used`) and
"above" as one opaque predicate (`Below`), with two lemmas about them.

For the refinement each action is one of five kinds (`Kinds`): nothing moves, one nonce is given out,
used or returned, or some are forgotten. That the nonce of an INCR was free, and above all in use, is
`CounterInv`: the refinement needs the invariant and does not follow from the actions alone.

## TxBroadcaster

The broadcasters of one wallet on one chain; a transaction is named by its nonce,
which it has by `NonceAllocation` alone.

**State.** `msg` is the place of each message of signed-tx-queue. `job[w][t]` says where
worker `w` stands with the message of `t` (`at`), the nonce it expects (`exp`), the
transaction it is broadcasting (`cur`: its own, or one from the buffer), what is left of
the transactions taken out of the buffer (`rest`) and the class of the error it carries
(`err`). `memory` and `buffer` are the maps of `NonceManager`, lost in a crash; `kept`
remembers what was ever buffered. `lock`, `marked`, `last`, `pool`, `retries` are the Redis keys,
`node` what the node took, `mined` its count, `row` the withdrawals' status, `sent` the results.

| code | actions |
|---|---|
| `processLoop`, SQS visibility | `Receive`, `Redeliver` |
| `getExpectedNonce`, `getBlockchainNonce` | `AskPool` (pool, then memory), `AskRedis`, `CacheLast`, `AskChain`, `SaveChain` |
| `processTransactionWithSQSSearch`, `searchSQSForMissingNonces`, `addToBuffer` | `Decide`, `Search` |
| `broadcastTransaction` | `CheckBroadcasted`, `SetProcessing`, `Send`, `Refused`, `MarkBroadcasted`, `UpdateToBroadcasted`, `SendBroadcastResult`, `RemoveProcessing` |
| `updateLastBroadcastedNonce`, `processBufferedSequence` | `UpdateLast`, `NothingBuffered`, `Take` |
| `processMessage`, `handleFailure` | `DeleteMessage`, `HandleFailure`, `UpdateToFailed`, `SendToDLQ`, `ReportFailure` |
| node, processes, `testConnections` | `Mine`, `Start`, `Crash` |

A step ends where the code awaits. Three things the model takes from the code rather
than from its names. The search in the queue reads the field `signedTransaction`, the
signing service sends `rawTransaction`, so the search hides messages and finds none
(`Search`). `broadcastTransaction` classifies the node's answer as a string, which the
classifier does not look into, so a failed result is sent for every refusal (`Refused`),
while `handleFailure` classifies it again. A lock that is lost has no error text, which is
permanent (`SetProcessing`). Neither does the text of `nonce-manager.ts:449` match any pattern: when
the node cannot be reached while the expected nonce is looked for, the transaction is FAILED, reported
and deleted at once (`AskChain`). `addTransaction`, `handleNonceTooHigh` and the gap timer, which
`docs/TX_BROADCASTER_NONCE_HANDLING.md` describes, are called by tests only and left out.
Locks (five minutes) and marks (an hour) outlast the steps that need them. One effect of
`processBufferedSequence` is left out: it deletes the buffer it emptied by the address
(`nonce-manager.ts:369`), and with it a new one that other messages began meanwhile. That takes
four transactions, and the properties already excuse what was ever buffered.

**Runs.**

| run | shows |
|---|---|
| `TxBroadcaster` | one worker, two transactions that arrive in either order or together, permanent refusals, updates, reports and deletions that fail and are retried up to `MaxRetries` = 2, a crash at any step: `RecordsTrue`, `OrderKept`, `DeletedAccounted` |
| `TxBroadcasterTwo` | one transaction, two workers side by side, a third that starts when both are gone, every answer and fault, and a nonce in the pool: `LockExclusive` |
| `TxBroadcasterBuffered` | `Delivered` fails, finding 3 |

Two transactions are enough for a gap, a buffer and a sequence taken out of it, two
workers for a contest. The properties: `RecordsTrue` (what is written, reported or marked
as broadcast was taken by the node, `ReportedAccepted`, and so was the transaction whose nonce is in Redis,
from which every worker counts, `LastTaken`), `OrderKept` (an action property: when the node takes a transaction,
each one of a lower nonce was taken before, was given up with a report, or was in a buffer),
`LockExclusive` (a processing lock has one holder,
another worker or the same worker with its buffer), `DeletedAccounted` (the queue forgets
a transaction only when the node took it, a failure was reported or it was in a buffer).

The exception for buffered transactions in `OrderKept` is needed. `Take` sets the memory to the end of a
sequence before the sequence is broadcast, so a message of the next nonce that arrives in between finds that
it is expected and overtakes the rest of the sequence. Without the exception the property holds with two
transactions, which cannot show this, and TLC finds it violated with three, in a run without any fault.

Three restrictions, each needed. `Overlap = FALSE`: a worker starts while no other is up, for
`testConnections` deletes all locks; with `TRUE`, `LockExclusive` fails. `DeletedAccounted` needs an
empty pool: the expected nonce is popped from the pool first, and with nonce 1 in it,
transaction 0 counts as old and its message is deleted, so `TxBroadcasterTwo` does not
list it. And it needs a buffer with room for every transaction: a full one drops
what it is given (`nonce-manager.ts:303`), and the message is deleted all the same.

**Finding 3.** Nonces 0 and 1 are received in one batch. 1 waits for the queue search while 0
is broadcast and finds the buffer empty; then 1 is buffered and its message deleted, and
only the broadcast of a predecessor looks into the buffer.
`docs/TX_BROADCASTER_NONCE_HANDLING.md:26` says "Once gaps are filled, processes buffered
transactions in order". Nothing fails in the run and no worker stops; it is fair to every
step, and to the reception of every message that is visible again and again.

### What is proved

`TxBroadcasterProofs` proves, for any sets of workers, transactions and pooled nonces and
any bounds, under `ConstantsAssumption`:

- `TypeCorrect` and `RecordsAreTrue` (`RecordsTrue`, from `BroadcastsAreTrue` and `LastIsTaken`),
  with no further assumption: they hold for workers that overlap, too.
- `LocksAreExclusive` (`LockExclusive`), if `~Overlap`.
- `DeletionsAreAccounted` (`DeletedAccounted`) and `OrderIsKept` (`OrderKept`), if `Roomy`: the pool is
  empty at the start and the buffer has room for every transaction.

`LastTaken` speaks of a state and not of the jobs that are about to write it, so the
inductive invariant `Inv` adds what a job knows (`JobInv`: what it marks, reports or
counts from was taken by the node; a job that unlocks without an error has broadcast) and that
the node's count is one past a transaction it took (`Recorded`). For the locks it adds
that whoever is between taking and removing one is in `lock`, and that a worker which is
not up has no job (`LockInv`, `LifeInv`), which is why one that starts alone may delete
every lock. `DeletedAccounted` needs most: a message counts as old because its nonce is below the
expected one, so every nonce below the one in memory, in Redis, on the chain and in every job
must have a trace (`Trail`, `TraceInv`). The memory of a worker is set to the end of a
sequence before the sequence is broadcast (`Take`); the trace is then the buffer it came from. `OrderIsKept`
is the same trace at another moment: what a job is about to send is at most the nonce it expects, so
everything below has a trace, and a message that is gone was accounted for.

A lemma per form of update (`GotoFact`, `CarryFact`, ...) says what a job becomes; for the
jobs that do not change each part of `Inv` has one lemma (`JobKeeps`, `TraceKeeps`, `LockKeeps`,
`LifeKeeps`), so the lemma of an action only looks at its own job. `Delivered` is liveness, and is refuted.

## WithdrawalApi

POST /api/withdrawal/request in front of the signing stage: the module extends
`SigningWorker`, whose requests start here without message (`WorkerInit`) and get one
from `Send`.

**State.** `handler[r]` is the await at which the handler of a request stands, `saved` are
the requests whose row exists, `answer[r]` is what the client was told, `ready` and
`queueReady` are `isReady` and `queueInitialized`. `doubted` and `unmarked` are histories: sends
that were accepted and reported an error, and FAILED updates that were lost.

| code | actions |
|---|---|
| validation of the body | `Submit` |
| `withdrawalRequest.create` | `CreateRow` |
| `ensureQueueInitialized` | `PrepareQueue` |
| `sendMessage`, 201 | `Send` |
| update to FAILED, QUEUE_ERROR | `MarkFailed` |
| `startServer`, `gracefulShutdown` or a crash | `StartServer`, `StopServer` |

**Run `WithdrawalApi`.** Two requests, one of which fails the validation, two lives of the
server and two of the signing service, one instance live at a time, calls that fail and sends
that are accepted in spite of an error. The properties:
`RefinesSignOnce`, the abstract specification of the signing stage, for the pipeline, whose rows the API
fails as well; `WaitingIsQueued` (a PENDING row has a message, unless its
handler is under way, was stopped, or could not write FAILED); `RefusedUnpaid` (whoever
was told an error is not paid, unless the send was accepted); `OnlySignedPublished` (what is sent has a
row that says SIGNED, unless the API wrote FAILED over it after such a send).

**Known behaviour.** The exception in `RefusedUnpaid` is real: the send is accepted and reports an
error, the signing service claims and pays the request, the API writes FAILED over its
status (`withdrawal.ts:526`) and answers "Please try again later" (`:547`). A client that does is
paid twice, for two requests. And a crash between row and message (`:512`) leaves a
PENDING row that nobody looks for.

**Proved** in `WithdrawalApiProofs`, for any number of requests, instances and messages and any
faults: `PipelinePaysOnce` (`AtMostOnePublished` of the pipeline), `PipelineRefines` (the pipeline
implements `SignOnce`) and `RefusedIsUnpaid`. A step of the API is `Quiet` in the sense of
`SigningWorkerProofs`, so the invariant of the signing stage is kept without looking at it
again; and at most it makes a row FAILED, which maps to a step or a stutter of `SignOnce`. For
refusals the invariant `ApiInv` says that a request is `Unsent` (no message was ever
sent, no job works on it, not paid) until its `Send`; that the signing service leaves such a
request alone is a lemma about all its actions: what an instance does touches only the
messages it works on (`Limited`), and it only gets those it received.

Also proved: `ApiTypeCorrect` (`ApiTypeOK`); `AcceptedIsQueued` (`WaitingIsQueued`) if
`MaxLive <= 1`; `OnlySignedGoesOut` (`OnlySignedPublished`) if `MaxLive <= 1` and `Steady`. For the first
of the two `WaitInv` ties the handler to the row (a request whose handler is not over may have no
message yet; one that is over has one that `Waits`), and a step of the API takes no message away and makes
no row PENDING, so that `KeepInv` carries over. For the second, `AtOneTime` adds to `TurnInv` that
the row of a job about to send says SIGNED or was written over by the API after a send it was
wrong about (`SealedOrDoubted`). `Steady` says that no deletion in the catch block of
`processSingleTransactions` throws: either no call fails, or the errors that come there are not the
ones it deletes for. If one throws, jobs are left behind that write their outcome over that of a
later attempt at the same request, which may be the one that is about to send. The error classes of
the run satisfy `Steady`.

## BatchSigning

The uses of one `TransactionSigner`: a call is a single request (`estimateGasForTransaction`, then
`signTransaction`), a batch (`signBatchTransaction`) or a batch with splitting
(`signBatchTransactionWithSplitting`).

**State.** `learned` is `tokenTransferGas`, `cachedFee` the gas price cache, `nextNonce` counts
the nonces given out, `spare` is the pool, `lost` the nonces nobody has any more, `refused` those of
them the pool did not take; `use[c]` is what
a call has in hand: its transfers, gas, groups, fee, nonce and signed transactions.

| code | actions and operators |
|---|---|
| `validateBatch`, `getTransferAmountInWei` | `ValidBatch`, `Convertible`, `Begin` |
| `estimateBatchGas`, `updateTokenGasCosts`, `getFallbackGasEstimate` | `EstimateBatch`, `EstimateFails`, `NewCost`, `FallbackGas` |
| `getGasForNthCall`, `getMaxBatchGas`, `splitIntoBatches`, `prepareBatchTransfer` | `GasForNthCall`, `MaxBatchGas`, `PlaceCall`, `SplitIntoBatches`, `PlanGroups` |
| `getGasPrice`, `GasPriceCache` | `UseCachedPrice`, `AskPrice`, `FetchPrice`, `ExpirePrice` |
| nonce, signature, errors | `TakeNonce`, `SignNext`, `FailBefore`, `FailAfter`, `FailSplit` |

**Properties.** `SplitSound`: the groups are the batch, cut in order, within the limits of gas and
amounts, and cut only where the next call would not fit. `ReturnedComplete`: a call returns
transactions for every transfer once, with rising nonces, or none. `NonceAccounted`:
nonces are conserved, each one is in one call, in the pool or lost, never in two places; and the lost
ones are those the pool refused, unless a split call failed, which gives none back
(`transaction-signer.ts:1165`).

**What the model takes from the code.** `signBatchTransaction` ignores the groups and signs all
calls at once, also above the gas of a batch. Splitting has no caller; it gives its nonces back
on no failure, and with at most one group it starts over as a plain batch, with a second
estimate. The call that opens a group is charged the gas of its place in the group before. The limit of amounts
inside the split cannot be reached, because the batch was validated against it before. Singles are
never compared with `maxTransferAmount`, and their gas gets the margin of 20 percent twice.

**Bounds** (part of the run `parts`). Two calls; a batch of four transfers of two
tokens that is too large by every estimate, one of two, one with a repeated identifier, one
above the maximum, a single; two answers of the node for gas and price. The numbers are scaled
down (`BlockGas` 400, overhead 35) so that four transfers need two groups or more.

**Proved** in `PartsProofs`, for any configuration, batches, costs and number of calls side by side:

- `NoncesAreAccounted` (`NonceAccounted`). The property counts; the invariant says where: a nonce
  is in hand from `TakeNonce` to the signature (`FormOK`), and what the calls hold or signed, the
  pool and the lost nonces are disjoint and together the nonces below the counter (`PlacesOK`). A nonce
  joins the lost ones only with the refusal of the pool or in a split call that fails, and a call that
  failed stays so (`LossOK`).
- `BatchTypeCorrect` (`BatchTypeOK`).
- `SplitsAreSound` (`SplitSound`). `SplitIntoBatches` is a recursive function of the number of
  transfers placed; by `UpTo`, an induction over a set of numbers, its value after `n` is a `Cut`
  of the first `n` transfers: joined, the groups are that prefix, each is within the limit of gas
  unless it has one transfer, and each but the last was closed because the next transfer did not
  fit. A group is never closed for its amounts: they are parts of the amounts of the whole batch,
  which was validated against the maximum (`AmountsFit`).
- `ReturnsAreComplete` (`ReturnedComplete`). The invariant `PlanInv` follows a call: its batch is
  one it was asked for and was validated (`CallOK`), its groups are the split of that batch at the
  costs it was planned with, whatever is learned later (`GroupsOK`), the transactions of a split
  call are those of its first groups, and the nonce it holds is above all it signed (`TxsOK`).

## PendingList

`nonce:pending:<address>` and the rounds of `processAddressQueue`, which a timer starts every
five seconds in every worker whether or not the last one is over.

**State.** `list`, `lastNonce`, `addressLock`, `sent` are the Redis keys; `elsewhere` are the
transactions whose own message is being handled; `round[r]` and `adder[a]` say where each run
stands and what it read. `overlapped` and `overran` are histories: was the list written
between a read and its write, did a lock expire.

| code | actions |
|---|---|
| `addTransaction` | `AddRead`, `AddWrite` |
| `getNextTransactionForAddress` | `Peek`, `CheckFree`, `CheckSequence` |
| `startProcessing`, `removeProcessingLock` | `LockAddress`, `Release` |
| `processAddressQueue` | `CheckSent`, `Track`, `Unreadable`, `Untrack` |
| `completeTransaction`, `removeTransaction` | `SetLast`, `RemoveRead`, `RemoveWrite` |
| `broadcastTransaction` of the same transaction | `TrackElsewhere`, `SendElsewhere` |
| expiry, `releaseTimedOutLocks` | `Expire` |

**Properties.** `NonceKept`: a nonce that was added stays until it was broadcast or is malformed,
unless two updates overlapped. `AddressExclusive`: one processor per address, unless a lock
expired. Both exceptions are needed: an update writes back the list it read
(`nonce-manager.ts:1398`), and a lock is deleted by whoever ends, not by its holder.

**Known behaviour.** Nothing in the worker calls `addTransaction`. A transaction of the list is never
broadcast from it: its chain context comes back from JSON without methods and `getChainId`
throws. An entry whose own message is broadcast normally stays for ever, since the last nonce is then
its own and the next one expected is one higher. The last nonce is set, not raised. The
lock and the list are per address, not per chain. A round that finds its transaction tracked
by somebody else starts over at once, until that one is done.

**Bounds.** Two transactions of nonce 0 (the one of higher priority malformed), one of nonce
1, two rounds and two additions side by side: enough for any two updates to overlap and for a
replacement. Redis calls do not fail; a pipeline is one step.

**Proved** in `PartsProofs`, for any transactions and any number of rounds and additions:
`AddressIsExclusive`, and `NoNonceDropsOut` (`NonceKept`). For the first the invariant adds that
whoever is inside holds the lock (`InsideLocked`); a step stays on
its side of the lock, enters through the free one, or leaves and frees it. For the second,
`NonceInv` says of the list, and of every list somebody has read and will write back, that it
has only transactions that were added, in the order of their nonces (`Possible`); that a
round removes only a transaction that may leave (`Gone`); and that what an addition read still has every
nonce which must be kept. Then a lemma for each of the two updates, `WithTransaction` and
`Without`: sorted insertion and removal by search lose no other nonce, which is `InsertFacts` and
`RemoveFacts` of `SequenceFacts`. `PendingTypeCorrect` (`PendingTypeOK`, the sorted list among the types)
comes from the same invariant.

## BroadcastRetry

One call of `broadcastWithRetry`, with the state-managing broadcast of `Broadcaster`, the updates of
`TransactionService` and the decision of `RetryService`. No code calls it; the worker that runs
broadcasts once (`TxBroadcaster`).

| code | actions |
|---|---|
| `updateToBroadcasting`, `updateBatchToBroadcasting` | `MarkBroadcasting`, `MarkSignedBroadcasting` |
| `provider.broadcastTransaction`, `handleBroadcastError` | `NodeTakes`, `NodeRefuses`, `DefaultText` |
| `updateToBroadcasted`, `updateBatchToBroadcasted` | `RecordBroadcasted`, `RecordSignedBroadcasted` |
| `updateToFailed`, and the catch block | `RecordFailed`, `RecordSignedFailed`, `CatchFailed`, `CatchSignedFailed` |
| `detectNonceConflict`, `shouldRetry` | `Decide`, `AfterFailure` |

`OutcomeTrue`: a success left the transaction on the chain and both rows BROADCASTED; another end left
the rows FAILED, unless a call to the database failed; and what is given up was refused for good, is of no
kind that is retried, or was tried `MaxRetries` times. `PartsProofs` proves it
(`OutcomeIsTrue`) and the types (`RetryTypeCorrect`) for every number of retries; the run has three
attempts, every code of `handleBroadcastError` and texts of up to two fragments.

**Known behaviour.** The code of a result is dropped, only its text decides, so a NETWORK_ERROR with
the default text is not retried. A transaction the node took whose row update fails
becomes FAILED; if the error counts as an outage the next attempt meets its own transaction and
ends as a nonce conflict, and the row stays FAILED.

## TxMonitor

Transactions on one chain, checks that run side by side, and the connection.

**State.** `row` is the status in `sent_transactions`, `msg` the result in broadcast-tx-queue.
`entry[t]` is the object `activeTransactions` holds for a hash and `obj[t][k]` its k-th object: a
redelivered result makes a new one while a check still works on the old. `check[c]` says at which
await a check stands. `height`, `minedAt` and `reverted` are the chain. `feed`, of `ChainConnection`,
is `connectionStates`, the cached provider, `blockListeners`, `blockSubscriptionActive`, the
reconnection timers, and the sockets, each with who waits for it, its handlers and its block listener.

| code | actions |
|---|---|
| `processMessage`, `addTransaction` | `AddTransaction` |
| `loadPendingTransactions`, `start`, `shutdown` | `Start`, `Stop` |
| pollers, block listener, timer, POST /check | `Poll`, `NewBlock`, `Request` |
| `checkTransaction` | `Begin`, `GetProvider`, `ReadReceipt`, `LookUp`, `Note`, `Judge`, `AskStuck`, `Save`, `NodeError`, `GiveUp` |
| `getProvider`, before and after its await | `Live`, `Await`, `Opened`, `Refused`, `ProviderReady`, `ProviderFails` |
| `setupChainListener`, `handleDisconnection`, block subscription | `SetupChainListener`, `HandleDisconnection`, `StartBlockSubscription`, `StopBlockSubscription` |
| node and network | `Mine`, `Grow`, `Drop` |

`getProvider` tests its cache, waits for the new provider and then overwrites the cache
(`chain.service.ts:42`, `:72`, `:74`). Its callers are setups, subscriptions and checks, which overlap, so
a call that finds no open provider makes a socket of its own, and the provider that is ready last is the
one cached, whether or not it has handlers. One that was replaced stays open, with its handlers and its
listener. `handleDisconnection`, called by the close and error events of any socket that has the
handlers, destroys whatever is cached by then. The provider a block handler asks for before it checks is
taken together with that of its check.

**Run `TxMonitor`.** One transaction, heights to 3 with two confirmations required, two retries, failing
calls, restarts. A behaviour has one of two sets of bounds (`MCBounds`), chosen at the start: the result
arrives twice and two checks run side by side over two sockets, or one check runs while three sockets
are made and two connections are lost. Two checks are enough for a check that works on an object
another one judged, three blocks for one transaction that is mined, waits and is confirmed, two sockets
for a provider replaced in the cache, three with two losses for a reconnection that meets the late
event of an old one. About 3.8 million states. The chain does not reorganise: the service only has a
configuration for a local one. `ConfirmedOnChain`, `FailedHasCause`, `FollowedUntilFinal` are explained in the module;
of the connection:

- `LossNoticed`: while the state says connected, some socket has the handlers and its last event is
  still to come. `setupChainListener` does nothing in that state, so without one the service would never
  connect again. It is not claimed that the socket is the cached one, see below.
- `ConnectingEnds`: while the state says connecting, a setup waits for its provider. That the wait ends
  is not claimed: the code has no timeout for `_waitUntilReady`, and whether it always settles is up
  to the library.

**Known behaviour.** After `MaxRetries` failing calls the row becomes FAILED, with the text "Transaction
failed on chain" (`monitor.service.ts:325`), although the transaction may be confirmed;
polls of a pending transaction count as retries too, so after enough of them one failing call is
enough. An older check may write CONFIRMING after a newer one wrote FAILED
(`monitor.service.ts:195`). An update of a row that fails is not repeated. A reconnection that gets
no provider is not tried again, and `blockSubscriptionActive` stays set when the connection ends, so
that the new one may have no block listener while there are transactions to follow; the poller
goes on in both cases. Of two calls of `getProvider` that overlap, the later replaces the provider of the
earlier: the service then works with a socket without handlers while the state says connected, hears
of the end of the other one only, and destroys the one in use when that comes. A block listener put on
the replaced provider stays on it, because `stopBlockSubscription` takes it off the cached one, so that
blocks are handled twice after the next subscription. These behaviours are in the model, and no
property excludes them. Stuck transactions are found and logged; nothing replaces or cancels them.

**Proved** in `TxMonitorProofs`, for any transactions (at least one), objects, checks and
bounds: `TypeCorrect`, `ConfirmedSound` (`ConfirmedOnChain`), `FailedSound` (`FailedHasCause`), `NeverForgotten`
(`FollowedUntilFinal`), `LossAlwaysNoticed` (`LossNoticed`), `ConnectingAlwaysEnds` (`ConnectingEnds`).
A status travels from a check to an object and from there to a row, and checks work on
objects that others have replaced, so the invariant cannot speak of rows alone: a status must be
`Justified` (by the chain, by a failed retry, by a judgement) wherever it is kept, in a row, an object
or the hand of a check (`RowsOK`, `ObjectsOK`, `ChecksOK`). What justifies it never goes away
(`Grows`: blocks stay, heights rise), so a check that saves late saves nothing false.
`GoodFeed` is about the connection and independent of the rest: the two properties, and that a socket
with handlers has been open (`SoundFeed`). Each operator of `ChainConnection` has a lemma that says which sockets it
touches. Every step that takes the handlers of a socket away also writes disconnected, and every
setup that ends its wait writes connected with a socket that it gave handlers, or disconnected.

## The recovery service

Its `main.ts` starts an HTTP server; queue, monitor and orchestrator have no common state and do
not call each other. Each is modelled as a component any caller may use.

- `PriorityQueue` is the array with its binary search, against `MostUrgent`, a set of messages from
  which the most urgent ready one is taken (`TakesMostUrgent`, a refinement). At capacity the new
  message is dropped; `scheduleRetry` finds only the first copy still in the queue.
  The run has four messages, three places, two identifiers, bonuses of queue and age that reach
  the cap at CRITICAL, and two delays.
- `DlqMonitor` are overlapping polls of one dead-letter queue with the metrics: `CountedOnce` (no
  delivery is processed twice in the counts) and `EntriesEnd` (every metric is either in a
  poll's hand or has a timer that removes it). The outcome of a recovery is drawn at random, as in
  the code. A timer removes the entry of an identifier, also one a later attempt made. Polls
  request no attributes, so that the retry count is never known and the limit of attempts is
  never reached. Two messages, two polls, two deliveries each.
- `RecoveryOrchestrator` is the analysis of the error's text, the choice of a strategy and its outcome.
  A text is the set of patterns it contains: `OnlyMendableReturned` says that a text
  which speaks of nonces, funds or gas keeps its message out of the queues whatever else it
  says. The fallback strategy is never reached with another type than its own.

**Proved** in `RecoveryServiceProofs`. `DeliveriesCountedOnce` (`CountedOnce`) and `AllEntriesEnd`
(`EntriesEnd`), for any number of polls, messages and deliveries: with the types, the form of a poll
(`GoodPoll`) and that the counts of successes and failures add up (`MetricsOK`) they are inductive
(`MonitorInv`). `OnlyMendableGoesBack`
(`OnlyMendableReturned`), for any set of texts: the first pattern that matches decides, so what is
classified as network or unknown matched none of those before. `QueueRefines`: `QueueSpec =>
TakesMostUrgent`, for any messages, capacity and delays, and `MostUrgentIsTaken`, the same of the whole
service; `ServiceTypeCorrect`: `Spec => []TypeOK`. The mapping of the queue forgets the order of the array, and the order is the invariant: by falling
priority, and by arrival among equals (`QueueInv`, `Ordered`). The binary search is a recursive function
of a window. The place after the last message that is at least as urgent solves its equation
(`FoundSearches`), and no other answer does: of the windows on which two answers differ there would be a
narrowest (`SearchUnique`). That what `RemoveMessage` leaves is the rest in its order is proved in the same
way, by a shortest prefix for which it fails.

They are part of the run `parts` (`Parts.cfg`, module `MCParts`), with `BatchSigning`, `PendingList` and
`BroadcastRetry`: about a million states. For the specification of that run `PartsProofs` proves
`PartsTypeCorrect` (`PartsTypeOK`, the types of all parts) and `PartsAreCorrect` (every property proved of a
part, `TakesMostUrgent` among them): a step of the composition is a step of one part and leaves the variables of
the others alone (`PartsImplement`), so that what is proved of each part carries over.

## What is only model-checked

Liveness under fairness: `Settles`, which holds for an instance that keeps running (its safety half,
`NoneStranded`, is proved) and is refuted with a crash (finding 1), and `Delivered`, which is refuted (finding 3).
Fairness and ENABLED are out of the prover's reach. Every other property of a passing run is a theorem,
some under the assumptions named above: `MaxLive <= 1`, `InfraErrors = {}`, `Unstable = {}`, `Steady`, `Calm`,
`~Overlap`, `Roomy`. Each section says what breaks without them.

The proofs do without the library's induction over data, whose theorems have an operator as
parameter. `SequenceFacts` has in its place `UpTo`, which is induction over the numbers up to a bound for
a set, and `CountingExists`, which gives the function a recursion on the value before defines; both
come from the well-foundedness of the order of the naturals. Searches are by least index
(`MinIn`, `FirstOf`).

## Not modelled

Of the signing service: addresses, calldata, the pause when all chains are disconnected, the
functions of the recovery service that nothing calls (`recoverQueuesOnStartup`,
`syncNonceWithBlockchain`), and the mode without batches. Of the API: handlers that only read,
authentication, and the readiness middleware apart from the variable `ready`. Of the broadcaster:
`handleNonceTooHigh`, `handleTransactionFailure`, `cleanupOldBuffers`, which have no caller, the timer
of an address with its dummy transactions (`nonce-manager.ts:1086-1268`), messages that
cannot be parsed, several wallets. Of the monitor: `processStuckTransactions`,
`cancelStuckTransaction`, `watchTransaction`, `optimizePolling`, which have no caller, and times. The
secrets manager, the chain configuration, the validators and conversions of the shared
package are pure functions or input. Test console, docker files, local contracts and
documentation tools are not part of the running system.
