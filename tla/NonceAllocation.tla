-------------------------- MODULE NonceAllocation --------------------------
(***************************************************************************)
(* How the signing service gives nonces to the transactions of one wallet  *)
(* address on one chain.  The next nonce is a counter in Redis that all    *)
(* instances increment.  An instance writes the counter when it creates    *)
(* its signer for the chain, and the batch path writes it when it is       *)
(* behind the node; both read the node and the counter first, each call    *)
(* being an await of its own.  A nonce whose transaction could not be      *)
(* signed goes to a pool, which only the broadcaster takes from.           *)
(*                                                                         *)
(* Several messages of a batch may create the signer at the same time, so  *)
(* an instance has several tasks for that; allocation waits for them all.  *)
(***************************************************************************)
EXTENDS Naturals

CONSTANTS
    Instances,    \* incarnations of the signing service
    Tasks,        \* concurrent creations of a signer in one instance
    Fleets,       \* sets of instances that may be running, initialised, at the start
    Histories,    \* transactions the wallet may have sent before
    MaxNonce,     \* bound on the counter and on the node's count
    Overlap,      \* may an instance initialise, or an outsider send, beside others?
    Expires,      \* may the counter's key expire while the service works?
    Missing       \* the counter's key is not in Redis

ASSUME ConstantsAssumption ==
    /\ MaxNonce \in Nat
    /\ Missing \notin Nat
    /\ Fleets \subseteq SUBSET Instances
    /\ Histories \subseteq 0..MaxNonce
    /\ Overlap \in BOOLEAN
    /\ Expires \in BOOLEAN

VARIABLES
    counter,      \* Redis key nonce:<chain>:<network>:<address>
    mined,        \* the node's transaction count of the address, block "latest"
    pending,      \* the same, block "pending"
    life,         \* life cycle of the instances
    ready,        \* instances whose signers map holds a signer for the chain
    init,         \* init[i][k]: where task k of i stands in TransactionSigner.initialize
    sync,         \* where i stands in the synchronisation at the start of a batch
    open,         \* open[i][n]: transactions of i that have nonce n and are not signed yet
    signed,       \* signed[n]: signed transactions with nonce n sent to signed-tx-queue
    pool          \* nonce_pool:<chain>:<address>

vars == <<counter, mined, pending, life, ready, init, sync, open, signed, pool>>

Nonces == 0..MaxNonce

\* What a read of the counter by `|| 0` or by INCR makes of a missing key
Value(c) == IF c = Missing THEN 0 ELSE c

\* net is the node's count, start the value to be written or the value read
IdleTask == [at |-> "idle", net |-> 0, start |-> 0]

InitTasks == [at: {"idle", "asked", "got"}, net: Nonces, start: Nonces]

SyncTasks == [at: {"idle", "asked", "behind", "done"}, net: Nonces]

TypeOK ==
    /\ counter \in Nonces \cup {Missing}
    /\ mined \in Nonces
    /\ pending \in Nonces
    /\ life \in [Instances -> {"new", "up", "down"}]
    /\ ready \subseteq Instances
    /\ init \in [Instances -> [Tasks -> InitTasks]]
    /\ sync \in [Instances -> SyncTasks]
    /\ open \in [Instances -> [Nonces -> Nat]]
    /\ signed \in [Nonces -> Nat]
    /\ pool \subseteq Nonces

NoSync == [at |-> "idle", net |-> 0]

Init ==
    /\ \E W \in Fleets, h \in Histories :
        /\ life = [i \in Instances |-> IF i \in W THEN "up" ELSE "new"]
        /\ ready = W
        /\ counter = IF W = {} THEN Missing ELSE h
        /\ mined = h
        /\ pending = h
    /\ init = [i \in Instances |-> [k \in Tasks |-> IdleTask]]
    /\ sync = [i \in Instances |-> NoSync]
    /\ open = [i \in Instances |-> [n \in Nonces |-> 0]]
    /\ signed = [n \in Nonces |-> 0]
    /\ pool = {}

----------------------------------------------------------------------------
(* Creating a signer: getOrCreateSigner and TransactionSigner.initialize *)

Alone(i) == \A j \in Instances : life[j] = "up" => j = i

Initialising(i) == \E k \in Tasks : init[i][k].at # "idle"

\* getTransactionCount(address): the block is "latest"
AskLatest(i, k) ==
    /\ life[i] = "up" /\ i \notin ready /\ sync[i].at = "idle"
    /\ init[i][k].at = "idle"
    /\ init' = [init EXCEPT ![i][k] = [at |-> "asked", net |-> mined, start |-> 0]]
    /\ UNCHANGED <<counter, mined, pending, life, ready, sync, open, signed, pool>>

\* The read without `|| 0`, after which Math.max has no number to return
GetCachedRaw(i, k) ==
    /\ init[i][k].at = "asked"
    /\ LET net == init[i][k].net
       IN  init' = [init EXCEPT ![i][k] =
                      [at |-> "got", net |-> net,
                       start |-> IF counter = Missing THEN Missing
                                 ELSE IF counter > net THEN counter ELSE net]]
    /\ UNCHANGED <<counter, mined, pending, life, ready, sync, open, signed, pool>>

\* NonceCacheService.initialize, the read
GetCached(i, k) ==
    /\ init[i][k].at = "asked"
    /\ LET net == init[i][k].net
           cached == Value(counter)
       IN  init' = [init EXCEPT ![i][k] =
                      [at |-> "got", net |-> net,
                       start |-> IF cached > net THEN cached ELSE net]]
    /\ UNCHANGED <<counter, mined, pending, life, ready, sync, open, signed, pool>>

\* A start from the node's count alone
SetStartOfNode(i, k) ==
    /\ init[i][k].at = "got"
    /\ counter' = init[i][k].net
    /\ init' = [init EXCEPT ![i][k] = IdleTask]
    /\ ready' = ready \cup {i}
    /\ UNCHANGED <<mined, pending, life, sync, open, signed, pool>>

\* NonceCacheService.initialize, the write, and signers.set
SetStart(i, k) ==
    /\ init[i][k].at = "got"
    /\ counter' = init[i][k].start
    /\ init' = [init EXCEPT ![i][k] = IdleTask]
    /\ ready' = ready \cup {i}
    /\ UNCHANGED <<mined, pending, life, sync, open, signed, pool>>

\* A call to the node or to Redis fails: no signer is stored
InitFails(i, k) ==
    /\ init[i][k].at # "idle"
    /\ init' = [init EXCEPT ![i][k] = IdleTask]
    /\ UNCHANGED <<counter, mined, pending, life, ready, sync, open, signed, pool>>

----------------------------------------------------------------------------
(* Allocating *)

CanAllocate(i) == life[i] = "up" /\ i \in ready /\ ~Initialising(i)

\* INCR, which starts from nothing when the key is gone.  Bound: MaxNonce.
Increment(i) ==
    /\ Value(counter) < MaxNonce
    /\ counter' = Value(counter) + 1
    /\ open' = [open EXCEPT ![i][Value(counter)] = @ + 1]

\* One message of processSingleTransactions
AllocateSingle(i) ==
    /\ CanAllocate(i)
    /\ sync[i].at = "idle"
    /\ Increment(i)
    /\ UNCHANGED <<mined, pending, life, ready, init, sync, signed, pool>>

\* signBatchTransaction: getTransactionCount(address, 'pending')
AskPending(i) ==
    /\ CanAllocate(i)
    /\ sync[i].at = "idle"
    /\ sync' = [sync EXCEPT ![i] = [at |-> "asked", net |-> pending]]
    /\ UNCHANGED <<counter, mined, pending, life, ready, init, open, signed, pool>>

\* A synchronisation that takes the node's count whatever the counter says, and
\* one that has the comparison the wrong way round
CompareNever(i) ==
    /\ sync[i].at = "asked"
    /\ sync' = [sync EXCEPT ![i] = [at |-> "behind", net |-> sync[i].net]]
    /\ UNCHANGED <<counter, mined, pending, life, ready, init, open, signed, pool>>

CompareReversed(i) ==
    /\ sync[i].at = "asked"
    /\ LET behind == Value(counter) > sync[i].net
       IN  sync' = [sync EXCEPT ![i] = [at |-> IF behind THEN "behind" ELSE "done",
                                        net |-> sync[i].net]]
    /\ UNCHANGED <<counter, mined, pending, life, ready, init, open, signed, pool>>

\* The counter is read and, when it is behind the node, to be written
CompareCached(i) ==
    /\ sync[i].at = "asked"
    /\ LET behind == counter = Missing \/ Value(counter) < sync[i].net
       IN  sync' = [sync EXCEPT ![i] = [at |-> IF behind THEN "behind" ELSE "done",
                                        net |-> sync[i].net]]
    /\ UNCHANGED <<counter, mined, pending, life, ready, init, open, signed, pool>>

CatchUp(i) ==
    /\ sync[i].at = "behind"
    /\ counter' = sync[i].net
    /\ sync' = [sync EXCEPT ![i] = [at |-> "done", net |-> sync[i].net]]
    /\ UNCHANGED <<mined, pending, life, ready, init, open, signed, pool>>

\* Any error of the synchronisation is logged and the batch goes on
SyncFails(i) ==
    /\ sync[i].at \in {"asked", "behind"}
    /\ sync' = [sync EXCEPT ![i] = [at |-> "done", net |-> 0]]
    /\ UNCHANGED <<counter, mined, pending, life, ready, init, open, signed, pool>>

\* The batch is valid and its gas estimated
AllocateBatch(i) ==
    /\ sync[i].at = "done"
    /\ Increment(i)
    /\ sync' = [sync EXCEPT ![i] = NoSync]
    /\ UNCHANGED <<mined, pending, life, ready, init, signed, pool>>

\* The batch is invalid or cannot be estimated: no nonce is taken
BatchFails(i) ==
    /\ sync[i].at = "done"
    /\ sync' = [sync EXCEPT ![i] = NoSync]
    /\ UNCHANGED <<counter, mined, pending, life, ready, init, open, signed, pool>>

Close(i, n) ==
    /\ open[i][n] > 0
    /\ open' = [open EXCEPT ![i][n] = @ - 1]

\* The transaction is signed, saved and sent
SignAndSend(i, n) ==
    /\ Close(i, n)
    /\ signed' = [signed EXCEPT ![n] = @ + 1]
    /\ UNCHANGED <<counter, mined, pending, life, ready, init, sync, pool>>

\* A transaction signed in spite of the nonce being returned
ReturnSigned(i, n) ==
    /\ Close(i, n)
    /\ pool' = pool \cup {n}
    /\ signed' = [signed EXCEPT ![n] = @ + 1]
    /\ UNCHANGED <<counter, mined, pending, life, ready, init, sync>>

\* signTransaction or signBatchTransaction throws: the nonce goes to the pool
ReturnNonce(i, n) ==
    /\ Close(i, n)
    /\ pool' = pool \cup {n}
    /\ UNCHANGED <<counter, mined, pending, life, ready, init, sync, signed>>

\* The row is no longer ours, saving or sending fails after the signature, or
\* the pool cannot be reached: the nonce is neither used nor returned
LoseNonce(i, n) ==
    /\ Close(i, n)
    /\ UNCHANGED <<counter, mined, pending, life, ready, init, sync, signed, pool>>

----------------------------------------------------------------------------
(* Environment *)

\* NoncePoolService.getAvailableNonce, called by the broadcaster
TakePooled ==
    /\ pool # {}
    /\ pool' = pool \ {CHOOSE n \in pool : \A m \in pool : n <= m}
    /\ UNCHANGED <<counter, mined, pending, life, ready, init, sync, open, signed>>

\* The node counts as pending what has no gap before it
Accept ==
    /\ pending < MaxNonce
    /\ signed[pending] > 0
    /\ pending' = pending + 1
    /\ UNCHANGED <<counter, mined, life, ready, init, sync, open, signed, pool>>

\* Somebody else sends from this wallet ("transactions sent outside this service")
Outside ==
    /\ Overlap \/ \E i \in Instances : Alone(i)
    /\ pending < MaxNonce
    /\ pending' = pending + 1
    /\ UNCHANGED <<counter, mined, life, ready, init, sync, open, signed, pool>>

Mine ==
    /\ mined < pending
    /\ mined' = mined + 1
    /\ UNCHANGED <<counter, pending, life, ready, init, sync, open, signed, pool>>

\* The service did not run for a day and all it sent is mined
Rested ==
    /\ \A i \in Instances : life[i] # "up"
    /\ \A n \in Nonces : signed[n] > 0 => n < mined

\* The counter's key expires 24 hours after the last SET: INCR does not renew it.
\* The pool's key has a day of its own, renewed by each return.
Expire ==
    /\ Expires \/ Rested
    /\ counter' = Missing
    /\ pool' \in IF Expires THEN {pool, {}} ELSE {{}}
    /\ UNCHANGED <<mined, pending, life, ready, init, sync, open, signed>>

Start(i) ==
    /\ life[i] = "new"
    /\ Overlap \/ \A j \in Instances : life[j] # "up"
    /\ life' = [life EXCEPT ![i] = "up"]
    /\ UNCHANGED <<counter, mined, pending, ready, init, sync, open, signed, pool>>

Crash(i) ==
    /\ life[i] = "up"
    /\ life' = [life EXCEPT ![i] = "down"]
    /\ ready' = ready \ {i}
    /\ init' = [init EXCEPT ![i] = [k \in Tasks |-> IdleTask]]
    /\ sync' = [sync EXCEPT ![i] = NoSync]
    /\ open' = [open EXCEPT ![i] = [n \in Nonces |-> 0]]
    /\ UNCHANGED <<counter, mined, pending, signed, pool>>

Initialise(i) ==
    \E k \in Tasks : AskLatest(i, k) \/ GetCached(i, k) \/ SetStart(i, k) \/ InitFails(i, k)

Allocate(i) ==
    \/ AllocateSingle(i) \/ AskPending(i) \/ CompareCached(i) \/ CatchUp(i)
    \/ SyncFails(i) \/ AllocateBatch(i) \/ BatchFails(i)

Finish(i) == \E n \in Nonces : SignAndSend(i, n) \/ ReturnNonce(i, n) \/ LoseNonce(i, n)

Next ==
    \/ \E i \in Instances :
        Initialise(i) \/ Allocate(i) \/ Finish(i) \/ Start(i) \/ Crash(i)
    \/ TakePooled \/ Accept \/ Outside \/ Mine \/ Expire

Spec == Init /\ [][Next]_vars

----------------------------------------------------------------------------
(* Properties *)

\* No two signed transactions carry the same nonce: of two, the node would
\* take one and the other withdrawal would never be paid.
NonceUnique == \A n \in Nonces : signed[n] <= 1

\* The pool holds "nonces that were allocated but not successfully used": none
\* of them is, or will be, in a signed transaction.
PooledUnused == \A n \in pool : signed[n] = 0 /\ \A i \in Instances : open[i][n] = 0

\* When a nonce is taken from the counter, it is above every nonce that was signed
\* or is about to be, whoever wrote the counter and from whatever it had read.
CounterAhead ==
    \A i \in Instances, n \in Nonces :
        CanAllocate(i) /\ (signed[n] > 0 \/ \E j \in Instances : open[j][n] > 0)
            => n < Value(counter)

\* A batch whose synchronisation succeeded takes a nonce that the node had not
\* seen when the batch started: "sync nonce with network at the beginning to
\* avoid conflicts".
BatchAheadOfNode ==
    \A i \in Instances : sync[i].at = "done" => sync[i].net <= Value(counter)

\* Where a nonce is: in no transaction and not in the pool, in one transaction that is
\* not signed yet, in the pool, or in one signed transaction.  A nonce in two places has
\* none that NonceOnce knows.
Open(n) == \E i \in Instances : open[i][n] > 0

OpenOnce(n) ==
    \E i \in Instances : open[i][n] = 1 /\ \A j \in Instances \ {i} : open[j][n] = 0

Place(n) ==
    CASE signed[n] = 0 /\ ~Open(n) -> IF n \in pool THEN "returned" ELSE "free"
      [] signed[n] = 0 /\ OpenOnce(n) /\ n \notin pool -> "held"
      [] signed[n] = 1 /\ ~Open(n) /\ n \notin pool -> "used"
      [] OTHER -> "twice"

Allotment == INSTANCE NonceOnce WITH place <- [n \in Nonces |-> Place(n)]

\* The counter in Redis with its writers, and the pool, implement NonceOnce: a nonce is
\* given out above all that are held, returned or used, one transaction holds it, and
\* once it is signed it is neither returned nor given out again, crashes included.
AllotsOnce == Allotment!Spec
=============================================================================
