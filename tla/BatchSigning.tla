---------------------------- MODULE BatchSigning ----------------------------
(***************************************************************************)
(* What one TransactionSigner does with the transfers it is given: gas     *)
(* estimation with the MulticallService and its learned costs, the split   *)
(* of a batch that is too large, the gas price cache, the nonce and the    *)
(* signature.  A call is one use of the signer by the worker:              *)
(*   single   estimateGasForTransaction, then signTransaction              *)
(*   batch    signBatchTransaction                                         *)
(*   split    signBatchTransactionWithSplitting, which has no caller yet   *)
(* Every await of the node, of Redis and of the wallet is a step.  Which   *)
(* number the counter should have is the business of NonceAllocation; here *)
(* it only counts.  Allowances are read and logged, nothing depends on     *)
(* them.  A batch has at least one transfer.                               *)
(***************************************************************************)
EXTENDS Naturals, Sequences, SequencesExt, FiniteSetsExt

CONSTANTS
    Tokens,      \* tokens in the configuration of the chain
    MaxTransfer, \* maxTransferAmount of a token, 0 when it has none
    Calls,       \* uses of the signer
    Works,       \* what a call may be asked: [kind, batch], a batch of [id, token, amount]
    BlockGas,    \* blockGasLimit
    Overhead,    \* multicallOverhead
    BaseGas,     \* baseTransferGas
    PerCall,     \* additionalGasPerCall
    Estimates,   \* answers of the node to estimateGas
    Prices       \* answers of the node to getFeeData

ASSUME BatchAssumption ==
    /\ MaxTransfer \in [Tokens -> Nat]
    /\ {BlockGas, Overhead, BaseGas, PerCall} \subseteq Nat
    /\ Estimates \cup Prices \subseteq Nat \ {0}
    /\ \A w \in Works :
         /\ w.kind \in {"single", "batch", "split"}
         /\ w.batch \in Seq(Range(w.batch)) /\ w.batch # <<>>
         /\ \A x \in Range(w.batch) : x.amount \in Nat

VARIABLES
    learned,     \* gasConfig.tokenTransferGas, 0 for a token without entry
    cachedFee,   \* the gas price cache, 0 when empty or expired
    nextNonce,   \* the counter of NonceCacheService
    spare,       \* nonces in the pool
    lost,        \* nonces no transaction will have and the pool does not hold
    refused,     \* those of them that the pool did not take
    use          \* the state of each call

batchVars == <<learned, cachedFee, nextNonce, spare, lost, refused, use>>

NoNonce == [held |-> FALSE, n |-> 0]
Held(n) == [held |-> TRUE, n |-> n]

NewCall == [at |-> "new", kind |-> "batch", batch |-> <<>>, per |-> 0, gas |-> 0,
            groups |-> <<>>, fee |-> 0, nonce |-> NoNonce, txs |-> <<>>]

BatchTypeOK ==
    /\ learned \in [Tokens -> Nat]
    /\ cachedFee \in Prices \cup {0}
    /\ nextNonce \in Nat
    /\ spare \cup lost \cup refused \subseteq 0..(nextNonce - 1)
    /\ \A c \in Calls :
         /\ use[c].at \in {"new", "estimating", "waiting", "pricing", "fetching", "signing",
                            "done", "failed"}
         /\ use[c].kind \in {"single", "batch", "split"}
         /\ use[c].batch \in {w.batch : w \in Works} \cup {<<>>}
         /\ {use[c].per, use[c].gas, use[c].fee} \subseteq Nat

BatchInit ==
    /\ learned = [t \in Tokens |-> 0]
    /\ cachedFee = 0
    /\ nextNonce = 0
    /\ spare = {}
    /\ lost = {}
    /\ refused = {}
    /\ use = [c \in Calls |-> NewCall]

----------------------------------------------------------------------------
(* Gas *)

\* floor(0.75 * blockGasLimit)
MaxBatchGas == (3 * BlockGas) \div 4

\* The discount of half a percent for each call, at most 15 percent
Percent(n) == IF n >= 30 THEN 85 ELSE 100 - (n + 1) \div 2

GasForNthCall(base, n) == (base * Percent(n)) \div 100

\* The weighted average that keeps four fifths of the old cost
NewCost(old, gas) == IF old = 0 THEN gas ELSE (4 * old + gas) \div 5

TokensOf(batch) == {batch[k].token : k \in DOMAIN batch}

UpdateTokenGasCosts(batch, gas) ==
    [t \in Tokens |-> IF t \in TokensOf(batch) THEN NewCost(learned[t], gas) ELSE learned[t]]

FallbackPerCall(batch) ==
    Max({IF learned[t] = 0 THEN BaseGas ELSE learned[t] : t \in TokensOf(batch)})

FallbackGas(batch) ==
    Overhead + FallbackPerCall(batch) * Len(batch) + PerCall * (Len(batch) - 1)

----------------------------------------------------------------------------
(* Batches *)

TotalOf(batch, t) ==
    LET total[n \in 0..Len(batch)] ==
            IF n = 0 THEN 0
            ELSE total[n - 1] + (IF batch[n].token = t THEN batch[n].amount ELSE 0)
    IN  total[Len(batch)]

Unlimited(t) == MaxTransfer[t] = 0

\* An amount of 0 stands for every amount that does not convert
Convertible(batch) ==
    \A k \in DOMAIN batch : batch[k].token \in Tokens /\ batch[k].amount > 0

\* validateBatch
ValidBatch(batch) ==
    /\ IsInjective([k \in DOMAIN batch |-> batch[k].id])
    /\ Convertible(batch)
    /\ \A t \in TokensOf(batch) : Unlimited(t) \/ TotalOf(batch, t) <= MaxTransfer[t]

\* A group with the gas it was given so far
NewGroup == [transfers |-> <<>>, gas |-> Overhead]

ExceedsMaxAmount(group, x) ==
    ~Unlimited(x.token) /\ TotalOf(group.transfers, x.token) + x.amount > MaxTransfer[x.token]

\* Mutant: the check of the gas forgets the calls already in the group
ExceedsGasLimitAlone(group, gas) == gas > MaxBatchGas /\ group.transfers # <<>>

ExceedsGasLimit(group, gas) == group.gas + gas > MaxBatchGas /\ group.transfers # <<>>

AddCall(group, x, gas) ==
    [transfers |-> Append(group.transfers, x), gas |-> group.gas + gas]

\* One round of the loop; s is the groups so far, the open one last.  The gas of
\* the call is that of its place in the open group, also when it opens a new one.
PlaceCall(s, x, per) ==
    LET group == Last(s)
        gas == GasForNthCall(per, Len(group.transfers))
    IN  IF ExceedsMaxAmount(group, x) \/ ExceedsGasLimit(group, gas)
        THEN Append(s, AddCall(NewGroup, x, gas))
        ELSE Append(Front(s), AddCall(group, x, gas))

SplitIntoBatches(batch, per) ==
    LET groups[n \in 0..Len(batch)] ==
            IF n = 0 THEN <<NewGroup>> ELSE PlaceCall(groups[n - 1], batch[n], per)
    IN  groups[Len(batch)]

\* prepareBatchTransfer once the gas is known
PlanGroups(batch, per, total) ==
    IF total <= MaxBatchGas THEN <<>> ELSE SplitIntoBatches(batch, per)

----------------------------------------------------------------------------
(* The steps of a call *)

InPlay(c) == use[c].at \notin {"new", "done", "failed"}

\* The worker signs batches one after another and singles beside each other
MayBegin(kind) == \A d \in Calls : InPlay(d) => kind = "single" /\ use[d].kind = "single"

\* Nobody compares the amount of a single with the maximum
Accepted(w) == IF w.kind = "single" THEN Convertible(w.batch) ELSE ValidBatch(w.batch)

\* Up to the first use of the node; what is not accepted goes no further
Begin(c, w) ==
    /\ use[c].at = "new"
    /\ MayBegin(w.kind)
    /\ use' = [use EXCEPT ![c] = [NewCall EXCEPT
                  !.kind = w.kind, !.batch = w.batch,
                  !.at = IF Accepted(w) THEN "estimating" ELSE "failed"]]
    /\ UNCHANGED <<learned, cachedFee, nextNonce, spare, lost, refused>>

\* estimateGasForTransaction and, on its result, signTransaction each add 20 percent
EstimateSingle(c, g) ==
    /\ use[c].at = "estimating" /\ use[c].kind = "single"
    /\ use' = [use EXCEPT ![c].gas = (((g * 120) \div 100) * 120) \div 100, ![c].at = "pricing"]
    /\ UNCHANGED <<learned, cachedFee, nextNonce, spare, lost, refused>>

\* Without group, or with one, a split call starts over as a plain batch
Planned(c, per, total) ==
    LET groups == PlanGroups(use[c].batch, per, total)
    IN  IF use[c].kind = "split" /\ Len(groups) <= 1
        THEN [use[c] EXCEPT !.kind = "batch"]
        ELSE [use[c] EXCEPT !.per = per, !.gas = total, !.groups = groups, !.at = "waiting"]

\* The node answers: the costs of the tokens are learned from it
EstimateBatch(c, g) ==
    LET n == Len(use[c].batch)
        per == GasForNthCall(g \div n, n)
    IN  /\ use[c].at = "estimating" /\ use[c].kind # "single"
        /\ learned' = UpdateTokenGasCosts(use[c].batch, per)
        /\ use' = [use EXCEPT ![c] = Planned(c, per, (g * 115) \div 100)]
        /\ UNCHANGED <<cachedFee, nextNonce, spare, lost, refused>>

\* The node fails: a single is given up, a batch uses what was learned
EstimateFails(c) ==
    /\ use[c].at = "estimating"
    /\ use' = [use EXCEPT ![c] =
                  IF use[c].kind = "single" THEN [@ EXCEPT !.at = "failed"]
                  ELSE Planned(c, FallbackPerCall(@.batch), FallbackGas(@.batch))]
    /\ UNCHANGED <<learned, cachedFee, nextNonce, spare, lost, refused>>

\* The nonces of singles are taken when all of them have their estimates
MayTakeNonce(c) ==
    /\ use[c].at = "waiting"
    /\ \A d \in Calls : use[d].at \notin {"estimating", "pricing", "fetching"}

TakeNonce(c) ==
    /\ MayTakeNonce(c)
    /\ nextNonce' = nextNonce + 1
    /\ use' = [use EXCEPT ![c].nonce = Held(nextNonce),
                            ![c].at = IF use[c].kind = "single" THEN "signing" ELSE "pricing"]
    /\ UNCHANGED <<learned, cachedFee, spare, lost, refused>>

Priced(c, fee) ==
    use' = [use EXCEPT ![c].fee = (fee * 110) \div 100,
                         ![c].at = IF use[c].kind = "single" THEN "waiting" ELSE "signing"]

UseCachedPrice(c) ==
    /\ use[c].at = "pricing" /\ cachedFee # 0
    /\ Priced(c, cachedFee)
    /\ UNCHANGED <<learned, cachedFee, nextNonce, spare, lost, refused>>

AskPrice(c) ==
    /\ use[c].at = "pricing" /\ cachedFee = 0
    /\ use' = [use EXCEPT ![c].at = "fetching"]
    /\ UNCHANGED <<learned, cachedFee, nextNonce, spare, lost, refused>>

FetchPrice(c, fee) ==
    /\ use[c].at = "fetching"
    /\ cachedFee' = fee
    /\ Priced(c, fee)
    /\ UNCHANGED <<learned, nextNonce, spare, lost, refused>>

\* 30 seconds after the entry was written
ExpirePrice ==
    /\ cachedFee # 0
    /\ cachedFee' = 0
    /\ UNCHANGED <<learned, nextNonce, spare, lost, refused, use>>

\* Mutant: every transaction of a split call carries its first group
ContentOfFirstGroup(c) ==
    LET group == IF use[c].groups = <<>> THEN [transfers |-> use[c].batch, gas |-> use[c].gas]
                 ELSE use[c].groups[1]
    IN  [nonce |-> use[c].nonce.n, transfers |-> group.transfers, gas |-> group.gas,
         fee |-> use[c].fee]

\* What the next transaction of the call carries; a plain batch takes all its calls
Content(c) ==
    IF use[c].kind = "split"
    THEN LET group == use[c].groups[Len(use[c].txs) + 1]
         IN  [nonce |-> use[c].nonce.n, transfers |-> group.transfers, gas |-> group.gas,
              fee |-> use[c].fee]
    ELSE [nonce |-> use[c].nonce.n, transfers |-> use[c].batch, gas |-> use[c].gas,
          fee |-> use[c].fee]

SignNext(c) ==
    /\ use[c].at = "signing"
    /\ use' = [use EXCEPT
         ![c].txs = Append(@, Content(c)),
         ![c].nonce = NoNonce,
         ![c].at = IF use[c].kind = "split" /\ Len(use[c].txs) + 1 < Len(use[c].groups)
                   THEN "waiting" ELSE "done"]
    /\ UNCHANGED <<learned, cachedFee, nextNonce, spare, lost, refused>>

\* The call throws: whatever it signed so far is not returned
Throw(c) == use' = [use EXCEPT ![c].at = "failed", ![c].nonce = NoNonce, ![c].txs = <<>>]

NoncesOf(c) == {use[c].txs[k].nonce : k \in DOMAIN use[c].txs}
NonceInHand(c) == IF use[c].nonce.held THEN {use[c].nonce.n} ELSE {}

\* Redis, the node or the wallet fails before a nonce is in hand
FailBefore(c) ==
    /\ MayTakeNonce(c) \/ (use[c].at = "fetching" /\ use[c].kind = "single")
    /\ Throw(c)
    /\ lost' = lost \cup NoncesOf(c)
    /\ UNCHANGED <<learned, cachedFee, nextNonce, spare, refused>>

\* Mutant: nobody gives the nonce of a failed transaction to the pool
FailAfterForgetting(c) ==
    /\ use[c].at \in {"fetching", "signing"} /\ use[c].nonce.held /\ use[c].kind # "split"
    /\ Throw(c)
    /\ lost' = lost \cup NonceInHand(c)
    /\ UNCHANGED <<learned, cachedFee, nextNonce, spare, refused>>

\* ... or after: the nonce goes to the pool, if the pool takes it
FailAfter(c) ==
    /\ use[c].at \in {"fetching", "signing"} /\ use[c].nonce.held /\ use[c].kind # "split"
    /\ Throw(c)
    /\ \/ spare' = spare \cup NonceInHand(c) /\ UNCHANGED <<lost, refused>>
       \/ /\ lost' = lost \cup NonceInHand(c) /\ refused' = refused \cup NonceInHand(c)
          /\ UNCHANGED spare
    /\ UNCHANGED <<learned, cachedFee, nextNonce>>

\* A split call returns nothing to the pool, neither this nonce nor the earlier ones
FailSplit(c) ==
    /\ use[c].at \in {"fetching", "signing"} /\ use[c].kind = "split"
    /\ Throw(c)
    /\ lost' = lost \cup NonceInHand(c) \cup NoncesOf(c)
    /\ UNCHANGED <<learned, cachedFee, nextNonce, spare, refused>>

BatchNext ==
    \/ \E c \in Calls : \/ \E w \in Works : Begin(c, w)
                        \/ \E g \in Estimates : EstimateSingle(c, g) \/ EstimateBatch(c, g)
                        \/ EstimateFails(c) \/ TakeNonce(c)
                        \/ UseCachedPrice(c) \/ AskPrice(c)
                        \/ \E fee \in Prices : FetchPrice(c, fee)
                        \/ SignNext(c) \/ FailBefore(c) \/ FailAfter(c) \/ FailSplit(c)
    \/ ExpirePrice

BatchSpec == BatchInit /\ [][BatchNext]_batchVars

----------------------------------------------------------------------------
(* Properties *)

\* The groups a batch is split into are the batch, cut in order: none is empty,
\* none pays out more of a token than its maximum, one of several calls fits in
\* the gas of a batch, and a group is only closed when the next call would not
\* have fitted (splitIntoBatches).
SplitSound ==
    \A c \in Calls :
      LET groups == use[c].groups
      IN  groups # <<>> =>
            /\ FlattenSeq([k \in DOMAIN groups |-> groups[k].transfers]) = use[c].batch
            /\ \A k \in DOMAIN groups :
                 /\ groups[k].transfers # <<>>
                 /\ Len(groups[k].transfers) > 1 => groups[k].gas <= MaxBatchGas
                 /\ \A t \in Tokens : Unlimited(t) \/ TotalOf(groups[k].transfers, t) <= MaxTransfer[t]
                 /\ k < Len(groups) =>
                      ExceedsGasLimit(groups[k], GasForNthCall(use[c].per, Len(groups[k].transfers)))

\* A call that ends well returns transactions that carry out every transfer of
\* its batch once and in order, with rising nonces; one that fails returns none.
ReturnedComplete ==
    \A c \in Calls :
      LET txs == use[c].txs
      IN  /\ use[c].at = "failed" => txs = <<>>
          /\ use[c].at = "done" =>
               /\ FlattenSeq([k \in DOMAIN txs |-> txs[k].transfers]) = use[c].batch
               /\ \A j, k \in DOMAIN txs : j < k => txs[j].nonce < txs[k].nonce

\* Nonces are conserved: one taken from the counter is in exactly one place, in the hand
\* or in a transaction of one call, in the pool, or lost (getAndIncrement,
\* returnNonceToPool), so that no failure hands one to two transactions.  And a call that
\* fails gives its nonce back: lost are only nonces that the pool did not take, unless a
\* call of signBatchTransactionWithSplitting failed, which gives nothing back.
NonceAccounted ==
    /\ \A n \in 0..(nextNonce - 1) :
         Cardinality({c \in Calls : n \in NonceInHand(c) \cup NoncesOf(c)})
           + (IF n \in spare THEN 1 ELSE 0) + (IF n \in lost THEN 1 ELSE 0) = 1
    /\ lost \subseteq refused \/ \E c \in Calls : use[c].kind = "split" /\ use[c].at = "failed"
=============================================================================
