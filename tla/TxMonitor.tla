----------------------------- MODULE TxMonitor -----------------------------
(***************************************************************************)
(* The transaction monitor: it takes broadcast results from                *)
(* broadcast-tx-queue, keeps the transactions to follow in a map in        *)
(* memory, asks the node about them and writes the status of their rows in *)
(* sent_transactions.                                                      *)
(*                                                                         *)
(* The poller's three tiers, the block listener, the timer set when a      *)
(* transaction is added and POST /check all call checkTransaction, and     *)
(* nothing keeps two calls for one transaction apart: they share the       *)
(* mutable object of the map, which a redelivered message replaces by a    *)
(* new one.  Objects have identities here (obj[t][k] is the k-th object of *)
(* t) and every await of a check is a step of its own.  The connection is  *)
(* that of ChainConnection, of which the checks ask a provider and which   *)
(* listens to blocks while something is followed.                          *)
(*                                                                         *)
(* The chain is the one the service has a configuration for, a local       *)
(* development chain: it does not reorganise.  Times are left out: a poll  *)
(* may find any transaction old enough, and a transaction checked just now *)
(* is never stuck, so that isTransactionStuck only costs time.  Messages   *)
(* that report a failed broadcast are deleted without effect.              *)
(***************************************************************************)
EXTENDS ChainConnection, FiniteSets

CONSTANTS
    Txs,          \* hashes of the broadcast transactions
    Configured,   \* those on a chain that ChainService knows
    Checkers,     \* calls of checkTransaction
    MaxHeight,    \* bound on the height of the chain
    Required,     \* getRequiredConfirmations
    MaxRetries,   \* config.monitoring.maxRetries
    NodeFails     \* may calls to the node fail?

VARIABLES
    height,       \* number of the chain's last block
    minedAt,      \* block of a transaction, 0 when it has none
    reverted,     \* mined transactions whose receipt has status 0
    row,          \* status in sent_transactions
    msg,          \* the broadcast result in broadcast-tx-queue
    up,           \* does the service run?
    made,         \* objects made for a transaction so far
    entry,        \* activeTransactions: index of its object, 0 when absent
    obj,          \* the objects
    check,        \* where each checker stands
    erred,        \* transactions a call to the node failed for
    judged        \* transactions a check found to be final

chain == <<height, minedAt, reverted>>
vars == <<chain, row, msg, up, made, entry, obj, check, erred, judged, feed, bounds>>

ASSUME ConstantsAssumption ==
    /\ Txs # {} /\ Configured \subseteq Txs
    /\ MaxRetries \in Nat \ {0}
    /\ MaxHeight \in Nat /\ Required \in Nat \ {0} /\ Required <= MaxHeight
    /\ NodeFails \in BOOLEAN

Pending == {"SENT", "CONFIRMING"}
Final == {"CONFIRMED", "FAILED"}
Objects == [status : Pending \cup Final, retries : 0..MaxRetries]

Stages == {"idle", "provider", "receipt", "lookup", "note", "height", "stuckProvider", "stuck",
           "save", "giveUp"}

\* tx and k name the object, prev is previousStatus, val the status on its way to the row
Checks == [at : Stages, tx : Txs, k : 1..MaxAdds,
           prev : Pending \cup Final, val : Pending \cup Final]

\* Type invariant.
TypeOK ==
    /\ height \in 1..MaxHeight
    /\ minedAt \in [Txs -> 0..MaxHeight]
    /\ reverted \subseteq Txs
    /\ row \in [Txs -> Pending \cup Final]
    /\ msg \in [Txs -> {"visible", "deleted"}]
    /\ up \in BOOLEAN
    /\ made \in [Txs -> 0..MaxAdds]
    /\ entry \in [Txs -> 0..MaxAdds]
    /\ obj \in [Txs -> [1..MaxAdds -> Objects]]
    /\ check \in [Checkers -> Checks]
    /\ erred \subseteq Txs /\ judged \subseteq Txs
    /\ feed \in Feeds /\ bounds \in Bounds

Fresh == [status |-> "SENT", retries |-> 0]
Idle == [at |-> "idle", tx |-> CHOOSE t \in Txs : TRUE, k |-> 1, prev |-> "SENT", val |-> "SENT"]

----------------------------------------------------------------------------
(* What is followed *)

\* What the map holds for the chain, BROADCASTED rows never being written
HasActiveTx(e, o) == \E t \in Configured : e[t] # 0 /\ o[t][e[t]].status \in Pending

\* Timers, providers that were waited for, events of the sockets
Connection ==
    /\ up
    /\ ConnectionStep(HasActiveTx(entry, obj))
    /\ UNCHANGED <<chain, row, msg, up, made, entry, obj, check, erred, judged>>

\* Mutant: the object takes the status of the message
PutBroadcasted(t, status) ==
    /\ made' = [made EXCEPT ![t] = @ + 1]
    /\ entry' = [entry EXCEPT ![t] = made[t] + 1]
    /\ obj' = [obj EXCEPT ![t][made[t] + 1] = [Fresh EXCEPT !.status = "BROADCASTED"]]

\* A fresh object for t in the map; a check that runs keeps the old one
Put(t, status) ==
    /\ made' = [made EXCEPT ![t] = @ + 1]
    /\ entry' = [entry EXCEPT ![t] = made[t] + 1]
    /\ obj' = [obj EXCEPT ![t][made[t] + 1] = [Fresh EXCEPT !.status = status]]

\* processMessage: addTransaction, then the deletion, whose errors are swallowed
AddTransaction(t) ==
    /\ up /\ msg[t] = "visible" /\ made[t] < bounds.adds
    /\ Put(t, "SENT")
    /\ feed' \in IF feed.conn = "connected"
                 THEN UpdateBlockSubscription(feed, HasActiveTx(entry', obj'))
                 ELSE {feed}
    /\ msg' \in {msg, [msg EXCEPT ![t] = "deleted"]}
    /\ UNCHANGED <<chain, row, up, check, erred, judged>>

Loaded == {t \in Txs : row[t] \in Pending}

\* loadPendingTransactions, then startListening
Start ==
    /\ ~up
    /\ up' = TRUE
    /\ made' = [t \in Txs |-> IF t \in Loaded THEN 1 ELSE 0]
    /\ entry' = made'
    /\ obj' = [t \in Txs |-> [obj[t] EXCEPT ![1].status = IF t \in Loaded THEN row[t] ELSE @]]
    /\ feed' = [Disconnected EXCEPT !.timers = 1, !.drops = feed.drops]
    /\ UNCHANGED <<chain, row, msg, check, erred, judged>>

\* A crash, or shutdown: the map, the checks and the connection are gone
Stop ==
    /\ up
    /\ up' = FALSE
    /\ made' = [t \in Txs |-> 0]
    /\ entry' = [t \in Txs |-> 0]
    /\ obj' = [t \in Txs |-> [k \in 1..MaxAdds |-> Fresh]]
    /\ check' = [c \in Checkers |-> Idle]
    /\ feed' = [Disconnected EXCEPT !.drops = feed.drops]
    /\ UNCHANGED <<chain, row, msg, erred, judged>>

----------------------------------------------------------------------------
(* checkTransaction *)

At(c, st) == check[c].at = st

\* The object check c works on
Object(c) == obj[check[c].tx][check[c].k]

Goto(c, st) == check' = [check EXCEPT ![c].at = st]
Return(c) == check' = [check EXCEPT ![c] = Idle]

\* retryCount only matters up to the limit
Counted(o) == [o EXCEPT !.retries = Least(@ + 1, MaxRetries)]

\* updateTransactionStatus: errors, a missing row among them, are swallowed
UpdateRow(t, status) == row' \in {row, [row EXCEPT ![t] = status]}

\* The hash leaves the map, whatever object it leads to by now
Forget(t) ==
    /\ entry' = [entry EXCEPT ![t] = 0]
    /\ feed' \in UpdateBlockSubscription(feed, HasActiveTx(entry', obj))

\* The hash is looked up in the map, and a provider asked for: it is there, or the
\* check waits for it, or ends without
Begin(c, t) ==
    /\ up /\ At(c, "idle") /\ entry[t] # 0 /\ t \in Configured
    /\ Cardinality({d \in Checkers : ~At(d, "idle")}) < bounds.checks
    /\ LET Going(st) == check' = [check EXCEPT ![c] = [Idle EXCEPT !.at = st, !.tx = t, !.k = entry[t]]]
       IN  \/ Live(feed) /\ Going("receipt") /\ UNCHANGED feed
           \/ ~Live(feed) /\ Going("provider") /\ feed' \in Await(feed, "check")
           \/ ~Live(feed) /\ feed' = Removed(feed) /\ UNCHANGED check
    /\ UNCHANGED <<chain, row, msg, up, made, entry, obj, erred, judged>>

\* The provider is ready, or there is none and the check ends, or the transaction is not
\* stuck; which of several waiting checks it is makes no difference
GetProvider(c) ==
    /\ \E s \in Sockets :
        /\ Opening(s, "check")
        /\ \/ At(c, "provider") /\ feed' = Opened(feed, s) /\ Goto(c, "receipt")
           \/ At(c, "provider") /\ feed' = Refused(feed, s) /\ Return(c)
           \/ /\ At(c, "stuckProvider") /\ Goto(c, "stuck")
              /\ feed' \in {Opened(feed, s), Refused(feed, s)}
    /\ UNCHANGED <<chain, row, msg, up, made, entry, obj, erred, judged>>

\* getTransactionsByTier: the fast tier takes whatever was not checked for a minute,
\* whatever its status
Polled(t) == entry[t] # 0

Poll(c, t) == Polled(t) /\ Begin(c, t)

\* A block event, of any open socket with a listener: the transactions that were not final
\* when it came are checked, and without any the subscription ends.  (For the pending ones
\* the block is asked for, with a provider like that of the check that follows.)
NewBlock(c) ==
    /\ up /\ \E s \in Sockets : feed.sock[s].at = "open" /\ feed.sock[s].attached
    /\ \/ \E t \in Txs : entry[t] # 0 /\ obj[t][entry[t]].status \in Pending /\ Begin(c, t)
       \/ /\ ~HasActiveTx(entry, obj)
          /\ feed' \in UpdateBlockSubscription(feed, FALSE)
          /\ UNCHANGED <<chain, row, msg, up, made, entry, obj, check, erred, judged>>

\* POST /check/:txHash, and the timer set by addTransaction
Request(c, t) == Begin(c, t)

ReadReceipt(c) ==
    /\ At(c, "receipt")
    /\ Goto(c, IF minedAt[check[c].tx] # 0 THEN "height" ELSE "lookup")
    /\ UNCHANGED <<chain, row, msg, up, made, entry, obj, erred, judged, feed>>

\* Mutant: waiting to be mined counts like an error
LookUpGivesUp(c) ==
    LET t == check[c].tx
        o == Counted(Object(c))
    IN  /\ At(c, "lookup") /\ minedAt[t] = 0
        /\ IF o.retries >= MaxRetries
           THEN /\ obj' = [obj EXCEPT ![t][check[c].k] = [o EXCEPT !.status = "FAILED"]]
                /\ judged' = judged \cup {t}
                /\ Goto(c, "giveUp")
           ELSE /\ obj' = [obj EXCEPT ![t][check[c].k] = o]
                /\ Return(c)
                /\ UNCHANGED judged
        /\ UNCHANGED <<chain, row, msg, up, made, entry, erred, feed>>

\* Without receipt: the transaction may have been mined since
LookUp(c) ==
    LET t == check[c].tx
        o == Object(c)
    IN  /\ At(c, "lookup")
        /\ \/ /\ minedAt[t] = 0
              /\ obj' = [obj EXCEPT ![t][check[c].k] = Counted(@)]
              /\ Return(c)
           \/ /\ minedAt[t] # 0
              /\ obj' = [obj EXCEPT ![t][check[c].k].status = "CONFIRMING"]
              /\ IF o.status # "CONFIRMING" THEN Goto(c, "note") ELSE Return(c)
        /\ UNCHANGED <<chain, row, msg, up, made, entry, erred, judged, feed>>

Note(c) ==
    /\ At(c, "note")
    /\ UpdateRow(check[c].tx, "CONFIRMING")
    /\ Return(c)
    /\ UNCHANGED <<chain, msg, up, made, entry, obj, erred, judged, feed>>

Verdict(t, confirmations) ==
    CASE t \in reverted -> "FAILED"
      [] t \notin reverted /\ confirmations >= Required -> "CONFIRMED"
      [] OTHER -> "CONFIRMING"

\* Mutant: one block too many is counted
ConfirmationsAhead(t) == height - minedAt[t] + 2

Confirmations(t) == height - minedAt[t] + 1

\* A final status is written at once; for another one isTransactionStuck is asked first,
\* which asks for a provider again
Judge(c) ==
    LET t == check[c].tx
        status == Verdict(t, Confirmations(t))
    IN  /\ At(c, "height")
        /\ obj' = [obj EXCEPT ![t][check[c].k].status = status]
        /\ \/ /\ status \in Pending /\ UNCHANGED entry
              /\ \E st \in {"stuckProvider", "stuck"} :
                  /\ check' = [check EXCEPT ![c].at = st, ![c].prev = Object(c).status]
                  /\ \/ st = "stuck" /\ Live(feed) /\ UNCHANGED feed
                     \/ st = "stuck" /\ ~Live(feed) /\ feed' = Removed(feed)
                     \/ st = "stuckProvider" /\ ~Live(feed) /\ feed' \in Await(feed, "check")
           \/ /\ status \in Final /\ Object(c).status # status
              /\ check' = [check EXCEPT ![c].at = "save", ![c].val = status]
              /\ UNCHANGED <<entry, feed>>
           \/ /\ status \in Final /\ Object(c).status = status
              /\ Return(c)
              /\ Forget(t)
        /\ judged' = IF status \in Final THEN judged \cup {t} ELSE judged
        /\ UNCHANGED <<chain, row, msg, up, made, erred>>

\* Mutant: the transaction leaves the map whatever its status
SettleAlways(c) == Forget(check[c].tx)

\* The object is read again: another check may have given it a final status
Settle(c) ==
    IF Object(c).status \in Final THEN Forget(check[c].tx) ELSE UNCHANGED <<entry, feed>>

AskStuck(c) ==
    /\ At(c, "stuck")
    /\ IF Object(c).status # check[c].prev
       THEN /\ check' = [check EXCEPT ![c].at = "save", ![c].val = Object(c).status]
            /\ UNCHANGED <<entry, feed>>
       ELSE Return(c) /\ Settle(c)
    /\ UNCHANGED <<chain, row, msg, up, made, obj, erred, judged>>

Save(c) ==
    /\ At(c, "save")
    /\ UpdateRow(check[c].tx, check[c].val)
    /\ Return(c)
    /\ Settle(c)
    /\ UNCHANGED <<chain, msg, up, made, obj, erred, judged>>

\* The catch block: the last retry makes the transaction FAILED
NodeError(c) ==
    LET t == check[c].tx
        o == Counted(Object(c))
    IN  /\ NodeFails /\ check[c].at \in {"receipt", "lookup", "height"}
        /\ erred' = erred \cup {t}
        /\ IF o.retries >= MaxRetries
           THEN /\ obj' = [obj EXCEPT ![t][check[c].k] = [o EXCEPT !.status = "FAILED"]]
                /\ judged' = judged \cup {t}
                /\ Goto(c, "giveUp")
           ELSE /\ obj' = [obj EXCEPT ![t][check[c].k] = o]
                /\ Return(c)
                /\ UNCHANGED judged
        /\ UNCHANGED <<chain, row, msg, up, made, entry, feed>>

GiveUp(c) ==
    /\ At(c, "giveUp")
    /\ UpdateRow(check[c].tx, "FAILED")
    /\ Return(c)
    /\ Forget(check[c].tx)
    /\ UNCHANGED <<chain, msg, up, made, obj, erred, judged>>

----------------------------------------------------------------------------
(* The chain; a transaction is mined while there are blocks left to confirm it *)

Mine(t) ==
    /\ minedAt[t] = 0 /\ height + Required <= MaxHeight
    /\ height' = height + 1
    /\ minedAt' = [minedAt EXCEPT ![t] = height + 1]
    /\ reverted' \in {reverted, reverted \cup {t}}
    /\ UNCHANGED <<row, msg, up, made, entry, obj, check, erred, judged, feed>>

Grow ==
    /\ height < MaxHeight /\ \A t \in Txs : minedAt[t] # 0 \/ height + Required < MaxHeight
    /\ height' = height + 1
    /\ UNCHANGED <<minedAt, reverted, row, msg, up, made, entry, obj, check, erred, judged, feed>>

\* The broadcaster saves the row before it sends the result.  (When it failed to, every
\* update fails; such a row, which no start loads, is left out.)
Init ==
    /\ height = 1 /\ minedAt = [t \in Txs |-> 0] /\ reverted = {}
    /\ row = [t \in Txs |-> "SENT"]
    /\ msg = [t \in Txs |-> "visible"]
    /\ up = FALSE /\ made = [t \in Txs |-> 0] /\ entry = [t \in Txs |-> 0]
    /\ obj = [t \in Txs |-> [k \in 1..MaxAdds |-> Fresh]]
    /\ check = [c \in Checkers |-> Idle]
    /\ erred = {} /\ judged = {} /\ feed = Disconnected
    /\ bounds \in Bounds

CheckStep(c) ==
    \/ GetProvider(c) \/ ReadReceipt(c) \/ LookUp(c) \/ Note(c) \/ Judge(c) \/ AskStuck(c)
    \/ Save(c) \/ NodeError(c) \/ GiveUp(c)

Next ==
    /\ \/ Start \/ Stop
       \/ \E t \in Txs : AddTransaction(t) \/ Mine(t)
       \/ \E c \in Checkers : CheckStep(c) \/ NewBlock(c)
       \/ \E c \in Checkers, t \in Txs : Poll(c, t) \/ Request(c, t)
       \/ Connection \/ Grow
    /\ UNCHANGED bounds

Spec == Init /\ [][Next]_vars

----------------------------------------------------------------------------
(* Properties *)

\* A row says CONFIRMED only when the transaction is in a block with success and
\* the required number of blocks are on the chain, although the receipt, the
\* block number and the write come from different moments and checks share objects.
ConfirmedOnChain ==
    \A t \in Txs : row[t] = "CONFIRMED" =>
        /\ minedAt[t] # 0 /\ t \notin reverted
        /\ height >= minedAt[t] + Required - 1

\* A row says FAILED only when the receipt says so or a call to the node failed
\* while the transaction was checked: waiting to be mined never makes it FAILED.
FailedHasCause ==
    \A t \in Txs : row[t] = "FAILED" => t \in reverted \cup erred

\* A transaction whose result was taken off the queue stays in the map of a running
\* service until a check found it final: no check, working on an object that a
\* redelivered message replaced, makes the service forget it earlier.
FollowedUntilFinal ==
    \A t \in Txs : up /\ msg[t] = "deleted" /\ entry[t] = 0 => t \in judged
=============================================================================
