---------------------------- MODULE PendingList ----------------------------
(***************************************************************************)
(* The list of pending transactions that the broadcaster keeps in Redis    *)
(* for an address, nonce:pending:<address>, and its processing by          *)
(* processAddressQueue, which a timer starts every 5 seconds in every      *)
(* worker, whether or not the last round is over.  Every update reads the  *)
(* whole list, changes it in memory and writes it back.                    *)
(*                                                                         *)
(* addTransaction has no caller yet; it is modelled as a public method     *)
(* that anyone may call.  A transaction of the list never reaches the      *)
(* node: its chainContext comes back from JSON without methods and         *)
(* getChainId throws, so an entry is only removed when its transaction was *)
(* broadcast from its own message meanwhile, or is malformed.              *)
(*                                                                         *)
(* DEL and RPUSH of setPendingTransactions go out in one pipeline and are  *)
(* one step here, as is any other Redis call; the calls do not fail.       *)
(***************************************************************************)
EXTENDS Integers, Sequences, SequencesExt, FiniteSets

CONSTANTS
    PendingTxs,  \* transactions: [key, nonce, priority]
    Malformed,   \* those whose signedTx does not start with 0x
    Rounds,      \* concurrent runs of processAddressQueue
    Adders       \* concurrent runs of addTransaction

NoLast == -1     \* nothing under nonce:last:<address>

ASSUME PendingAssumption ==
    /\ \A t \in PendingTxs : t.nonce \in Nat /\ t.priority \in Nat
    /\ Malformed \subseteq PendingTxs

VARIABLES
    list,        \* nonce:pending:<address>
    lastNonce,   \* nonce:last:<address>
    addressLock, \* does nonce:processing:<address> exist?
    elsewhere,   \* transactions whose message is being handled, under tx:processing:<key>
    sent,        \* transactions whose tx:broadcast:completed:<key> exists
    round,       \* where each run of processAddressQueue stands
    adder,       \* where each run of addTransaction stands
    added,       \* history: what addTransaction was called with
    overlapped,  \* history: was the list written between a read and its write?
    overran      \* history: did the address lock expire?

pendingVars == <<list, lastNonce, addressLock, elsewhere, sent, round, adder, added,
                 overlapped, overran>>

\* Between startProcessing and the release of the address
Inside == {"locked", "trying", "sent", "removing", "writing", "unreadable", "skipping",
           "releasing"}

Resting == [at |-> "idle", tx |-> {}, read |-> <<>>]

SortedList(s) == \A i, j \in DOMAIN s : i < j => s[i].nonce < s[j].nonce

PendingTypeOK ==
    /\ list \in Seq(PendingTxs) /\ SortedList(list)
    /\ lastNonce \in {NoLast} \cup {t.nonce : t \in PendingTxs}
    /\ addressLock \in BOOLEAN
    /\ elsewhere \cup sent \cup added \subseteq PendingTxs
    /\ \A r \in Rounds :
         /\ round[r].at \in Inside \cup {"idle", "peeked", "free", "next", "untracking"}
         /\ round[r].tx \subseteq PendingTxs /\ round[r].read \in Seq(PendingTxs)
    /\ \A a \in Adders : adder[a].at \in {"idle", "writing"}
    /\ {overlapped, overran} \subseteq BOOLEAN

PendingInit ==
    /\ list = <<>>
    /\ lastNonce = NoLast
    /\ addressLock = FALSE
    /\ elsewhere = {}
    /\ sent = {}
    /\ round = [r \in Rounds |-> Resting]
    /\ adder = [a \in Adders |-> Resting]
    /\ added = {}
    /\ overlapped = FALSE
    /\ overran = FALSE

\* The transaction a run is working on
TxOf(r) == CHOOSE t \in PendingTxs : t \in round[r].tx

\* Does a run hold tx:processing:<key> of its transaction?
HoldsTx(r) ==
    \/ round[r].at \in {"unreadable", "untracking"}
    \/ round[r].at \in {"removing", "writing", "releasing"} /\ TxOf(r) \in Malformed

Tracked == elsewhere \cup {TxOf(r) : r \in {q \in Rounds : HoldsTx(q)}}

\* A run that has read the list and will write it
Stale(x) == x.at = "writing" /\ x.read # list

WriteList(s, x) ==
    /\ list' = s
    /\ overlapped' = (overlapped \/ Stale(x))

----------------------------------------------------------------------------
(* addTransaction *)

AddRead(a, t) ==
    /\ adder[a].at = "idle" /\ t \notin added
    /\ adder' = [adder EXCEPT ![a] = [at |-> "writing", tx |-> {t}, read |-> list]]
    /\ added' = added \cup {t}
    /\ UNCHANGED <<list, lastNonce, addressLock, elsewhere, sent, round, overlapped, overran>>

\* A transaction of the same nonce is replaced by one of higher priority; another one
\* goes to its place by nonce, which is where pushing it and sorting puts it, since
\* the list was sorted before (SortedList)
WithTransaction(s, t) ==
    LET same == SelectInSeq(s, LAMBDA u : u.nonce = t.nonce)
        next == SelectInSeq(s, LAMBDA u : u.nonce > t.nonce)
    IN  IF same # 0 THEN IF t.priority > s[same].priority THEN [s EXCEPT ![same] = t] ELSE s
        ELSE IF next # 0 THEN InsertAt(s, next, t)
        ELSE Append(s, t)

AddWrite(a) ==
    /\ adder[a].at = "writing"
    /\ \E t \in adder[a].tx :
         LET s == WithTransaction(adder[a].read, t)
         IN  IF s = adder[a].read THEN UNCHANGED <<list, overlapped>> ELSE WriteList(s, adder[a])
    /\ adder' = [adder EXCEPT ![a] = Resting]
    /\ UNCHANGED <<lastNonce, addressLock, elsewhere, sent, round, added, overran>>

----------------------------------------------------------------------------
(* processAddressQueue *)

\* Step of a run to another place, with its transaction
Goto(r, at) == round' = [round EXCEPT ![r].at = at]
EndRound(r) == round' = [round EXCEPT ![r] = Resting]

\* getNextTransactionForAddress: the first of the list, if nobody processes the
\* address and its nonce is the next one
Peek(r) ==
    /\ round[r].at = "idle" /\ list # <<>>
    /\ round' = [round EXCEPT ![r] = [at |-> "peeked", tx |-> {Head(list)}, read |-> <<>>]]
    /\ UNCHANGED <<list, lastNonce, addressLock, elsewhere, sent, adder, added, overlapped, overran>>

CheckFree(r) ==
    /\ round[r].at = "peeked"
    /\ IF addressLock THEN EndRound(r) ELSE Goto(r, "free")
    /\ UNCHANGED <<list, lastNonce, addressLock, elsewhere, sent, adder, added, overlapped, overran>>

CheckSequence(r) ==
    /\ round[r].at = "free"
    /\ IF lastNonce # NoLast /\ TxOf(r).nonce # lastNonce + 1 THEN EndRound(r) ELSE Goto(r, "next")
    /\ UNCHANGED <<list, lastNonce, addressLock, elsewhere, sent, adder, added, overlapped, overran>>

\* Mutant: the lock is set without NX
LockAddressAlways(r) ==
    /\ round[r].at = "next"
    /\ Goto(r, "locked") /\ addressLock' = TRUE
    /\ UNCHANGED <<list, lastNonce, elsewhere, sent, adder, added, overlapped, overran>>

\* startProcessing; without the lock it throws and ends the run
LockAddress(r) ==
    /\ round[r].at = "next"
    /\ IF addressLock THEN EndRound(r) /\ UNCHANGED addressLock
       ELSE Goto(r, "locked") /\ addressLock' = TRUE
    /\ UNCHANGED <<list, lastNonce, elsewhere, sent, adder, added, overlapped, overran>>

CheckSent(r) ==
    /\ round[r].at = "locked"
    /\ Goto(r, IF TxOf(r) \in sent THEN "sent" ELSE "trying")
    /\ UNCHANGED <<list, lastNonce, addressLock, elsewhere, sent, adder, added, overlapped, overran>>

\* Nobody else may work on the transaction; then a malformed one is removed, and
\* for any other one getChainId throws
Track(r) ==
    /\ round[r].at = "trying"
    /\ Goto(r, IF TxOf(r) \in Tracked THEN "skipping"
               ELSE IF TxOf(r) \in Malformed THEN "removing" ELSE "unreadable")
    /\ UNCHANGED <<list, lastNonce, addressLock, elsewhere, sent, adder, added, overlapped, overran>>

\* completeTransaction with success: the last nonce is set, not raised
SetLast(r) ==
    /\ round[r].at = "sent"
    /\ lastNonce' = TxOf(r).nonce
    /\ Goto(r, "removing")
    /\ UNCHANGED <<list, addressLock, elsewhere, sent, adder, added, overlapped, overran>>

\* The read and the write that completeTransaction and removeTransaction share
RemoveRead(r) ==
    /\ round[r].at = "removing"
    /\ round' = [round EXCEPT ![r].at = "writing", ![r].read = list]
    /\ UNCHANGED <<list, lastNonce, addressLock, elsewhere, sent, adder, added, overlapped, overran>>

\* The filter by nonce, of which a sorted list has one transaction at most
Without(s, t) == RemoveFirstMatch(s, LAMBDA u : u.nonce = t.nonce)

RemoveWrite(r) ==
    /\ round[r].at = "writing"
    /\ WriteList(Without(round[r].read, TxOf(r)), round[r])
    /\ Goto(r, "releasing")
    /\ UNCHANGED <<lastNonce, addressLock, elsewhere, sent, adder, added, overran>>

\* Mutant: the failure of a transaction also removes it
UnreadableRemoving(r) ==
    /\ round[r].at = "unreadable"
    /\ Goto(r, "removing")
    /\ UNCHANGED <<list, lastNonce, addressLock, elsewhere, sent, adder, added, overlapped, overran>>

\* removeProcessing(redisKey) of the finally block, before the catch block
Unreadable(r) ==
    /\ round[r].at = "unreadable"
    /\ Goto(r, "releasing")
    /\ UNCHANGED <<list, lastNonce, addressLock, elsewhere, sent, adder, added, overlapped, overran>>

\* removeProcessingLock, whoever holds it now
Release(r) ==
    /\ round[r].at \in {"releasing", "skipping"}
    /\ addressLock' = FALSE
    /\ IF HoldsTx(r) THEN Goto(r, "untracking") ELSE EndRound(r)
    /\ UNCHANGED <<list, lastNonce, elsewhere, sent, adder, added, overlapped, overran>>

\* removeProcessing(redisKey) of the finally block, after a removal
Untrack(r) ==
    /\ round[r].at = "untracking"
    /\ EndRound(r)
    /\ UNCHANGED <<list, lastNonce, addressLock, elsewhere, sent, adder, added, overlapped, overran>>

----------------------------------------------------------------------------
(* Around the list *)

\* The message of the transaction is handled: broadcastTransaction takes its lock
TrackElsewhere(t) ==
    /\ t \notin Tracked \cup sent
    /\ elsewhere' = elsewhere \cup {t}
    /\ UNCHANGED <<list, lastNonce, addressLock, sent, round, adder, added, overlapped, overran>>

\* ... marks it as broadcast and raises the last nonce, or is refused
SendElsewhere(t) ==
    /\ t \in elsewhere
    /\ elsewhere' = elsewhere \ {t}
    /\ \/ /\ t \notin Malformed
          /\ sent' = sent \cup {t}
          /\ lastNonce' = IF t.nonce > lastNonce THEN t.nonce ELSE lastNonce
       \/ UNCHANGED <<sent, lastNonce>>
    /\ UNCHANGED <<list, addressLock, round, adder, added, overlapped, overran>>

\* The lock lasts 60 seconds; getStatistics also releases what is older
Expire ==
    /\ addressLock
    /\ addressLock' = FALSE
    /\ overran' = TRUE
    /\ UNCHANGED <<list, lastNonce, elsewhere, sent, round, adder, added, overlapped>>

PendingNext ==
    \/ \E a \in Adders : (\E t \in PendingTxs : AddRead(a, t)) \/ AddWrite(a)
    \/ \E r \in Rounds : \/ Peek(r) \/ CheckFree(r) \/ CheckSequence(r) \/ LockAddress(r)
                         \/ CheckSent(r) \/ Track(r) \/ SetLast(r) \/ RemoveRead(r)
                         \/ RemoveWrite(r) \/ Unreadable(r) \/ Release(r) \/ Untrack(r)
    \/ \E t \in PendingTxs : TrackElsewhere(t) \/ SendElsewhere(t)
    \/ Expire

PendingSpec == PendingInit /\ [][PendingNext]_pendingVars

----------------------------------------------------------------------------
(* Properties *)

\* No nonce drops out of the list silently: once addTransaction has put a
\* transaction of it there, one stays until a transaction of that nonce was
\* broadcast or found malformed (completeTransaction, removeTransaction).  Only
\* two updates of the list at the same time can lose one.
NonceKept ==
    \A t \in added :
      \/ overlapped
      \/ \E a \in Adders : t \in adder[a].tx
      \/ \E u \in PendingTxs :
           /\ u.nonce = t.nonce
           /\ u \in sent \cup (Malformed \cap added) \/ Contains(list, u)

\* The address has one processor at a time, as long as no lock expires under its
\* holder (startProcessing, removeProcessingLock).
AddressExclusive ==
    overran \/ \A q, r \in Rounds : round[q].at \in Inside /\ round[r].at \in Inside => q = r
=============================================================================
