----------------------- MODULE NonceAllocationProofs -----------------------
(***************************************************************************)
(* No two signed transactions carry the same nonce, for any number of      *)
(* instances and tasks, as long as an instance only initialises, and an    *)
(* outsider only sends, while no other instance runs, and the counter's    *)
(* key does not expire under a working service; and every step of the      *)
(* allocation is one of NonceOnce, or changes no nonce's place.            *)
(***************************************************************************)
EXTENDS NonceAllocation, TLAPS

\* The restrictions under which nonces are unique; NonceAllocationOverlap.cfg
\* shows what happens without the first one.
Calm == ~Overlap /\ ~Expires

----------------------------------------------------------------------------
(* The inductive invariant *)

\* Nonces that were handed out and must not be handed out again
Used == {n \in Nonces : \/ signed[n] > 0
                        \/ \E i \in Instances : open[i][n] > 0
                        \/ n \in pool}

Below(S, c) == \A n \in S : n < c

\* Everyone who is up is i
Only(i, l) == \A j \in Instances : l[j] = "up" => j = i

\* A nonce is in one place: one signed transaction or one open one
OneHolder ==
    \A n \in Nonces :
        /\ signed[n] <= 1
        /\ \A i \in Instances :
              /\ open[i][n] <= 1
              /\ open[i][n] > 0 => /\ signed[n] = 0
                                   /\ n \notin pool
                                   /\ \A j \in Instances : open[j][n] > 0 => i = j

CounterInv == counter # Missing => Below(Used, counter)

\* The key only disappears when every nonce is mined
MissingInv ==
    counter = Missing =>
        /\ \A i \in Instances : i \notin ready
        /\ Below(Used, mined)

\* What an initialisation will write is above everything used
InitInv ==
    \A i \in Instances, k \in Tasks :
        /\ init[i][k].at # "idle" => Only(i, life) /\ life[i] = "up" /\ sync[i].at = "idle"
        /\ init[i][k].at = "asked" /\ counter = Missing => Below(Used, init[i][k].net)
        /\ init[i][k].at = "got" => Below(Used, init[i][k].start)

LifeInv ==
    \A i \in Instances :
        /\ i \in ready => life[i] = "up"
        /\ life[i] = "up" /\ i \notin ready => Only(i, life)
        /\ sync[i].at # "idle" => i \in ready
        /\ \A n \in Nonces : open[i][n] > 0 => i \in ready

\* With two instances up, the node has nothing that was not allocated here
PendingInv ==
    \A i, j \in Instances :
        life[i] = "up" /\ life[j] = "up" /\ i # j => counter # Missing /\ pending <= counter

SyncInv ==
    \A i \in Instances :
        /\ sync[i].at = "asked" => sync[i].net <= pending
        /\ sync[i].at = "behind" => Only(i, life) /\ Value(counter) < sync[i].net
        /\ sync[i].at = "done" => sync[i].net <= Value(counter)

Inv ==
    /\ TypeOK
    /\ OneHolder
    /\ CounterInv
    /\ MissingInv
    /\ InitInv
    /\ LifeInv
    /\ PendingInv
    /\ SyncInv
    /\ mined <= pending
    /\ PooledUnused

----------------------------------------------------------------------------
(* Lemmas on the data *)

\* What is used of the set of nonces: it has natural numbers only, and the counter can be
\* counted up inside it.
LEMMA NoncesFacts ==
    /\ Nonces \subseteq Nat
    /\ 0 \in Nonces
    /\ \A n \in Nonces : n < MaxNonce => n + 1 \in Nonces
    /\ Missing \notin Nonces
PROOF BY ConstantsAssumption DEF Nonces

\* A write to one task of one instance (TransactionSigner.initialize) leaves the others.
LEMMA InitUpdate ==
    ASSUME TypeOK, NEW i \in Instances, NEW k \in Tasks, NEW t \in InitTasks,
           init' = [init EXCEPT ![i][k] = t]
    PROVE  /\ init' \in [Instances -> [Tasks -> InitTasks]]
           /\ \A j \in Instances, m \in Tasks :
                 init'[j][m] = IF j = i /\ m = k THEN t ELSE init[j][m]
PROOF BY DEF TypeOK

\* A write to the open transactions of one instance with one nonce leaves the others.
LEMMA OpenUpdate ==
    ASSUME TypeOK, NEW i \in Instances, NEW n \in Nonces, NEW v \in Nat,
           open' = [open EXCEPT ![i][n] = v]
    PROVE  /\ open' \in [Instances -> [Nonces -> Nat]]
           /\ \A j \in Instances, m \in Nonces :
                 open'[j][m] = IF j = i /\ m = n THEN v ELSE open[j][m]
PROOF BY DEF TypeOK

\* A write to the synchronisation of one instance (signBatchTransaction) leaves the others.
LEMMA SyncUpdate ==
    ASSUME TypeOK, NEW i \in Instances, NEW t \in SyncTasks,
           sync' = [sync EXCEPT ![i] = t]
    PROVE  /\ sync' \in [Instances -> SyncTasks]
           /\ \A j \in Instances : sync'[j] = IF j = i THEN t ELSE sync[j]
PROOF BY DEF TypeOK

\* What is above every used nonce stays above when it grows, as the maximum taken by
\* NonceCacheService.initialize does.
LEMMA BelowMore ==
    ASSUME NEW c \in Nonces, NEW d \in Nonces, c <= d, Below(Used, c)
    PROVE  Below(Used, d)
PROOF BY NoncesFacts DEF Below, Used

\* After INCR the counter is above the nonce it has just given out.
LEMMA BelowNext ==
    ASSUME NEW c \in Nonces, Below(Used, c), Used' = Used \cup {c}
    PROVE  Below(Used', c + 1)
PROOF
<1>1. \A n \in Used : n \in Nat /\ n < c
  BY NoncesFacts DEF Below, Used
<1> QED
  BY <1>1, NoncesFacts DEF Below

\* A wallet with any history and either a running fleet or none satisfies the invariant.
LEMMA InitEstablishes == ASSUME Init PROVE Inv
PROOF
<1>1. Used = {}
  BY NoncesFacts DEF Init, Used
<1>2. TypeOK
  BY ConstantsAssumption DEF Init, TypeOK, IdleTask, NoSync, InitTasks, SyncTasks,
     Nonces
<1>3. OneHolder /\ PooledUnused
  BY DEF Init, OneHolder, PooledUnused
<1>4. CounterInv
  BY <1>1 DEF CounterInv, Below
<1>5. MissingInv
  <2>1. counter = Missing => ready = {}
    BY ConstantsAssumption DEF Init, Nonces
  <2> QED
    BY <1>1, <2>1 DEF MissingInv, Below
<1>6. InitInv
  BY DEF Init, InitInv, IdleTask
<1>7. LifeInv
  <2>1. PICK W \in Fleets :
           /\ life = [i \in Instances |-> IF i \in W THEN "up" ELSE "new"]
           /\ ready = W
    BY DEF Init
  <2>2. \A i \in Instances : i \in ready <=> life[i] = "up"
    BY <2>1
  <2>3. \A i \in Instances : sync[i].at = "idle"
    BY DEF Init, NoSync
  <2>4. \A i \in Instances, n \in Nonces : open[i][n] = 0
    BY DEF Init
  <2>5. \A i \in Instances, n \in Nonces : ~(open[i][n] > 0)
    BY <2>4
  <2> QED
    BY <2>2, <2>3, <2>5, Zenon DEF LifeInv
<1>8. SyncInv
  BY DEF Init, SyncInv, NoSync
<1>9. PendingInv /\ mined <= pending
  BY <1>2, NoncesFacts DEF Init, PendingInv, TypeOK
<1> QED
  BY <1>2, <1>3, <1>4, <1>5, <1>6, <1>7, <1>8, <1>9 DEF Inv

\* The count an initialisation asks for is above every used nonce if the key is missing.
LEMMA AskLatestKeeps ==
    ASSUME Calm, Inv, NEW i \in Instances, NEW k \in Tasks, AskLatest(i, k)
    PROVE  Inv'
PROOF
<1> DEFINE t == [at |-> "asked", net |-> mined, start |-> 0]
<1>1. t \in InitTasks
  BY NoncesFacts DEF Inv, TypeOK, InitTasks, AskLatest
<1>2. init' = [init EXCEPT ![i][k] = t]
  BY DEF AskLatest
<1>3. t.at = "asked" /\ t.net = mined
  BY DEF Inv, InitTasks, AskLatest
<1> HIDE DEF t
<1>4. /\ init' \in [Instances -> [Tasks -> InitTasks]]
      /\ \A j \in Instances, m \in Tasks :
            init'[j][m] = IF j = i /\ m = k THEN t ELSE init[j][m]
  BY <1>1, <1>2, InitUpdate DEF Inv
<1>5. Used' = Used
  BY DEF AskLatest, Used
<1>6. TypeOK'
  BY <1>4 DEF Inv, TypeOK, AskLatest
<1>7. OneHolder'
  BY DEF Inv, OneHolder, AskLatest
<1>8. CounterInv'
  BY <1>5 DEF Inv, CounterInv, AskLatest
<1>9. MissingInv'
  BY <1>5 DEF Inv, MissingInv, AskLatest
<1>10. InitInv'
  <2>1. life[i] = "up" /\ Only(i, life) /\ sync[i].at = "idle"
    BY DEF Inv, LifeInv, AskLatest
  <2>2. counter = Missing => Below(Used, t.net)
    BY <1>3 DEF Inv, MissingInv
  <2> QED
    BY <1>5, <1>4, <2>1, <2>2 DEF Inv, InitInv, AskLatest
<1>11. LifeInv'
  BY DEF Inv, LifeInv, AskLatest
<1>12. PendingInv'
  BY DEF Inv, PendingInv, AskLatest
<1>13. SyncInv'
  BY DEF Inv, SyncInv, AskLatest
<1>14. (mined <= pending)'
  BY DEF Inv, AskLatest
<1>15. PooledUnused'
  BY DEF Inv, PooledUnused, AskLatest
<1> QED
  BY <1>6, <1>7, <1>8, <1>9, <1>10, <1>11, <1>12, <1>13, <1>14, <1>15 DEF Inv

\* The maximum of the node's count and the cached nonce is above every used nonce.
LEMMA GetCachedKeeps ==
    ASSUME Calm, Inv, NEW i \in Instances, NEW k \in Tasks, GetCached(i, k)
    PROVE  Inv'
PROOF
<1> DEFINE t == [at |-> "got", net |-> init[i][k].net,
                start |-> IF Value(counter) > init[i][k].net THEN Value(counter) ELSE init[i][k].net]
<1>1. t \in InitTasks
  BY NoncesFacts DEF Inv, TypeOK, InitTasks, GetCached, Value
<1>2. init' = [init EXCEPT ![i][k] = t]
  BY DEF GetCached, Value
<1>3. /\ t.at = "got" /\ init[i][k].net <= t.start
      /\ counter # Missing => counter <= t.start
  <2>1. init[i][k].net \in Nat /\ Value(counter) \in Nat
    <3>1. init[i][k] \in InitTasks /\ counter \in Nonces \cup {Missing}
      BY DEF Inv, TypeOK
    <3> QED
      BY <3>1, NoncesFacts DEF InitTasks, Value
  <2>2. counter # Missing => Value(counter) = counter
    BY DEF Value
  <2>3. CASE Value(counter) > init[i][k].net
    BY <2>1, <2>2, <2>3
  <2>4. CASE ~(Value(counter) > init[i][k].net)
    BY <2>1, <2>2, <2>4
  <2> QED
    BY <2>3, <2>4
<1> HIDE DEF t
<1>4. /\ init' \in [Instances -> [Tasks -> InitTasks]]
      /\ \A j \in Instances, m \in Tasks :
            init'[j][m] = IF j = i /\ m = k THEN t ELSE init[j][m]
  BY <1>1, <1>2, InitUpdate DEF Inv
<1>5. Used' = Used
  BY DEF GetCached, Used
<1>6. TypeOK'
  BY <1>4 DEF Inv, TypeOK, GetCached
<1>7. OneHolder'
  BY DEF Inv, OneHolder, GetCached
<1>8. CounterInv'
  BY <1>5 DEF Inv, CounterInv, GetCached
<1>9. MissingInv'
  BY <1>5 DEF Inv, MissingInv, GetCached
<1>10. InitInv'
  <2>1. init[i][k].at = "asked"
    BY DEF GetCached
  <2>2. /\ Only(i, life) /\ life[i] = "up" /\ sync[i].at = "idle"
        /\ counter = Missing => Below(Used, init[i][k].net)
    BY <2>1 DEF Inv, InitInv
  <2>3. Below(Used, t.start)
    <3>1. t.start \in Nonces /\ init[i][k].net \in Nonces /\ (counter # Missing => counter \in Nonces)
      BY <1>1 DEF InitTasks, Inv, TypeOK
    <3>2. CASE counter = Missing
      BY <3>1, <3>2, <1>3, <2>2, BelowMore
    <3>3. CASE counter # Missing
      BY <3>1, <3>3, <1>3, BelowMore DEF Inv, CounterInv
    <3> QED
      BY <3>2, <3>3
  <2> QED
    BY <1>5, <1>4, <2>3 DEF Inv, InitInv, GetCached
<1>11. LifeInv'
  BY DEF Inv, LifeInv, GetCached
<1>12. PendingInv'
  BY DEF Inv, PendingInv, GetCached
<1>13. SyncInv'
  BY DEF Inv, SyncInv, GetCached
<1>14. (mined <= pending)'
  BY DEF Inv, GetCached
<1>15. PooledUnused'
  BY DEF Inv, PooledUnused, GetCached
<1> QED
  BY <1>6, <1>7, <1>8, <1>9, <1>10, <1>11, <1>12, <1>13, <1>14, <1>15 DEF Inv

\* Writing that maximum keeps the counter above: nobody allocates in the meantime.
LEMMA SetStartKeeps ==
    ASSUME Calm, Inv, NEW i \in Instances, NEW k \in Tasks, SetStart(i, k)
    PROVE  Inv'
PROOF
<1> DEFINE t == IdleTask
<1>1. t \in InitTasks
  BY NoncesFacts DEF Inv, InitTasks, SetStart, IdleTask
<1>2. init' = [init EXCEPT ![i][k] = t]
  BY DEF SetStart, IdleTask
<1>3. t.at = "idle"
  BY DEF Inv, SetStart, IdleTask
<1> HIDE DEF t
<1>4. /\ init' \in [Instances -> [Tasks -> InitTasks]]
      /\ \A j \in Instances, m \in Tasks :
            init'[j][m] = IF j = i /\ m = k THEN t ELSE init[j][m]
  BY <1>1, <1>2, InitUpdate DEF Inv
<1>5. /\ counter' = init[i][k].start /\ init[i][k].start \in Nonces
      /\ Below(Used, init[i][k].start) /\ Only(i, life) /\ life[i] = "up"
      /\ sync[i].at = "idle"
  BY DEF Inv, TypeOK, InitTasks, InitInv, SetStart
<1>6. Used' = Used
  BY DEF SetStart, Used
<1>7. TypeOK'
  BY <1>4, <1>5 DEF Inv, TypeOK, SetStart
<1>8. OneHolder'
  BY DEF Inv, OneHolder, SetStart
<1>9. CounterInv'
  BY <1>5, <1>6 DEF CounterInv
<1>10. MissingInv'
  BY <1>5, NoncesFacts DEF MissingInv
<1>11. InitInv'
  BY <1>3, <1>4, <1>6, <1>5, NoncesFacts DEF Inv, InitInv, SetStart
<1>12. LifeInv'
  BY <1>5 DEF Inv, LifeInv, SetStart
<1>13. PendingInv'
  BY <1>5 DEF Inv, PendingInv, SetStart, Only
<1>14. SyncInv'
  <2>1. \A j \in Instances : sync[j].at = "idle"
    BY DEF Inv, LifeInv, Only, SyncInv, InitInv, SetStart
  <2> QED
    BY <2>1 DEF SyncInv, SetStart
<1>15. (mined <= pending)'
  BY DEF Inv, SetStart
<1>16. PooledUnused'
  BY DEF Inv, PooledUnused, SetStart
<1> QED
  BY <1>7, <1>8, <1>9, <1>10, <1>11, <1>12, <1>13, <1>14, <1>15, <1>16 DEF Inv

\* A failed initialisation writes nothing.
LEMMA InitFailsKeeps ==
    ASSUME Calm, Inv, NEW i \in Instances, NEW k \in Tasks, InitFails(i, k)
    PROVE  Inv'
PROOF
<1> DEFINE t == IdleTask
<1>1. t \in InitTasks
  BY NoncesFacts DEF Inv, InitTasks, InitFails, IdleTask
<1>2. init' = [init EXCEPT ![i][k] = t]
  BY DEF InitFails, IdleTask
<1>3. t.at = "idle"
  BY DEF Inv, InitFails, IdleTask
<1> HIDE DEF t
<1>4. /\ init' \in [Instances -> [Tasks -> InitTasks]]
      /\ \A j \in Instances, m \in Tasks :
            init'[j][m] = IF j = i /\ m = k THEN t ELSE init[j][m]
  BY <1>1, <1>2, InitUpdate DEF Inv
<1>5. Used' = Used
  BY DEF InitFails, Used
<1>6. TypeOK'
  BY <1>4 DEF Inv, TypeOK, InitFails
<1>7. OneHolder'
  BY DEF Inv, OneHolder, InitFails
<1>8. CounterInv'
  BY <1>5 DEF Inv, CounterInv, InitFails
<1>9. MissingInv'
  BY <1>5 DEF Inv, MissingInv, InitFails
<1>10. InitInv'
  BY <1>3, <1>4, <1>5 DEF Inv, InitInv, InitFails
<1>11. LifeInv'
  BY DEF Inv, LifeInv, InitFails
<1>12. PendingInv'
  BY DEF Inv, PendingInv, InitFails
<1>13. SyncInv'
  BY DEF Inv, SyncInv, InitFails
<1>14. (mined <= pending)'
  BY DEF Inv, InitFails
<1>15. PooledUnused'
  BY DEF Inv, PooledUnused, InitFails
<1> QED
  BY <1>6, <1>7, <1>8, <1>9, <1>10, <1>11, <1>12, <1>13, <1>14, <1>15 DEF Inv

\* INCR on the single path gives out an unused nonce.
LEMMA AllocateSingleKeeps ==
    ASSUME Calm, Inv, NEW i \in Instances, AllocateSingle(i)
    PROVE  Inv'
PROOF
<1>1. PICK v \in Nonces :
         /\ v < MaxNonce /\ v = Value(counter) /\ counter' = v + 1
         /\ open' = [open EXCEPT ![i][v] = open[i][v] + 1]
  BY NoncesFacts DEF Inv, TypeOK, AllocateSingle, Increment, Value
<1>2. /\ open' \in [Instances -> [Nonces -> Nat]]
      /\ \A j \in Instances, m \in Nonces :
            open'[j][m] = IF j = i /\ m = v THEN open[i][v] + 1 ELSE open[j][m]
  BY <1>1 DEF Inv, TypeOK
<1>3. counter # Missing /\ counter = v /\ life[i] = "up" /\ i \in ready
      /\ \A m \in Tasks : init[i][m].at = "idle"
  BY <1>1 DEF Inv, LifeInv, InitInv, MissingInv, AllocateSingle, CanAllocate,
     Initialising, Value
<1>4. v \notin Used
  BY <1>3, NoncesFacts DEF Inv, CounterInv, Below, Used
<1>5. Used' = Used \cup {v}
  BY <1>1 DEF Inv, TypeOK, Used, AllocateSingle
<1>6. TypeOK'
  BY <1>1, NoncesFacts DEF Inv, TypeOK, AllocateSingle
<1>7. OneHolder'
  <2>1. signed[v] = 0 /\ v \notin pool /\ \A j \in Instances : open[j][v] = 0
    BY <1>4 DEF Inv, TypeOK, Used
  <2> QED
    BY <1>2, <2>1 DEF Inv, TypeOK, OneHolder, AllocateSingle
<1>8. CounterInv'
  BY <1>1, <1>3, <1>5, BelowNext DEF Inv, CounterInv
<1>9. MissingInv'
  BY <1>1, NoncesFacts DEF MissingInv
<1>10. InitInv'
  <2>1. \A j \in Instances, m \in Tasks : init[j][m].at = "idle"
    BY <1>3 DEF Inv, InitInv, Only
  <2> QED
    BY <2>1 DEF InitInv, AllocateSingle
<1>11. LifeInv'
  BY <1>2, <1>3 DEF Inv, LifeInv, AllocateSingle
<1>12. PendingInv'
  BY <1>1, <1>3, NoncesFacts DEF Inv, TypeOK, PendingInv, AllocateSingle
<1>13. SyncInv'
  <2>1. /\ Value(counter) = v /\ Value(counter') = v + 1
        /\ \A j \in Instances : sync[j].net \in Nat
        /\ sync[i].at # "behind"
    BY <1>1, NoncesFacts DEF Inv, TypeOK, Value, SyncTasks, AllocateSingle
  <2>2. \A j \in Instances : sync[j].at # "behind"
    BY <1>3, <2>1 DEF Inv, SyncInv, Only
  <2> QED
    BY <2>1, <2>2, NoncesFacts DEF Inv, SyncInv, AllocateSingle
<1>14. (mined <= pending)'
  BY DEF Inv, AllocateSingle
<1>15. PooledUnused'
  <2>1. v \notin pool
    BY <1>4 DEF Used
  <2> QED
    BY <1>2, <2>1 DEF Inv, TypeOK, PooledUnused, AllocateSingle
<1> QED
  BY <1>6, <1>7, <1>8, <1>9, <1>10, <1>11, <1>12, <1>13, <1>14, <1>15 DEF Inv

\* Asking the node for its pending count writes nothing but the answer.
LEMMA AskPendingKeeps ==
    ASSUME Calm, Inv, NEW i \in Instances, AskPending(i)
    PROVE  Inv'
PROOF
<1> DEFINE t == [at |-> "asked", net |-> pending]
<1>1. t \in SyncTasks
  BY DEF Inv, TypeOK, SyncTasks, AskPending
<1>2. sync' = [sync EXCEPT ![i] = t]
  BY DEF Inv, SyncTasks, AskPending
<1>3. t.at = "asked" /\ t.net = pending
  BY DEF Inv, SyncTasks, AskPending
<1> HIDE DEF t
<1>4. /\ sync' \in [Instances -> SyncTasks]
      /\ \A j \in Instances : sync'[j] = IF j = i THEN t ELSE sync[j]
  BY <1>1, <1>2, SyncUpdate DEF Inv
<1>5. Used' = Used
  BY DEF AskPending, Used
<1>6. TypeOK'
  BY <1>4 DEF Inv, TypeOK, AskPending
<1>7. OneHolder'
  BY DEF Inv, OneHolder, AskPending
<1>8. CounterInv'
  BY <1>5 DEF Inv, CounterInv, AskPending
<1>9. MissingInv'
  BY <1>5 DEF Inv, MissingInv, AskPending
<1>10. InitInv'
  BY DEF Inv, InitInv, Only, AskPending, CanAllocate, Initialising
<1>11. LifeInv'
  BY DEF Inv, LifeInv, AskPending, CanAllocate
<1>12. PendingInv'
  BY DEF Inv, PendingInv, AskPending
<1>13. SyncInv'
  BY NoncesFacts DEF Inv, TypeOK, SyncInv, AskPending
<1>14. (mined <= pending)'
  BY DEF Inv, AskPending
<1>15. PooledUnused'
  BY DEF Inv, PooledUnused, AskPending
<1> QED
  BY <1>6, <1>7, <1>8, <1>9, <1>10, <1>11, <1>12, <1>13, <1>14, <1>15 DEF Inv

\* The counter can be behind the node only when one instance is up: else all that the node
\* counts was allocated here.
LEMMA CompareCachedKeeps ==
    ASSUME Calm, Inv, NEW i \in Instances, CompareCached(i)
    PROVE  Inv'
PROOF
<1> DEFINE t == [at |-> IF counter = Missing \/ Value(counter) < sync[i].net
                      THEN "behind" ELSE "done",
                net |-> sync[i].net]
<1>1. t \in SyncTasks
  BY DEF Inv, TypeOK, SyncTasks, CompareCached
<1>2. sync' = [sync EXCEPT ![i] = t]
  BY DEF Inv, SyncTasks, CompareCached
<1>3. t.net = sync[i].net
      /\ \/ t.at = "behind" /\ (counter = Missing \/ Value(counter) < t.net)
         \/ t.at = "done" /\ counter # Missing /\ ~(Value(counter) < t.net)
  BY DEF Inv, SyncTasks, CompareCached
<1> HIDE DEF t
<1>4. /\ sync' \in [Instances -> SyncTasks]
      /\ \A j \in Instances : sync'[j] = IF j = i THEN t ELSE sync[j]
  BY <1>1, <1>2, SyncUpdate DEF Inv
<1>5. Used' = Used
  BY DEF CompareCached, Used
<1>6. TypeOK'
  BY <1>4 DEF Inv, TypeOK, CompareCached
<1>7. OneHolder'
  BY DEF Inv, OneHolder, CompareCached
<1>8. CounterInv'
  BY <1>5 DEF Inv, CounterInv, CompareCached
<1>9. MissingInv'
  BY <1>5 DEF Inv, MissingInv, CompareCached
<1>10. InitInv'
  BY <1>5 DEF Inv, InitInv, CompareCached
<1>11. LifeInv'
  BY DEF Inv, LifeInv, CompareCached
<1>12. PendingInv'
  BY DEF Inv, PendingInv, CompareCached
<1>13. SyncInv'
  <2>1. i \in ready /\ life[i] = "up" /\ counter # Missing /\ sync[i].net <= pending
    BY DEF Inv, LifeInv, MissingInv, SyncInv, CompareCached
  <2>2. t.at = "behind" => Only(i, life)
    <3>1. /\ pending \in Nat /\ counter \in Nat /\ sync[i].net \in Nat
          /\ Value(counter) = counter
      BY <2>1, NoncesFacts DEF Inv, TypeOK, SyncTasks, Value
    <3>2. t.at = "behind" => ~(pending <= counter)
      BY <1>3, <2>1, <3>1
    <3> QED
      BY <2>1, <3>2 DEF Inv, PendingInv, Only
  <2>3. t.at = "done" => t.net <= Value(counter)
    <3>1. t.net \in Nat /\ Value(counter) \in Nat
      BY <1>1, NoncesFacts DEF Inv, TypeOK, Value, SyncTasks
    <3> QED
      BY <3>1, <1>3
  <2> QED
    <3>1. t.at = "behind" => Value(counter) < t.net
      BY <1>3, <2>1
    <3>2. t.at # "asked"
      BY <1>3
    <3> QED
      BY <1>4, <2>2, <2>3, <3>1 DEF Inv, SyncInv, CompareCached
<1>14. (mined <= pending)'
  BY DEF Inv, CompareCached
<1>15. PooledUnused'
  BY DEF Inv, PooledUnused, CompareCached
<1> QED
  BY <1>6, <1>7, <1>8, <1>9, <1>10, <1>11, <1>12, <1>13, <1>14, <1>15 DEF Inv

\* Writing the node's count moves the counter up, since nobody else is up to move it.
LEMMA CatchUpKeeps ==
    ASSUME Calm, Inv, NEW i \in Instances, CatchUp(i)
    PROVE  Inv'
PROOF
<1> DEFINE t == [at |-> "done", net |-> sync[i].net]
<1>1. t \in SyncTasks
  BY DEF Inv, TypeOK, SyncTasks, CatchUp
<1>2. sync' = [sync EXCEPT ![i] = t]
  BY DEF Inv, SyncTasks, CatchUp
<1>3. t.at = "done" /\ t.net = sync[i].net
  BY DEF Inv, SyncTasks, CatchUp
<1> HIDE DEF t
<1>4. /\ sync' \in [Instances -> SyncTasks]
      /\ \A j \in Instances : sync'[j] = IF j = i THEN t ELSE sync[j]
  BY <1>1, <1>2, SyncUpdate DEF Inv
<1>5. /\ counter' = sync[i].net /\ sync[i].net \in Nonces
      /\ Only(i, life) /\ counter # Missing /\ counter < sync[i].net
      /\ \A j \in Instances, m \in Tasks : init[j][m].at = "idle"
  BY DEF Inv, TypeOK, SyncTasks, SyncInv, LifeInv, MissingInv, InitInv, CatchUp, Value,
     Only
<1>6. Used' = Used
  BY DEF CatchUp, Used
<1>7. TypeOK'
  BY <1>4, <1>5 DEF Inv, TypeOK, CatchUp
<1>8. OneHolder'
  BY DEF Inv, OneHolder, CatchUp
<1>9. CounterInv'
  <2>1. counter \in Nonces /\ counter <= sync[i].net
    <3>1. counter \in Nonces
      BY <1>5 DEF Inv, TypeOK
    <3>2. counter \in Nat /\ sync[i].net \in Nat
      BY <1>5, <3>1, NoncesFacts
    <3> QED
      BY <1>5, <3>1, <3>2
  <2>2. Below(Used, counter)
    BY <1>5 DEF Inv, CounterInv
  <2>3. Below(Used, sync[i].net)
    BY <1>5, <2>1, <2>2, BelowMore
  <2> QED
    BY <1>5, <1>6, <2>3 DEF CounterInv
<1>10. MissingInv'
  BY <1>5, NoncesFacts DEF MissingInv
<1>11. InitInv'
  BY <1>5 DEF InitInv, CatchUp
<1>12. LifeInv'
  BY DEF Inv, LifeInv, CatchUp
<1>13. PendingInv'
  BY <1>5 DEF PendingInv, CatchUp, Only
<1>14. SyncInv'
  BY <1>5, NoncesFacts DEF Inv, TypeOK, SyncInv, CatchUp, Only, Value, LifeInv
<1>15. (mined <= pending)'
  BY DEF Inv, CatchUp
<1>16. PooledUnused'
  BY DEF Inv, PooledUnused, CatchUp
<1> QED
  BY <1>7, <1>8, <1>9, <1>10, <1>11, <1>12, <1>13, <1>14, <1>15, <1>16 DEF Inv

\* A synchronisation that fails is given up; the batch goes on with the counter as it is.
LEMMA SyncFailsKeeps ==
    ASSUME Calm, Inv, NEW i \in Instances, SyncFails(i)
    PROVE  Inv'
PROOF
<1> DEFINE t == [at |-> "done", net |-> 0]
<1>1. t \in SyncTasks
  BY NoncesFacts DEF Inv, SyncTasks, SyncFails
<1>2. sync' = [sync EXCEPT ![i] = t]
  BY DEF Inv, SyncTasks, SyncFails
<1>3. t.at = "done" /\ t.net = 0
  BY DEF Inv, SyncTasks, SyncFails
<1> HIDE DEF t
<1>4. /\ sync' \in [Instances -> SyncTasks]
      /\ \A j \in Instances : sync'[j] = IF j = i THEN t ELSE sync[j]
  BY <1>1, <1>2, SyncUpdate DEF Inv
<1>5. Used' = Used
  BY DEF SyncFails, Used
<1>6. TypeOK'
  BY <1>4 DEF Inv, TypeOK, SyncFails
<1>7. OneHolder'
  BY DEF Inv, OneHolder, SyncFails
<1>8. CounterInv'
  BY <1>5 DEF Inv, CounterInv, SyncFails
<1>9. MissingInv'
  BY <1>5 DEF Inv, MissingInv, SyncFails
<1>10. InitInv'
  BY <1>5 DEF Inv, InitInv, SyncFails
<1>11. LifeInv'
  BY DEF Inv, LifeInv, SyncFails
<1>12. PendingInv'
  BY DEF Inv, PendingInv, SyncFails
<1>13. SyncInv'
  BY NoncesFacts DEF Inv, TypeOK, SyncInv, Value, SyncFails
<1>14. (mined <= pending)'
  BY DEF Inv, SyncFails
<1>15. PooledUnused'
  BY DEF Inv, PooledUnused, SyncFails
<1> QED
  BY <1>6, <1>7, <1>8, <1>9, <1>10, <1>11, <1>12, <1>13, <1>14, <1>15 DEF Inv

\* INCR on the batch path gives out an unused nonce.
LEMMA AllocateBatchKeeps ==
    ASSUME Calm, Inv, NEW i \in Instances, AllocateBatch(i)
    PROVE  Inv'
PROOF
<1>1. PICK v \in Nonces :
         /\ v < MaxNonce /\ v = Value(counter) /\ counter' = v + 1
         /\ open' = [open EXCEPT ![i][v] = open[i][v] + 1]
  BY NoncesFacts DEF Inv, TypeOK, AllocateBatch, Increment, Value
<1>2. /\ open' \in [Instances -> [Nonces -> Nat]]
      /\ \A j \in Instances, m \in Nonces :
            open'[j][m] = IF j = i /\ m = v THEN open[i][v] + 1 ELSE open[j][m]
  BY <1>1 DEF Inv, TypeOK
<1>3. counter # Missing /\ counter = v /\ life[i] = "up" /\ i \in ready
      /\ \A m \in Tasks : init[i][m].at = "idle"
  BY <1>1 DEF Inv, LifeInv, InitInv, MissingInv, AllocateBatch, Value
<1>4. v \notin Used
  BY <1>3, NoncesFacts DEF Inv, CounterInv, Below, Used
<1>5. /\ sync' \in [Instances -> SyncTasks]
      /\ \A j \in Instances : sync'[j] = IF j = i THEN NoSync ELSE sync[j]
  BY NoncesFacts DEF Inv, TypeOK, AllocateBatch, SyncTasks, NoSync
<1>6. Used' = Used \cup {v}
  BY <1>1 DEF Inv, TypeOK, Used, AllocateBatch
<1>7. TypeOK'
  BY <1>1, <1>5, NoncesFacts DEF Inv, TypeOK, AllocateBatch
<1>8. OneHolder'
  <2>1. signed[v] = 0 /\ v \notin pool /\ \A j \in Instances : open[j][v] = 0
    BY <1>4 DEF Inv, TypeOK, Used
  <2> QED
    BY <1>2, <2>1 DEF Inv, OneHolder, AllocateBatch
<1>9. CounterInv'
  BY <1>1, <1>3, <1>6, BelowNext DEF Inv, CounterInv
<1>10. MissingInv'
  BY <1>1, NoncesFacts DEF MissingInv
<1>11. InitInv'
  <2>1. \A j \in Instances, m \in Tasks : init[j][m].at = "idle"
    BY <1>3 DEF Inv, InitInv, Only
  <2> QED
    BY <2>1 DEF InitInv, AllocateBatch
<1>12. LifeInv'
  BY <1>2 DEF Inv, LifeInv, AllocateBatch
<1>13. PendingInv'
  BY <1>1, <1>3, NoncesFacts DEF Inv, TypeOK, PendingInv, AllocateBatch
<1>14. SyncInv'
  <2>1. /\ Value(counter) = v /\ Value(counter') = v + 1
        /\ \A j \in Instances : sync[j].net \in Nat
        /\ sync[i].at # "behind"
    BY <1>1, NoncesFacts DEF Inv, TypeOK, Value, SyncTasks, AllocateBatch
  <2>2. \A j \in Instances : sync[j].at # "behind"
    BY <1>3, <2>1 DEF Inv, SyncInv, Only
  <2> QED
    BY <2>1, <2>2, NoncesFacts DEF Inv, SyncInv, NoSync, AllocateBatch
<1>15. (mined <= pending)'
  BY DEF Inv, AllocateBatch
<1>16. PooledUnused'
  <2>1. v \notin pool
    BY <1>4 DEF Used
  <2> QED
    BY <1>2, <2>1 DEF Inv, TypeOK, PooledUnused, AllocateBatch
<1> QED
  BY <1>7, <1>8, <1>9, <1>10, <1>11, <1>12, <1>13, <1>14, <1>15, <1>16 DEF Inv

\* A batch that fails before its nonce takes none.
LEMMA BatchFailsKeeps ==
    ASSUME Calm, Inv, NEW i \in Instances, BatchFails(i)
    PROVE  Inv'
PROOF
<1> DEFINE t == NoSync
<1>1. t \in SyncTasks
  BY NoncesFacts DEF Inv, SyncTasks, BatchFails, NoSync
<1>2. sync' = [sync EXCEPT ![i] = t]
  BY DEF Inv, BatchFails, NoSync
<1>3. t.at = "idle"
  BY DEF Inv, BatchFails, NoSync
<1> HIDE DEF t
<1>4. /\ sync' \in [Instances -> SyncTasks]
      /\ \A j \in Instances : sync'[j] = IF j = i THEN t ELSE sync[j]
  BY <1>1, <1>2, SyncUpdate DEF Inv
<1>5. Used' = Used
  BY DEF BatchFails, Used
<1>6. TypeOK'
  BY <1>4 DEF Inv, TypeOK, BatchFails
<1>7. OneHolder'
  BY DEF Inv, OneHolder, BatchFails
<1>8. CounterInv'
  BY <1>5 DEF Inv, CounterInv, BatchFails
<1>9. MissingInv'
  BY <1>5 DEF Inv, MissingInv, BatchFails
<1>10. InitInv'
  BY <1>5 DEF Inv, InitInv, BatchFails
<1>11. LifeInv'
  BY DEF Inv, LifeInv, BatchFails
<1>12. PendingInv'
  BY DEF Inv, PendingInv, BatchFails
<1>13. SyncInv'
  BY <1>3, <1>4 DEF Inv, SyncInv, BatchFails
<1>14. (mined <= pending)'
  BY DEF Inv, BatchFails
<1>15. PooledUnused'
  BY DEF Inv, PooledUnused, BatchFails
<1> QED
  BY <1>6, <1>7, <1>8, <1>9, <1>10, <1>11, <1>12, <1>13, <1>14, <1>15 DEF Inv

\* Signing moves a nonce from an open transaction to a signed one.
LEMMA SignAndSendKeeps ==
    ASSUME Calm, Inv, NEW i \in Instances, NEW n \in Nonces, SignAndSend(i, n)
    PROVE  Inv'
PROOF
<1>1. open[i][n] > 0 /\ open[i][n] - 1 \in Nat
      /\ open' = [open EXCEPT ![i][n] = open[i][n] - 1]
  BY DEF Inv, TypeOK, SignAndSend, Close
<1>2. /\ open' \in [Instances -> [Nonces -> Nat]]
      /\ \A j \in Instances, m \in Nonces :
            open'[j][m] = IF j = i /\ m = n THEN open[i][n] - 1 ELSE open[j][m]
  BY <1>1, OpenUpdate DEF Inv
<1>3. Used' \subseteq Used
  BY <1>2 DEF Inv, TypeOK, Used, SignAndSend
<1>4. TypeOK'
  BY <1>2 DEF Inv, TypeOK, SignAndSend
<1>5. OneHolder'
  BY <1>1 DEF Inv, TypeOK, OneHolder, SignAndSend
<1>6. CounterInv'
  BY <1>3 DEF Inv, CounterInv, Below, SignAndSend
<1>7. MissingInv'
  BY <1>3 DEF Inv, MissingInv, Below, SignAndSend
<1>8. InitInv'
  BY <1>3 DEF Inv, InitInv, Below, SignAndSend
<1>9. LifeInv'
  BY <1>2 DEF Inv, TypeOK, LifeInv, SignAndSend
<1>10. PendingInv'
  BY DEF Inv, PendingInv, SignAndSend
<1>11. SyncInv'
  BY DEF Inv, SyncInv, SignAndSend
<1>12. (mined <= pending)'
  BY DEF Inv, SignAndSend
<1>13. PooledUnused'
  BY <1>2 DEF Inv, TypeOK, PooledUnused, SignAndSend
<1> QED
  BY <1>4, <1>5, <1>6, <1>7, <1>8, <1>9, <1>10, <1>11, <1>12, <1>13 DEF Inv

\* returnNonceToPool moves a nonce from an open transaction to the pool.
LEMMA ReturnNonceKeeps ==
    ASSUME Calm, Inv, NEW i \in Instances, NEW n \in Nonces, ReturnNonce(i, n)
    PROVE  Inv'
PROOF
<1>1. open[i][n] > 0 /\ open[i][n] - 1 \in Nat
      /\ open' = [open EXCEPT ![i][n] = open[i][n] - 1]
  BY DEF Inv, TypeOK, ReturnNonce, Close
<1>2. /\ open' \in [Instances -> [Nonces -> Nat]]
      /\ \A j \in Instances, m \in Nonces :
            open'[j][m] = IF j = i /\ m = n THEN open[i][n] - 1 ELSE open[j][m]
  BY <1>1, OpenUpdate DEF Inv
<1>3. Used' \subseteq Used
  BY <1>2 DEF Inv, TypeOK, Used, ReturnNonce
<1>4. TypeOK'
  BY <1>2 DEF Inv, TypeOK, ReturnNonce
<1>5. OneHolder'
  BY <1>2 DEF Inv, TypeOK, OneHolder, ReturnNonce
<1>6. CounterInv'
  BY <1>3 DEF Inv, CounterInv, Below, ReturnNonce
<1>7. MissingInv'
  BY <1>3 DEF Inv, MissingInv, Below, ReturnNonce
<1>8. InitInv'
  BY <1>3 DEF Inv, InitInv, Below, ReturnNonce
<1>9. LifeInv'
  BY <1>2 DEF Inv, TypeOK, LifeInv, ReturnNonce
<1>10. PendingInv'
  BY DEF Inv, PendingInv, ReturnNonce
<1>11. SyncInv'
  BY DEF Inv, SyncInv, ReturnNonce
<1>12. (mined <= pending)'
  BY DEF Inv, ReturnNonce
<1>13. PooledUnused'
  <2>1. signed[n] = 0 /\ open[i][n] = 1 /\ \A j \in Instances : j # i => open[j][n] = 0
    BY <1>1 DEF Inv, TypeOK, OneHolder
  <2> QED
    BY <1>1, <1>2, <2>1 DEF Inv, PooledUnused, ReturnNonce
<1> QED
  BY <1>4, <1>5, <1>6, <1>7, <1>8, <1>9, <1>10, <1>11, <1>12, <1>13 DEF Inv

\* A lost nonce is in no place any more.
LEMMA LoseNonceKeeps ==
    ASSUME Calm, Inv, NEW i \in Instances, NEW n \in Nonces, LoseNonce(i, n)
    PROVE  Inv'
PROOF
<1>1. open[i][n] > 0 /\ open[i][n] - 1 \in Nat
      /\ open' = [open EXCEPT ![i][n] = open[i][n] - 1]
  BY DEF Inv, TypeOK, LoseNonce, Close
<1>2. /\ open' \in [Instances -> [Nonces -> Nat]]
      /\ \A j \in Instances, m \in Nonces :
            open'[j][m] = IF j = i /\ m = n THEN open[i][n] - 1 ELSE open[j][m]
  BY <1>1, OpenUpdate DEF Inv
<1>3. Used' \subseteq Used
  BY <1>2 DEF Inv, TypeOK, Used, LoseNonce
<1>4. TypeOK'
  BY <1>2 DEF Inv, TypeOK, LoseNonce
<1>5. OneHolder'
  BY <1>2 DEF Inv, TypeOK, OneHolder, LoseNonce
<1>6. CounterInv'
  BY <1>3 DEF Inv, CounterInv, Below, LoseNonce
<1>7. MissingInv'
  BY <1>3 DEF Inv, MissingInv, Below, LoseNonce
<1>8. InitInv'
  BY <1>3 DEF Inv, InitInv, Below, LoseNonce
<1>9. LifeInv'
  BY <1>2 DEF Inv, TypeOK, LifeInv, LoseNonce
<1>10. PendingInv'
  BY DEF Inv, PendingInv, LoseNonce
<1>11. SyncInv'
  BY DEF Inv, SyncInv, LoseNonce
<1>12. (mined <= pending)'
  BY DEF Inv, LoseNonce
<1>13. PooledUnused'
  BY <1>2, NoncesFacts DEF Inv, TypeOK, PooledUnused, LoseNonce
<1> QED
  BY <1>4, <1>5, <1>6, <1>7, <1>8, <1>9, <1>10, <1>11, <1>12, <1>13 DEF Inv

\* An instance starts while no other one is up.
LEMMA StartKeeps ==
    ASSUME Calm, Inv, NEW i \in Instances, Start(i)
    PROVE  Inv'
PROOF
<1>1. /\ life' \in [Instances -> {"new", "up", "down"}]
      /\ life'[i] = "up" /\ Only(i, life')
      /\ \A j \in Instances : life[j] # "up"
      /\ ready' = ready /\ init' = init /\ sync' = sync /\ open' = open
  BY DEF Inv, TypeOK, Start, Only, Calm
<1>2. \A j \in Instances :
         j \notin ready /\ sync[j].at = "idle" /\ \A k \in Tasks : init[j][k].at = "idle"
  BY <1>1 DEF Inv, LifeInv, InitInv
<1>3. Used' = Used
  BY DEF Start, Used
<1>4. TypeOK'
  BY DEF Inv, TypeOK, Start
<1>5. OneHolder'
  BY DEF Inv, OneHolder, Start
<1>6. CounterInv'
  BY <1>3 DEF Inv, CounterInv, Start
<1>7. MissingInv'
  BY <1>3 DEF Inv, MissingInv, Start
<1>8. InitInv'
  BY <1>1, <1>2 DEF InitInv
<1>9. LifeInv'
  BY <1>1 DEF Inv, LifeInv, Only
<1>10. PendingInv'
  BY <1>1 DEF PendingInv, Only
<1>11. SyncInv'
  BY <1>1, <1>2 DEF SyncInv
<1>12. (mined <= pending)'
  BY DEF Inv, Start
<1>13. PooledUnused'
  BY DEF Inv, PooledUnused, Start
<1> QED
  BY <1>4, <1>5, <1>6, <1>7, <1>8, <1>9, <1>10, <1>11, <1>12, <1>13 DEF Inv

\* A crash forgets the open transactions, whose nonces are never used.
LEMMA CrashKeeps ==
    ASSUME Calm, Inv, NEW i \in Instances, Crash(i)
    PROVE  Inv'
PROOF
<1>1. /\ open' \in [Instances -> [Nonces -> Nat]]
      /\ \A j \in Instances, m \in Nonces :
            open'[j][m] = IF j = i THEN 0 ELSE open[j][m]
  BY DEF Inv, TypeOK, Crash
<1>2. /\ init' \in [Instances -> [Tasks -> InitTasks]]
      /\ \A j \in Instances, m \in Tasks :
            init'[j][m] = IF j = i THEN IdleTask ELSE init[j][m]
  BY NoncesFacts DEF Inv, TypeOK, Crash, IdleTask, InitTasks
<1>3. /\ sync' \in [Instances -> SyncTasks]
      /\ \A j \in Instances : sync'[j] = IF j = i THEN NoSync ELSE sync[j]
  BY NoncesFacts DEF Inv, TypeOK, Crash, NoSync, SyncTasks
<1>4. Used' \subseteq Used
  BY DEF Inv, Used, Crash
<1>5. TypeOK'
  BY NoncesFacts DEF Inv, TypeOK, Crash, IdleTask, NoSync, InitTasks, SyncTasks
<1>6. OneHolder'
  BY DEF Inv, OneHolder, Crash
<1>7. CounterInv'
  BY <1>4 DEF Inv, CounterInv, Below, Crash
<1>8. MissingInv'
  BY <1>4 DEF Inv, MissingInv, Below, Crash
<1>9. InitInv'
  BY DEF Inv, TypeOK, InitInv, Only, Crash, IdleTask
<1>10. LifeInv'
  <2>1. /\ ready' = ready \ {i} /\ life'[i] = "down"
        /\ \A j \in Instances : j # i => life'[j] = life[j]
    BY DEF Inv, TypeOK, Crash
  <2>2. \A j \in Instances, m \in Instances :
           life'[m] = "up" => life[m] = "up"
    BY <2>1
  <2> QED
    BY <1>1, <1>3, <2>1, <2>2 DEF Inv, LifeInv, Only, NoSync
<1>11. PendingInv'
  BY DEF Inv, PendingInv, Crash
<1>12. SyncInv'
  BY DEF Inv, SyncInv, Only, Crash, NoSync
<1>13. (mined <= pending)'
  BY DEF Inv, Crash
<1>14. PooledUnused'
  BY DEF Inv, TypeOK, PooledUnused, Crash
<1> QED
  BY <1>5, <1>6, <1>7, <1>8, <1>9, <1>10, <1>11, <1>12, <1>13, <1>14 DEF Inv

\* The broadcaster takes a nonce out of the pool.
LEMMA TakePooledKeeps ==
    ASSUME Calm, Inv, TakePooled
    PROVE  Inv'
PROOF
<1>1. Used' \subseteq Used
  BY DEF Used, TakePooled
<1>2. TypeOK'
  BY DEF Inv, TypeOK, TakePooled
<1>3. OneHolder'
  BY DEF Inv, OneHolder, TakePooled
<1>4. CounterInv'
  BY <1>1 DEF Inv, CounterInv, Below, TakePooled
<1>5. MissingInv'
  BY <1>1 DEF Inv, MissingInv, Below, TakePooled
<1>6. InitInv'
  BY <1>1 DEF Inv, InitInv, Below, TakePooled
<1>7. LifeInv'
  BY DEF Inv, LifeInv, TakePooled
<1>8. PendingInv'
  BY DEF Inv, PendingInv, TakePooled
<1>9. SyncInv'
  BY DEF Inv, SyncInv, TakePooled
<1>10. (mined <= pending)'
  BY DEF Inv, TakePooled
<1>11. PooledUnused'
  BY DEF Inv, PooledUnused, TakePooled
<1> QED
  BY <1>2, <1>3, <1>4, <1>5, <1>6, <1>7, <1>8, <1>9, <1>10, <1>11 DEF Inv

\* The node counts only nonces that were allocated, which are below the counter.
LEMMA AcceptKeeps ==
    ASSUME Calm, Inv, Accept
    PROVE  Inv'
PROOF
<1>1. pending \in Used /\ pending + 1 \in Nonces /\ pending' = pending + 1
  BY NoncesFacts DEF Inv, TypeOK, Used, Accept
<1>2. /\ pending \in Nat /\ mined \in Nat /\ mined <= pending
      /\ counter # Missing => counter \in Nat
      /\ \A j \in Instances : sync[j].net \in Nat
  BY NoncesFacts DEF Inv, TypeOK, SyncTasks
<1>3. Used' = Used
  BY DEF Accept, Used
<1>4. TypeOK'
  BY NoncesFacts DEF Inv, TypeOK, Accept
<1>5. OneHolder'
  BY DEF Inv, OneHolder, Accept
<1>6. CounterInv'
  BY <1>3 DEF Inv, CounterInv, Accept
<1>7. MissingInv'
  BY <1>3 DEF Inv, MissingInv, Accept
<1>8. InitInv'
  BY <1>3 DEF Inv, InitInv, Accept
<1>9. LifeInv'
  BY DEF Inv, LifeInv, Accept
<1>10. PendingInv'
  BY <1>1, <1>2 DEF Inv, PendingInv, CounterInv, Below, Accept
<1>11. SyncInv'
  BY <1>2 DEF Inv, SyncInv, Accept
<1>12. (mined <= pending)'
  BY <1>1, <1>2 DEF Accept
<1>13. PooledUnused'
  BY DEF Inv, PooledUnused, Accept
<1> QED
  BY <1>4, <1>5, <1>6, <1>7, <1>8, <1>9, <1>10, <1>11, <1>12, <1>13 DEF Inv

\* An outsider sends while at most one instance is up.
LEMMA OutsideKeeps ==
    ASSUME Calm, Inv, Outside
    PROVE  Inv'
PROOF
<1>1. pending + 1 \in Nonces /\ pending' = pending + 1
  BY NoncesFacts DEF Inv, TypeOK, Outside
<1>2. /\ pending \in Nat /\ mined \in Nat /\ mined <= pending
      /\ counter # Missing => counter \in Nat
      /\ \A j \in Instances : sync[j].net \in Nat
  BY NoncesFacts DEF Inv, TypeOK, SyncTasks
<1>3. Used' = Used
  BY DEF Outside, Used
<1>4. TypeOK'
  BY NoncesFacts DEF Inv, TypeOK, Outside
<1>5. OneHolder'
  BY DEF Inv, OneHolder, Outside
<1>6. CounterInv'
  BY <1>3 DEF Inv, CounterInv, Outside
<1>7. MissingInv'
  BY <1>3 DEF Inv, MissingInv, Outside
<1>8. InitInv'
  BY <1>3 DEF Inv, InitInv, Outside
<1>9. LifeInv'
  BY DEF Inv, LifeInv, Outside
<1>10. PendingInv'
  BY DEF PendingInv, Outside, Alone, Calm
<1>11. SyncInv'
  BY <1>2 DEF Inv, SyncInv, Outside
<1>12. (mined <= pending)'
  BY <1>1, <1>2 DEF Outside
<1>13. PooledUnused'
  BY DEF Inv, PooledUnused, Outside
<1> QED
  BY <1>4, <1>5, <1>6, <1>7, <1>8, <1>9, <1>10, <1>11, <1>12, <1>13 DEF Inv

\* Mining does not pass the pending count.
LEMMA MineKeeps ==
    ASSUME Calm, Inv, Mine
    PROVE  Inv'
PROOF
<1>1. mined' = mined + 1 /\ mined \in Nonces /\ mined + 1 \in Nonces /\ mined + 1 <= pending
  BY ConstantsAssumption DEF Inv, TypeOK, Mine, Nonces
<1>2. Used' = Used
  BY DEF Mine, Used
<1>3. TypeOK'
  BY <1>1 DEF Inv, TypeOK, Mine
<1>4. OneHolder'
  BY DEF Inv, OneHolder, Mine
<1>5. CounterInv'
  BY <1>2 DEF Inv, CounterInv, Mine
<1>6. MissingInv'
  BY <1>1, <1>2, BelowMore, NoncesFacts DEF Inv, MissingInv, Mine
<1>7. InitInv'
  BY <1>2 DEF Inv, InitInv, Mine
<1>8. LifeInv'
  BY DEF Inv, LifeInv, Mine
<1>9. PendingInv'
  BY DEF Inv, PendingInv, Mine
<1>10. SyncInv'
  BY DEF Inv, SyncInv, Mine
<1>11. (mined <= pending)'
  BY <1>1 DEF Mine
<1>12. PooledUnused'
  BY DEF Inv, PooledUnused, Mine
<1> QED
  BY <1>3, <1>4, <1>5, <1>6, <1>7, <1>8, <1>9, <1>10, <1>11, <1>12 DEF Inv

\* The key disappears when nobody is up and every signed nonce is mined.
LEMMA ExpireKeeps ==
    ASSUME Calm, Inv, Expire
    PROVE  Inv'
PROOF
<1>1. /\ counter' = Missing /\ pool' = {}
      /\ \A i \in Instances : life[i] # "up"
      /\ \A n \in Nonces : signed[n] > 0 => n < mined
  BY DEF Expire, Rested, Calm
<1>2. \A j \in Instances :
         /\ j \notin ready /\ sync[j].at = "idle"
         /\ \A k \in Tasks : init[j][k].at = "idle"
         /\ \A n \in Nonces : ~(open[j][n] > 0)
  BY <1>1 DEF Inv, LifeInv, InitInv
<1>3. Used' = {n \in Nonces : signed[n] > 0}
  BY <1>1, <1>2 DEF Used, Expire
<1>4. TypeOK'
  BY DEF Inv, TypeOK, Expire
<1>5. OneHolder'
  BY DEF Inv, OneHolder, Expire
<1>6. CounterInv'
  BY <1>1 DEF CounterInv
<1>7. MissingInv'
  BY <1>1, <1>2, <1>3 DEF MissingInv, Below, Expire
<1>8. InitInv'
  BY <1>2 DEF InitInv, Expire
<1>9. LifeInv'
  BY DEF Inv, LifeInv, Expire
<1>10. PendingInv'
  BY <1>1 DEF PendingInv, Expire
<1>11. SyncInv'
  BY <1>2 DEF SyncInv, Expire
<1>12. (mined <= pending)'
  BY DEF Inv, Expire
<1>13. PooledUnused'
  BY <1>1 DEF PooledUnused
<1> QED
  BY <1>4, <1>5, <1>6, <1>7, <1>8, <1>9, <1>10, <1>11, <1>12, <1>13 DEF Inv

\* A step that changes no variable keeps the invariant.
LEMMA StutterKeeps == ASSUME Inv, UNCHANGED vars PROVE Inv'
PROOF
<1>1. Used' = Used
  BY DEF vars, Used
<1> QED
  BY <1>1 DEF vars, Inv, TypeOK, OneHolder, CounterInv, MissingInv, InitInv, LifeInv,
     PendingInv, SyncInv, PooledUnused

\* A step of a calm system keeps the invariant.
LEMMA StepKeeps == ASSUME Calm, Inv, [Next]_vars PROVE Inv'
PROOF
<1>1. ASSUME NEW i \in Instances, Initialise(i) PROVE Inv'
  BY <1>1, AskLatestKeeps, GetCachedKeeps, SetStartKeeps, InitFailsKeeps DEF Initialise
<1>2. ASSUME NEW i \in Instances, Allocate(i) PROVE Inv'
  BY <1>2, AllocateSingleKeeps, AskPendingKeeps, CompareCachedKeeps, CatchUpKeeps,
     SyncFailsKeeps, AllocateBatchKeeps, BatchFailsKeeps DEF Allocate
<1>3. ASSUME NEW i \in Instances, Finish(i) PROVE Inv'
  BY <1>3, SignAndSendKeeps, ReturnNonceKeeps, LoseNonceKeeps DEF Finish
<1>4. ASSUME NEW i \in Instances, Start(i) \/ Crash(i) PROVE Inv'
  BY <1>4, StartKeeps, CrashKeeps
<1>5. ASSUME TakePooled \/ Accept \/ Outside \/ Mine \/ Expire PROVE Inv'
  BY <1>5, TakePooledKeeps, AcceptKeeps, OutsideKeeps, MineKeeps, ExpireKeeps
<1> QED
  BY <1>1, <1>2, <1>3, <1>4, <1>5, StutterKeeps DEF Next

\* The invariant holds in every state of a calm system.
LEMMA InductiveInvariant == ASSUME Calm PROVE Spec => []Inv
PROOF
<1>1. Init => Inv
  BY InitEstablishes
<1>2. Inv /\ [Next]_vars => Inv'
  BY StepKeeps
<1> QED
  BY <1>1, <1>2, PTL DEF Spec

\* The counter in Redis is a nonce or missing, the pool holds nonces, and every instance
\* stands at one of the awaits of the code, in every reachable state.
THEOREM TypeCorrect == ASSUME Calm PROVE Spec => []TypeOK
PROOF
<1>1. Inv => TypeOK
  BY DEF Inv
<1> QED
  BY <1>1, InductiveInvariant, PTL

\* getAndIncrement and the two writers of the counter (NonceCacheService.initialize and the
\* synchronisation of signBatchTransaction) never let two signed transactions have one nonce.
THEOREM NoncesAreUnique == ASSUME Calm PROVE Spec => []NonceUnique
PROOF
<1>1. Inv => NonceUnique
  BY DEF Inv, OneHolder, NonceUnique
<1> QED
  BY <1>1, InductiveInvariant, PTL

\* A nonce that returnNonceToPool put into the pool is in no transaction, signed or open.
THEOREM PooledAreUnused == ASSUME Calm PROVE Spec => []PooledUnused
PROOF
<1>1. Inv => PooledUnused
  BY DEF Inv
<1> QED
  BY <1>1, InductiveInvariant, PTL

\* Whenever an instance may call getAndIncrement, what it gets is above every nonce in use.
THEOREM CounterStaysAhead == ASSUME Calm PROVE Spec => []CounterAhead
PROOF
<1>1. ASSUME Inv, NEW i \in Instances, NEW n \in Nonces, CanAllocate(i),
             signed[n] > 0 \/ \E j \in Instances : open[j][n] > 0
      PROVE  n < Value(counter)
  <2>1. n \in Used
    BY <1>1 DEF Used
  <2>2. counter # Missing
    BY <1>1 DEF Inv, MissingInv, CanAllocate
  <2> QED
    BY <1>1, <2>1, <2>2 DEF Inv, CounterInv, Below, Value
<1>2. Inv => CounterAhead
  BY <1>1 DEF CounterAhead
<1> QED
  BY <1>2, InductiveInvariant, PTL

\* A batch that has synchronised takes a nonce the node had not seen when it asked.
THEOREM BatchesAreAhead == ASSUME Calm PROVE Spec => []BatchAheadOfNode
PROOF
<1>1. Inv => BatchAheadOfNode
  BY DEF Inv, SyncInv, BatchAheadOfNode
<1> QED
  BY <1>1, InductiveInvariant, PTL

----------------------------------------------------------------------------
(* The allocation implements NonceOnce *)

PlaceNow(n) == IF signed[n] > 0 THEN "used"
               ELSE IF Open(n) THEN "held"
               ELSE IF n \in pool THEN "returned" ELSE "free"

\* Under the invariant no nonce is in two places.
LEMMA PlaceIs == ASSUME Inv, NEW n \in Nonces PROVE Place(n) = PlaceNow(n)
PROOF
<1>1. signed[n] = 0 \/ signed[n] = 1
  <2>1. signed[n] \in Nat /\ signed[n] <= 1
    BY DEF Inv, TypeOK, OneHolder
  <2> QED
    BY <2>1
<1>2. Open(n) => signed[n] = 0 /\ n \notin pool
  BY DEF Inv, OneHolder, Open
<1>3. n \in pool => signed[n] = 0
  BY DEF Inv, PooledUnused
<1>4. Open(n) <=> OpenOnce(n)
  BY DEF Inv, TypeOK, OneHolder, Open, OpenOnce
<1> QED
  BY <1>1, <1>2, <1>3, <1>4 DEF Place, PlaceNow

\* The same in the next state.
LEMMA PlaceIsNext == ASSUME Inv', NEW n \in Nonces PROVE Place(n)' = PlaceNow(n)'
PROOF
<1>1. signed'[n] = 0 \/ signed'[n] = 1
  <2>1. signed'[n] \in Nat /\ signed'[n] <= 1
    BY DEF Inv, TypeOK, OneHolder
  <2> QED
    BY <2>1
<1>2. Open(n)' => signed'[n] = 0 /\ n \notin pool'
  BY DEF Inv, OneHolder, Open
<1>3. n \in pool' => signed'[n] = 0
  BY DEF Inv, PooledUnused
<1>4. Open(n)' <=> OpenOnce(n)'
  BY DEF Inv, TypeOK, OneHolder, Open, OpenOnce
<1> QED
  BY <1>1, <1>2, <1>3, <1>4 DEF Place, PlaceNow

\* The nonces of N go from one of the places of `from' to the place `to', the others stay.
Moves(N, from, to) ==
    /\ \A n \in N : PlaceNow(n) \in from /\ PlaceNow(n)' = to
    /\ \A n \in Nonces \ N : PlaceNow(n)' = PlaceNow(n)

LEMMA MovesArePuts ==
    ASSUME Inv, Inv', NEW N \in SUBSET Nonces, NEW from, NEW to, Moves(N, from, to)
    PROVE  Allotment!Put(N, from, to)
PROOF
<1>1. \A n \in Nonces : Place(n) = PlaceNow(n) /\ Place(n)' = PlaceNow(n)'
  BY PlaceIs, PlaceIsNext
<1> QED
  BY <1>1 DEF Moves, Allotment!Put

\* What a step does to the places of the nonces.
Kinds ==
    \/ UNCHANGED <<open, signed, pool>>
    \/ \E n \in Nonces : /\ \A m \in Used : m < n
                         /\ Moves({n}, {"free"}, "held")
    \/ \E n \in Nonces : Moves({n}, {"held"}, "used")
    \/ \E n \in Nonces : Moves({n}, {"held"}, "returned")
    \/ \E N \in SUBSET Nonces : Moves(N, {"held", "returned"}, "free")

\* INCR gives out a free nonce above all in use.
LEMMA IncrementKind ==
    ASSUME Inv, NEW i \in Instances, i \in ready, Increment(i), UNCHANGED <<signed, pool>>
    PROVE  Kinds
PROOF
<1> DEFINE v == Value(counter)
<1>1. /\ v \in Nonces /\ counter # Missing /\ v = counter
      /\ open' = [open EXCEPT ![i][v] = open[i][v] + 1]
  BY NoncesFacts DEF Inv, TypeOK, MissingInv, Increment, Value
<1>2. (\A m \in Used : m < v) /\ v \notin Used
  BY <1>1, NoncesFacts DEF Inv, CounterInv, Below, Used
<1>3. signed[v] = 0 /\ v \notin pool /\ \A j \in Instances : open[j][v] = 0
  BY <1>1, <1>2 DEF Inv, TypeOK, Used
<1> HIDE DEF v
<1>4. /\ \A j \in Instances, m \in Nonces : m # v => open'[j][m] = open[j][m]
      /\ open'[i][v] > 0
  BY <1>1, <1>3 DEF Inv, TypeOK
<1>5. Moves({v}, {"free"}, "held")
  BY <1>1, <1>3, <1>4 DEF Moves, PlaceNow, Open
<1> QED
  BY <1>1, <1>2, <1>5 DEF Kinds

\* A transaction that is closed lets go of its nonce, which nobody else holds.
LEMMA CloseKind ==
    ASSUME Inv, NEW i \in Instances, NEW n \in Nonces, Close(i, n)
    PROVE  /\ PlaceNow(n) = "held" /\ signed[n] = 0 /\ n \notin pool
           /\ ~Open(n)'
           /\ \A m \in Nonces \ {n} : Open(m)' = Open(m)
PROOF
<1>1. /\ open[i][n] = 1 /\ signed[n] = 0 /\ n \notin pool
      /\ \A j \in Instances : j # i => open[j][n] = 0
  BY DEF Inv, TypeOK, OneHolder, Close
<1>2. open' = [open EXCEPT ![i][n] = 0]
  BY <1>1 DEF Close
<1>3. \A j \in Instances, m \in Nonces :
         open'[j][m] = IF j = i /\ m = n THEN 0 ELSE open[j][m]
  BY <1>2, OpenUpdate DEF Inv
<1>4. ~Open(n)'
  BY <1>1, <1>3 DEF Open
<1>5. \A m \in Nonces \ {n} : Open(m)' = Open(m)
  BY <1>3 DEF Open
<1> QED
  BY <1>1, <1>4, <1>5 DEF PlaceNow, Open

\* Every step moves the nonces as one of the kinds has it.
LEMMA StepKinds == ASSUME Calm, Inv, [Next]_vars PROVE Kinds
PROOF
<1>1. ASSUME NEW i \in Instances, Initialise(i) \/ Start(i) PROVE Kinds
  BY <1>1 DEF Initialise, AskLatest, GetCached, SetStart, InitFails, Start, Kinds
<1>2. ASSUME NEW i \in Instances, Allocate(i) PROVE Kinds
  <2>1. CASE AllocateSingle(i)
    BY <2>1, IncrementKind DEF AllocateSingle, CanAllocate
  <2>2. CASE AllocateBatch(i)
    <3>1. i \in ready
      BY <2>2 DEF Inv, LifeInv, AllocateBatch
    <3> QED
      BY <2>2, <3>1, IncrementKind DEF AllocateBatch
  <2> QED
    BY <1>2, <2>1, <2>2
       DEF Allocate, AskPending, CompareCached, CatchUp, SyncFails, BatchFails, Kinds
<1>3. ASSUME NEW i \in Instances, NEW n \in Nonces, SignAndSend(i, n) PROVE Kinds
  <2>1. Close(i, n) /\ pool' = pool /\ signed' = [signed EXCEPT ![n] = signed[n] + 1]
    BY <1>3 DEF SignAndSend
  <2>2. /\ PlaceNow(n) = "held" /\ signed[n] = 0
        /\ \A m \in Nonces \ {n} : Open(m)' = Open(m)
    BY <2>1, CloseKind
  <2>3. signed'[n] > 0 /\ \A m \in Nonces \ {n} : signed'[m] = signed[m]
    BY <2>1, <2>2 DEF Inv, TypeOK
  <2>4. Moves({n}, {"held"}, "used")
    BY <2>1, <2>2, <2>3 DEF Moves, PlaceNow
  <2> QED
    BY <2>4 DEF Kinds
<1>4. ASSUME NEW i \in Instances, NEW n \in Nonces, ReturnNonce(i, n) PROVE Kinds
  <2>1. Close(i, n) /\ signed' = signed /\ pool' = pool \cup {n}
    BY <1>4 DEF ReturnNonce
  <2>2. /\ PlaceNow(n) = "held" /\ signed[n] = 0 /\ ~Open(n)'
        /\ \A m \in Nonces \ {n} : Open(m)' = Open(m)
    BY <2>1, CloseKind
  <2>3. Moves({n}, {"held"}, "returned")
    BY <2>1, <2>2 DEF Moves, PlaceNow
  <2> QED
    BY <2>3 DEF Kinds
<1>5. ASSUME NEW i \in Instances, NEW n \in Nonces, LoseNonce(i, n) PROVE Kinds
  <2>1. Close(i, n) /\ signed' = signed /\ pool' = pool
    BY <1>5 DEF LoseNonce
  <2>2. /\ PlaceNow(n) = "held" /\ signed[n] = 0 /\ n \notin pool /\ ~Open(n)'
        /\ \A m \in Nonces \ {n} : Open(m)' = Open(m)
    BY <2>1, CloseKind
  <2>3. Moves({n}, {"held", "returned"}, "free")
    BY <2>1, <2>2 DEF Moves, PlaceNow
  <2> QED
    BY <2>3 DEF Kinds
<1>6. ASSUME NEW i \in Instances, Crash(i) PROVE Kinds
  <2> DEFINE N == {n \in Nonces : open[i][n] > 0}
  <2>1. /\ \A j \in Instances, n \in Nonces : open'[j][n] = IF j = i THEN 0 ELSE open[j][n]
        /\ signed' = signed /\ pool' = pool
    BY <1>6 DEF Inv, TypeOK, Crash
  <2>2. ASSUME NEW n \in N PROVE PlaceNow(n) = "held" /\ PlaceNow(n)' = "free"
    <3>1. /\ signed[n] = 0 /\ n \notin pool /\ open[i][n] > 0
          /\ \A j \in Instances : open[j][n] > 0 => i = j
      BY <2>2 DEF Inv, OneHolder
    <3> QED
      BY <2>1, <3>1 DEF PlaceNow, Open
  <2>3. ASSUME NEW n \in Nonces \ N PROVE PlaceNow(n)' = PlaceNow(n)
    <3>1. ~(open[i][n] > 0)
      BY <2>3
    <3>2. Open(n)' = Open(n)
      BY <2>1, <3>1 DEF Open
    <3> QED
      BY <2>1, <3>2 DEF PlaceNow
  <2>4. Moves(N, {"held", "returned"}, "free")
    BY <2>2, <2>3 DEF Moves
  <2> QED
    BY <2>4 DEF Kinds
<1>7. ASSUME pool' \subseteq pool, UNCHANGED <<open, signed>> PROVE Kinds
  <2> DEFINE N == pool \ pool'
  <2>1. N \in SUBSET Nonces /\ \A n \in N : signed[n] = 0 /\ ~Open(n)
    BY DEF Inv, TypeOK, PooledUnused, Open
  <2>2. \A n \in Nonces : Open(n)' = Open(n)
    BY <1>7 DEF Open
  <2>3. \A n \in Nonces \ N : n \in pool' <=> n \in pool
    BY <1>7
  <2>4. Moves(N, {"held", "returned"}, "free")
    BY <1>7, <2>1, <2>2, <2>3 DEF Moves, PlaceNow
  <2> QED
    BY <2>1, <2>4 DEF Kinds
<1>8. ASSUME TakePooled \/ Expire PROVE Kinds
  BY <1>7, <1>8 DEF TakePooled, Expire
<1>9. ASSUME Accept \/ Outside \/ Mine \/ UNCHANGED vars PROVE Kinds
  BY <1>9 DEF Accept, Outside, Mine, vars, Kinds
<1> QED
  BY <1>1, <1>2, <1>3, <1>4, <1>5, <1>6, <1>8, <1>9 DEF Next, Finish

\* The counter, its writers and the pool implement NonceOnce: a nonce is given out above
\* all that are held, returned or used, held by one transaction, and used for ever.
THEOREM AllocationRefines == ASSUME Calm PROVE Spec => AllotsOnce
PROOF
<1>1. Init => Allotment!Init
  <2> SUFFICES ASSUME Init PROVE \A n \in Nonces : Place(n) = "free"
    BY DEF Allotment!Init
  <2>1. Inv /\ \A n \in Nonces : PlaceNow(n) = "free"
    BY InitEstablishes DEF Init, PlaceNow, Open
  <2> QED
    BY <2>1, PlaceIs
<1>2. Inv /\ [Next]_vars => [Allotment!Next]_([n \in Nonces |-> Place(n)])
  <2> SUFFICES ASSUME Inv, [Next]_vars
              PROVE  [Allotment!Next]_([n \in Nonces |-> Place(n)])
    OBVIOUS
  <2>1. Inv' /\ Kinds
    BY StepKeeps, StepKinds
  <2>2. CASE UNCHANGED <<open, signed, pool>>
    BY <2>2 DEF Place, Open, OpenOnce
  <2>3. ASSUME NEW n \in Nonces, \A m \in Used : m < n, Moves({n}, {"free"}, "held")
        PROVE  Allotment!Next
    <3>1. \A m \in Nonces : Place(m) # "free" => m \in Used
      BY PlaceIs DEF PlaceNow, Open, Used
    <3>2. Allotment!Put({n}, {"free"}, "held")
      BY <2>1, <2>3, MovesArePuts
    <3>3. Allotment!GiveOut(n)
      BY <2>3, <3>1, <3>2 DEF Allotment!GiveOut
    <3> QED
      BY <3>3 DEF Allotment!Next
  <2>4. ASSUME NEW n \in Nonces, Moves({n}, {"held"}, "used")
        PROVE  Allotment!Next
    BY <2>1, <2>4, MovesArePuts DEF Allotment!Use, Allotment!Next
  <2>5. ASSUME NEW n \in Nonces, Moves({n}, {"held"}, "returned")
        PROVE  Allotment!Next
    BY <2>1, <2>5, MovesArePuts DEF Allotment!Return, Allotment!Next
  <2>6. ASSUME NEW N \in SUBSET Nonces, Moves(N, {"held", "returned"}, "free")
        PROVE  Allotment!Next
    BY <2>1, <2>6, MovesArePuts DEF Allotment!Forget, Allotment!Next
  <2> QED
    BY <2>1, <2>2, <2>3, <2>4, <2>5, <2>6 DEF Kinds
<1> QED
  BY <1>1, <1>2, InductiveInvariant, PTL DEF Spec, AllotsOnce, Allotment!Spec
=============================================================================
