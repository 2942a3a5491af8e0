------------------------ MODULE TxBroadcasterProofs ------------------------
(***************************************************************************)
(* What is recorded as broadcast was taken by the node, for any number of  *)
(* workers, transactions and batches, whatever is refused or fails; a      *)
(* processing lock has one holder as long as no worker starts beside       *)
(* another; and no message disappears without a trace as long as the pool  *)
(* of returned nonces is empty and the buffer has room.                    *)
(***************************************************************************)
EXTENDS TxBroadcaster, TLAPS, FiniteSetTheorems, WellFoundedInduction

\* What DeletedAccounted needs: nothing in the pool, room for every transaction
Roomy == Returned = {} /\ IsFiniteSet(Txs) /\ Cardinality(Txs) <= BufferSize

----------------------------------------------------------------------------
(* The inductive invariant *)

Broadcasting == {"check", "lock", "send", "refused", "mark", "row", "report", "unlock", "last"}

\* What a job says of the node, when N is what the node took
Sound(j, N) ==
    /\ j.at \in Broadcasting => j.cur \in Txs
    /\ j.at \in {"cache", "save"} => j.exp - 1 \in N
    /\ j.at \in {"mark", "row", "report", "last"} => j.cur \in N
    /\ j.at = "unlock" /\ j.err = "no" => j.cur \in N
    /\ j.at = "refused" => j.err # "no"

\* Transactions of which there is a trace, and numbers below which all have one
Traced == node \cup kept \cup {u \in Txs : <<u, "failed">> \in sent}
Cleared(A, n) == \A u \in Txs : u < n => u \in A

\* What the job of t says of the transactions with a trace, when these are A
Traces(t, j, A) ==
    /\ j.at \in {"cache", "save", "decide", "take"} => Cleared(A, j.exp)
    /\ j.at \in Broadcasting => Cleared(A, j.cur) /\ (j.cur # t => t \in A)
    /\ j.at \in {"delete", "takepool", "take"} => t \in A
    /\ \A r \in j.rest : Cleared(A, r)

Typed ==
    /\ msg \in [Txs -> {"visible", "hidden", "deleted"}]
    /\ life \in [Workers -> {"new", "up", "down"}]
    /\ memory \in [Workers -> Known] /\ buffer \in [Workers -> SUBSET Txs] /\ kept \subseteq Txs
    /\ lock \subseteq Txs /\ marked \subseteq Txs /\ last \in Known /\ pool \subseteq Returned
    /\ retries \in [Txs -> 0..MaxRetries]
    /\ node \subseteq Txs /\ mined \in Counts
    /\ row \in [Txs -> {"SIGNED", "BROADCASTED", "FAILED"}]
    /\ sent \subseteq Txs \X {"broadcasted", "failed"}

Recorded ==
    /\ ReportedAccepted
    /\ LastTaken
    /\ mined # 0 => mined - 1 \in node

JobInv == \A w \in Workers, t \in Txs : Sound(job[w][t], node)

LifeInv == \A w \in Workers, t \in Txs : life[w] # "up" => job[w][t].at = "idle"

LockInv ==
    /\ \A w \in Workers, t \in Txs : job[w][t].at \in Holding => job[w][t].cur \in lock
    /\ LockExclusive

Trail ==
    /\ \A w \in Workers : /\ buffer[w] \subseteq kept
                          /\ memory[w] # None => Cleared(Traced, memory[w] + 1)
    /\ last # None => Cleared(Traced, last + 1)
    /\ Cleared(Traced, mined)
    /\ \A t \in Txs : msg[t] = "deleted" => t \in Traced

TraceInv == \A w \in Workers, t \in Txs : Traces(t, job[w][t], Traced)

Inv ==
    /\ Typed /\ job \in [Workers -> [Txs -> Jobs]]
    /\ Recorded
    /\ JobInv
    /\ LifeInv
    /\ ~Overlap => LockInv
    /\ Roomy => Trail /\ TraceInv

----------------------------------------------------------------------------
(* Jobs *)

\* Only the job of t at w changes, and this is what it becomes
Becomes(w, t, a, e, c, r, x) ==
    /\ job' \in [Workers -> [Txs -> Jobs]]
    /\ \A v \in Workers, u \in Txs : v # w \/ u # t => job'[v][u] = job[v][u]
    /\ job'[w][t].at = a /\ job'[w][t].exp = e /\ job'[w][t].cur = c
    /\ job'[w][t].rest = r /\ job'[w][t].err = x

\* A job is a record of five fields, each in its range.
LEMMA JobFields ==
    ASSUME Inv, NEW w \in Workers, NEW t \in Txs
    PROVE  /\ job[w][t] \in Jobs
           /\ job[w][t].at \in Stages /\ job[w][t].exp \in Counts \cup Returned
           /\ job[w][t].cur \in Known /\ job[w][t].rest \in SUBSET Txs
           /\ job[w][t].err \in Errors
BY DEF Inv, Jobs

\* Every update of a job has this form.
LEMMA Update ==
    ASSUME Inv, NEW w \in Workers, NEW t \in Txs, NEW a \in Stages,
           NEW e \in Counts \cup Returned, NEW c \in Known, NEW r \in SUBSET Txs, NEW x \in Errors,
           job' = [job EXCEPT ![w][t] = [at |-> a, exp |-> e, cur |-> c, rest |-> r, err |-> x]]
    PROVE  Becomes(w, t, a, e, c, r, x)
<1>1. [at |-> a, exp |-> e, cur |-> c, rest |-> r, err |-> x] \in Jobs  BY DEF Jobs
<1>2. QED  BY <1>1 DEF Becomes, Inv

\* A step to another stage changes nothing else.
LEMMA GotoFact ==
    ASSUME Inv, NEW w \in Workers, NEW t \in Txs, NEW a \in Stages,
           Goto(w, t, a)
    PROVE  Becomes(w, t, a, job[w][t].exp, job[w][t].cur, job[w][t].rest, job[w][t].err)
<1>1. ASSUME NEW j \in Jobs
      PROVE  [j EXCEPT !.at = a]
             = [at |-> a, exp |-> j.exp, cur |-> j.cur, rest |-> j.rest, err |-> j.err]
  BY DEF Jobs
<1>2. job' = [job EXCEPT ![w][t] = [at |-> a, exp |-> job[w][t].exp, cur |-> job[w][t].cur,
                                    rest |-> job[w][t].rest, err |-> job[w][t].err]]
  BY <1>1, JobFields DEF Goto
<1>3. QED  BY <1>2, Update, JobFields

\* An expected nonce is kept with the next stage.
LEMMA ExpectFact ==
    ASSUME Inv, NEW w \in Workers, NEW t \in Txs, NEW a \in Stages,
           NEW e \in Counts \cup Returned,
           Expect(w, t, a, e)
    PROVE  Becomes(w, t, a, e, job[w][t].cur, job[w][t].rest, job[w][t].err)
<1>1. ASSUME NEW j \in Jobs
      PROVE  [j EXCEPT !.at = a, !.exp = e]
             = [at |-> a, exp |-> e, cur |-> j.cur, rest |-> j.rest, err |-> j.err]
  <2>1. [j EXCEPT !.at = a]
        = [at |-> a, exp |-> j.exp, cur |-> j.cur, rest |-> j.rest, err |-> j.err]
    BY DEF Jobs
  <2>2. [[at |-> a, exp |-> j.exp, cur |-> j.cur, rest |-> j.rest, err |-> j.err] EXCEPT !.exp = e]
        = [at |-> a, exp |-> e, cur |-> j.cur, rest |-> j.rest, err |-> j.err]
    OBVIOUS
  <2>3. QED  BY <2>1, <2>2
<1>2. job' = [job EXCEPT ![w][t] = [at |-> a, exp |-> e, cur |-> job[w][t].cur,
                                    rest |-> job[w][t].rest, err |-> job[w][t].err]]
  BY <1>1, JobFields DEF Expect
<1>3. QED  BY <1>2, Update, JobFields

\* An error is kept with the next stage.
LEMMA CarryFact ==
    ASSUME Inv, NEW w \in Workers, NEW t \in Txs, NEW a \in Stages, NEW x \in Errors,
           Carry(w, t, a, x)
    PROVE  Becomes(w, t, a, job[w][t].exp, job[w][t].cur, job[w][t].rest, x)
<1>1. ASSUME NEW j \in Jobs
      PROVE  [j EXCEPT !.at = a, !.err = x]
             = [at |-> a, exp |-> j.exp, cur |-> j.cur, rest |-> j.rest, err |-> x]
  <2>1. [j EXCEPT !.at = a]
        = [at |-> a, exp |-> j.exp, cur |-> j.cur, rest |-> j.rest, err |-> j.err]
    BY DEF Jobs
  <2>2. [[at |-> a, exp |-> j.exp, cur |-> j.cur, rest |-> j.rest, err |-> j.err] EXCEPT !.err = x]
        = [at |-> a, exp |-> j.exp, cur |-> j.cur, rest |-> j.rest, err |-> x]
    OBVIOUS
  <2>3. QED  BY <2>1, <2>2
<1>2. job' = [job EXCEPT ![w][t] = [at |-> a, exp |-> job[w][t].exp, cur |-> job[w][t].cur,
                                    rest |-> job[w][t].rest, err |-> x]]
  BY <1>1, JobFields DEF Carry
<1>3. QED  BY <1>2, Update, JobFields

\* A transaction is taken up.
LEMMA CurrentFact ==
    ASSUME Inv, NEW w \in Workers, NEW t \in Txs, NEW a \in Stages, NEW c \in Known,
           job' = [job EXCEPT ![w][t] = [@ EXCEPT !.at = a, !.cur = c]]
    PROVE  Becomes(w, t, a, job[w][t].exp, c, job[w][t].rest, job[w][t].err)
<1>1. ASSUME NEW j \in Jobs
      PROVE  [j EXCEPT !.at = a, !.cur = c]
             = [at |-> a, exp |-> j.exp, cur |-> c, rest |-> j.rest, err |-> j.err]
  <2>1. [j EXCEPT !.at = a]
        = [at |-> a, exp |-> j.exp, cur |-> j.cur, rest |-> j.rest, err |-> j.err]
    BY DEF Jobs
  <2>2. [[at |-> a, exp |-> j.exp, cur |-> j.cur, rest |-> j.rest, err |-> j.err] EXCEPT !.cur = c]
        = [at |-> a, exp |-> j.exp, cur |-> c, rest |-> j.rest, err |-> j.err]
    OBVIOUS
  <2>3. QED  BY <2>1, <2>2
<1>2. job' = [job EXCEPT ![w][t] = [at |-> a, exp |-> job[w][t].exp, cur |-> c,
                                    rest |-> job[w][t].rest, err |-> job[w][t].err]]
  BY <1>1, JobFields
<1>3. QED  BY <1>2, Update, JobFields

\* A sequence ends.
LEMMA RestFact ==
    ASSUME Inv, NEW w \in Workers, NEW t \in Txs, NEW a \in Stages,
           NEW r \in SUBSET Txs,
           job' = [job EXCEPT ![w][t] = [@ EXCEPT !.at = a, !.rest = r]]
    PROVE  Becomes(w, t, a, job[w][t].exp, job[w][t].cur, r, job[w][t].err)
<1>1. ASSUME NEW j \in Jobs
      PROVE  [j EXCEPT !.at = a, !.rest = r]
             = [at |-> a, exp |-> j.exp, cur |-> j.cur, rest |-> r, err |-> j.err]
  <2>1. [j EXCEPT !.at = a]
        = [at |-> a, exp |-> j.exp, cur |-> j.cur, rest |-> j.rest, err |-> j.err]
    BY DEF Jobs
  <2>2. [[at |-> a, exp |-> j.exp, cur |-> j.cur, rest |-> j.rest, err |-> j.err] EXCEPT !.rest = r]
        = [at |-> a, exp |-> j.exp, cur |-> j.cur, rest |-> r, err |-> j.err]
    OBVIOUS
  <2>3. QED  BY <2>1, <2>2
<1>2. job' = [job EXCEPT ![w][t] = [at |-> a, exp |-> job[w][t].exp, cur |-> job[w][t].cur,
                                    rest |-> r, err |-> job[w][t].err]]
  BY <1>1, JobFields
<1>3. QED  BY <1>2, Update, JobFields

\* A sequence ends with an error that is forgotten.
LEMMA GiveUpFact ==
    ASSUME Inv, NEW w \in Workers, NEW t \in Txs, NEW a \in Stages,
           NEW r \in SUBSET Txs, NEW x \in Errors,
           job' = [job EXCEPT ![w][t] = [@ EXCEPT !.at = a, !.rest = r, !.err = x]]
    PROVE  Becomes(w, t, a, job[w][t].exp, job[w][t].cur, r, x)
<1>1. ASSUME NEW j \in Jobs
      PROVE  [j EXCEPT !.at = a, !.rest = r, !.err = x]
             = [at |-> a, exp |-> j.exp, cur |-> j.cur, rest |-> r, err |-> x]
  <2>1. [j EXCEPT !.at = a]
        = [at |-> a, exp |-> j.exp, cur |-> j.cur, rest |-> j.rest, err |-> j.err]
    BY DEF Jobs
  <2>2. [[at |-> a, exp |-> j.exp, cur |-> j.cur, rest |-> j.rest, err |-> j.err] EXCEPT !.rest = r]
        = [at |-> a, exp |-> j.exp, cur |-> j.cur, rest |-> r, err |-> j.err]
    OBVIOUS
  <2>3. [[at |-> a, exp |-> j.exp, cur |-> j.cur, rest |-> r, err |-> j.err] EXCEPT !.err = x]
        = [at |-> a, exp |-> j.exp, cur |-> j.cur, rest |-> r, err |-> x]
    OBVIOUS
  <2>4. QED  BY <2>1, <2>2, <2>3
<1>2. job' = [job EXCEPT ![w][t] = [at |-> a, exp |-> job[w][t].exp, cur |-> job[w][t].cur,
                                    rest |-> r, err |-> x]]
  BY <1>1, JobFields
<1>3. QED  BY <1>2, Update, JobFields

\* The next of a sequence is taken up.
LEMMA SequenceFact ==
    ASSUME Inv, NEW w \in Workers, NEW t \in Txs, NEW a \in Stages,
           NEW c \in Known, NEW r \in SUBSET Txs,
           job' = [job EXCEPT ![w][t] = [@ EXCEPT !.at = a, !.cur = c, !.rest = r]]
    PROVE  Becomes(w, t, a, job[w][t].exp, c, r, job[w][t].err)
<1>1. ASSUME NEW j \in Jobs
      PROVE  [j EXCEPT !.at = a, !.cur = c, !.rest = r]
             = [at |-> a, exp |-> j.exp, cur |-> c, rest |-> r, err |-> j.err]
  <2>1. [j EXCEPT !.at = a]
        = [at |-> a, exp |-> j.exp, cur |-> j.cur, rest |-> j.rest, err |-> j.err]
    BY DEF Jobs
  <2>2. [[at |-> a, exp |-> j.exp, cur |-> j.cur, rest |-> j.rest, err |-> j.err] EXCEPT !.cur = c]
        = [at |-> a, exp |-> j.exp, cur |-> c, rest |-> j.rest, err |-> j.err]
    OBVIOUS
  <2>3. [[at |-> a, exp |-> j.exp, cur |-> c, rest |-> j.rest, err |-> j.err] EXCEPT !.rest = r]
        = [at |-> a, exp |-> j.exp, cur |-> c, rest |-> r, err |-> j.err]
    OBVIOUS
  <2>4. QED  BY <2>1, <2>2, <2>3
<1>2. job' = [job EXCEPT ![w][t] = [at |-> a, exp |-> job[w][t].exp, cur |-> c,
                                    rest |-> r, err |-> job[w][t].err]]
  BY <1>1, JobFields
<1>3. QED  BY <1>2, Update, JobFields

\* A message's handling ends.
LEMMA IdleFact ==
    ASSUME Inv, NEW w \in Workers, NEW t \in Txs, job' = [job EXCEPT ![w][t] = Idle]
    PROVE  Becomes(w, t, "idle", 0, None, {}, "no")
BY Update DEF Idle, Counts, Known, Errors, Stages

----------------------------------------------------------------------------
(* What a step must show *)

\* The jobs that do not change stay sound, as the node forgets nothing.
LEMMA JobKeeps ==
    ASSUME Inv, NEW w \in Workers, NEW t \in Txs, NEW a, NEW e, NEW c, NEW r, NEW x,
           Becomes(w, t, a, e, c, r, x), node \subseteq node', Sound(job'[w][t], node')
    PROVE  JobInv'
BY DEF Inv, JobInv, Becomes, Sound

\* Nor does a trace disappear.
LEMMA TraceKeeps ==
    ASSUME Inv, Roomy, NEW w \in Workers, NEW t \in Txs, NEW a, NEW e, NEW c, NEW r, NEW x,
           Becomes(w, t, a, e, c, r, x), Traced \subseteq Traced', Traces(t, job'[w][t], Traced')
    PROVE  TraceInv'
<1> SUFFICES ASSUME NEW v \in Workers, NEW u \in Txs PROVE Traces(u, job'[v][u], Traced')
  BY DEF TraceInv
<1>1. CASE v = w /\ u = t  BY <1>1
<1>2. CASE v # w \/ u # t
  <2>1. job'[v][u] = job[v][u]  BY <1>2 DEF Becomes
  <2>2. Traces(u, job[v][u], Traced)  BY DEF Inv, TraceInv
  <2>3. QED  BY <2>1, <2>2 DEF Traces, Cleared
<1>3. QED  BY <1>1, <1>2

\* A step that takes no lock and removes none.
LEMMA LockKeeps ==
    ASSUME Inv, LockInv, NEW w \in Workers, NEW t \in Txs, NEW a, NEW e, NEW c, NEW r, NEW x,
           Becomes(w, t, a, e, c, r, x), UNCHANGED lock,
           a \in Holding => job[w][t].at \in Holding /\ c = job[w][t].cur
    PROVE  LockInv'
BY DEF LockInv, LockExclusive, Becomes

\* Only a worker that is up has a job.
LEMMA LifeKeeps ==
    ASSUME Inv, NEW w \in Workers, NEW t \in Txs, NEW a, NEW e, NEW c, NEW r, NEW x,
           Becomes(w, t, a, e, c, r, x), job[w][t].at # "idle", UNCHANGED life
    PROVE  LifeInv'
BY DEF Inv, LifeInv, Becomes

\* A step that only moves a job.
LEMMA OnlyJob ==
    ASSUME Inv, NEW w \in Workers, NEW t \in Txs, NEW a, NEW e, NEW c, NEW r, NEW x,
           Becomes(w, t, a, e, c, r, x), job[w][t].at # "idle",
           UNCHANGED <<queue, redis, local, chain, life>>,
           Sound(job'[w][t], node), Roomy => Traces(t, job'[w][t], Traced),
           a \in Holding => job[w][t].at \in Holding /\ c = job[w][t].cur
    PROVE  Inv'
<1> USE DEF queue, redis, local, chain
<1>1. Typed' /\ job' \in [Workers -> [Txs -> Jobs]]  BY DEF Inv, Typed, Becomes
<1>2. Recorded'  BY DEF Inv, Recorded, ReportedAccepted, LastTaken
<1>3. JobInv'  BY JobKeeps
<1>4. LifeInv'  BY LifeKeeps
<1>5. ~Overlap => LockInv'  BY LockKeeps DEF Inv
<1>6. Traced' = Traced  BY DEF Traced
<1>7. Roomy => Trail'  BY <1>6 DEF Inv, Trail, Cleared
<1>8. Roomy => TraceInv'  BY <1>6, TraceKeeps
<1>9. QED  BY <1>1, <1>2, <1>3, <1>4, <1>5, <1>7, <1>8 DEF Inv

\* The library's order of the natural numbers, without its operator
Smaller == {p \in Nat \X Nat : p[1] < p[2]}

\* A set of numbers that is not empty has a lowest one.
LEMMA LowestIn ==
    ASSUME NEW S \in SUBSET Nat, S # {}
    PROVE  Lowest(S) \in S /\ \A m \in S : Lowest(S) <= m
<1>1. OpToRel(<, Nat) = Smaller  BY Zenon DEF OpToRel, Smaller
<1>2. IsWellFoundedOn(Smaller, Nat)  BY Zenon, <1>1, NatLessThanWellFounded
<1>3. PICK n \in S : \A m \in S : ~ (<<m, n>> \in Smaller)
  BY Zenon, <1>2, WFMin
<1>4. ASSUME NEW m \in S PROVE n <= m
  <2>1. m \in Nat /\ n \in Nat /\ (m < n => <<m, n>> \in Smaller)  BY DEF Smaller
  <2>2. QED  BY <1>3, <2>1
<1>5. QED  BY <1>4 DEF Lowest

----------------------------------------------------------------------------
(* The expected nonce *)

\* The nonce that follows one of a transaction, or that the node counts, is in range.
LEMMA CountsFacts ==
    /\ \A n \in Txs : n + 1 \in Counts /\ \A e : e = n + 1 => e - 1 = n
    /\ \A n \in Returned : n \in Int
    /\ \A n \in Counts : n \in Int /\ n - 1 \in Known /\ (n # 0 => n - 1 \in Txs /\ n - 1 # None)
BY ConstantsAssumption DEF Counts, Known, None

\* A nonce is popped from the pool, or the memory is asked.
LEMMA AskPoolKeeps == ASSUME Inv, NEW w \in Workers, NEW t \in Txs, AskPool(w, t) PROVE Inv'
<1> DEFINE next == IF At(w, t, "pool") THEN "decide" ELSE "take"
<1>0. /\ next \in {"decide", "take"} /\ next \in Stages /\ next \notin Holding
      /\ job[w][t].at \in {"pool", "takepool"}
      /\ next = "take" => job[w][t].at = "takepool"
  BY DEF AskPool, At, Stages, Holding
<1> HIDE DEF next
<1>1. CASE pool # {} /\ Expect(w, t, next, Lowest(pool)) /\ pool' = pool \ {Lowest(pool)}
  <2> DEFINE n == Lowest(pool)
  <2>0. UNCHANGED <<msg, retries, row, sent, lock, marked, last, memory, buffer, kept, node, mined, life>>
    BY DEF AskPool, queue, local, chain
  <2>1. ~Roomy  BY <1>1 DEF Roomy, Inv, Typed
  <2>2. n \in Returned
    <3>1. pool \in SUBSET Nat /\ pool # {} /\ pool \subseteq Returned
      BY <1>1, ConstantsAssumption DEF Inv, Typed
    <3>2. QED  BY <3>1, LowestIn
  <2> HIDE DEF n
  <2>3. Becomes(w, t, next, n, job[w][t].cur, job[w][t].rest, job[w][t].err)
    BY <1>0, <1>1, <2>2, ExpectFact DEF n
  <2>4. Typed' /\ job' \in [Workers -> [Txs -> Jobs]]
    BY <1>1, <2>0, <2>3 DEF Inv, Typed, Becomes
  <2>5. Recorded'  BY <2>0 DEF Inv, Recorded, ReportedAccepted, LastTaken
  <2>6. JobInv'  BY <1>0, <2>0, <2>3, JobKeeps DEF Becomes, Sound, Broadcasting
  <2>7. LifeInv'  BY <1>0, <2>0, <2>3, LifeKeeps
  <2>8. ~Overlap => LockInv'  BY <1>0, <2>0, <2>3, LockKeeps DEF Inv
  <2>9. QED  BY <2>1, <2>4, <2>5, <2>6, <2>7, <2>8 DEF Inv, Roomy
<1>2. CASE pool = {} /\ memory[w] # None /\ Expect(w, t, next, memory[w] + 1) /\ UNCHANGED pool
  <2>0. UNCHANGED <<queue, redis, local, chain, life>>
    BY <1>2 DEF AskPool, redis
  <2>1. memory[w] \in Txs  BY <1>2 DEF Inv, Typed, Known
  <2>2. memory[w] + 1 \in Counts \cup Returned  BY <2>1, CountsFacts
  <2>3. Becomes(w, t, next, memory[w] + 1, job[w][t].cur, job[w][t].rest, job[w][t].err)
    BY <1>0, <1>2, <2>2, ExpectFact
  <2>4. Sound(job'[w][t], node)  BY <1>0, <2>3 DEF Becomes, Sound, Broadcasting
  <2>5. Roomy => Cleared(Traced, memory[w] + 1)  BY <1>2 DEF Inv, Trail
  <2>6. Roomy => Traces(t, job'[w][t], Traced)
    BY <1>0, <2>3, <2>5 DEF Becomes, Traces, Inv, TraceInv, Broadcasting
  <2>7. QED  BY <1>0, <2>0, <2>3, <2>4, <2>6, OnlyJob
<1>3. CASE pool = {} /\ memory[w] = None /\ Goto(w, t, "redis") /\ UNCHANGED pool
  <2>0. UNCHANGED <<queue, redis, local, chain, life>>
    BY <1>3 DEF AskPool, redis
  <2>1. Becomes(w, t, "redis", job[w][t].exp, job[w][t].cur, job[w][t].rest, job[w][t].err)
    BY <1>3, GotoFact DEF Stages
  <2>2. Sound(job'[w][t], node)  BY <2>1 DEF Becomes, Sound, Broadcasting
  <2>3. Roomy => Traces(t, job'[w][t], Traced)
    BY <2>1 DEF Becomes, Traces, Inv, TraceInv, Broadcasting
  <2>4. QED  BY <1>0, <2>0, <2>1, <2>2, <2>3, OnlyJob DEF Holding
<1>4. QED  BY <1>1, <1>2, <1>3 DEF AskPool, next

\* The last nonce in Redis is read, or there is none.
LEMMA AskRedisKeeps == ASSUME Inv, NEW w \in Workers, NEW t \in Txs, AskRedis(w, t) PROVE Inv'
<1>0. job[w][t].at = "redis" /\ UNCHANGED <<queue, redis, local, chain, life>>
  BY DEF AskRedis, At
<1>1. CASE last # None /\ Expect(w, t, "cache", last + 1)
  <2>1. last \in Txs  BY <1>1 DEF Inv, Typed, Known
  <2>2. Becomes(w, t, "cache", last + 1, job[w][t].cur, job[w][t].rest, job[w][t].err)
    BY <1>1, <2>1, CountsFacts, ExpectFact DEF Stages
  <2>3. job'[w][t].exp - 1 \in node
    <3>1. job'[w][t].exp - 1 = last  BY <2>1, <2>2, CountsFacts DEF Becomes
    <3>2. last \in node  BY <1>1 DEF Inv, Recorded, LastTaken
    <3>3. QED  BY <3>1, <3>2
  <2>4. Sound(job'[w][t], node)
    <3>1. job'[w][t].at = "cache"  BY <2>2 DEF Becomes
    <3>2. QED  BY <2>3, <3>1 DEF Sound, Broadcasting
  <2>5. Roomy => Cleared(Traced, last + 1)  BY <1>1 DEF Inv, Trail
  <2>6. Roomy => Traces(t, job'[w][t], Traced)
    BY <2>2, <2>5 DEF Becomes, Traces, Inv, TraceInv, Broadcasting
  <2>7. QED  BY <1>0, <2>2, <2>4, <2>6, OnlyJob DEF Holding
<1>2. CASE last = None /\ Goto(w, t, "chain")
  <2>1. Becomes(w, t, "chain", job[w][t].exp, job[w][t].cur, job[w][t].rest, job[w][t].err)
    BY <1>2, GotoFact DEF Stages
  <2>2. Sound(job'[w][t], node)  BY <2>1 DEF Becomes, Sound, Broadcasting
  <2>3. Roomy => Traces(t, job'[w][t], Traced)
    BY <2>1 DEF Becomes, Traces, Inv, TraceInv, Broadcasting
  <2>4. QED  BY <1>0, <2>1, <2>2, <2>3, OnlyJob DEF Holding
<1>3. QED  BY <1>1, <1>2 DEF AskRedis

\* The answer of Redis is cached.
LEMMA CacheLastKeeps == ASSUME Inv, NEW w \in Workers, NEW t \in Txs, CacheLast(w, t) PROVE Inv'
<1>0. /\ job[w][t].at = "cache"
      /\ UNCHANGED <<msg, retries, row, sent, lock, marked, last, pool, buffer, kept, node, mined, life>>
  BY DEF CacheLast, At, queue, redis, chain
<1> DEFINE n == job[w][t].exp - 1
<1>1. n \in node /\ n \in Txs /\ n + 1 = job[w][t].exp
  <2>1. n \in node /\ n \in Txs  BY <1>0 DEF Inv, Typed, JobInv, Sound
  <2>2. job[w][t].exp \in Int
    <3>1. job[w][t].exp \in Counts \cup Returned  BY JobFields
    <3>2. QED  BY <3>1, CountsFacts
  <2>3. QED  BY <2>1, <2>2
<1>2. memory' = [memory EXCEPT ![w] = n]  BY DEF CacheLast
<1>3. Roomy => Cleared(Traced, n + 1)  BY <1>0, <1>1 DEF Inv, TraceInv, Traces
<1> HIDE DEF n
<1>4. Becomes(w, t, "decide", job[w][t].exp, job[w][t].cur, job[w][t].rest, job[w][t].err)
  BY GotoFact DEF CacheLast, Stages
<1>5. Typed' /\ job' \in [Workers -> [Txs -> Jobs]]
  BY <1>0, <1>1, <1>2, <1>4 DEF Inv, Typed, Becomes, Known
<1>6. Recorded'  BY <1>0 DEF Inv, Recorded, ReportedAccepted, LastTaken
<1>7. JobInv'  BY <1>0, <1>4, JobKeeps DEF Becomes, Sound, Broadcasting
<1>8. LifeInv'  BY <1>0, <1>4, LifeKeeps
<1>9. ~Overlap => LockInv'  BY <1>0, <1>4, LockKeeps DEF Inv, Holding
<1>10. Traced' = Traced  BY <1>0 DEF Traced
<1>11. Roomy => Trail'  BY <1>0, <1>1, <1>2, <1>3, <1>10 DEF Inv, Typed, Trail, Cleared
<1>12. Roomy => TraceInv'
  BY <1>0, <1>1, <1>3, <1>4, <1>10, TraceKeeps DEF Becomes, Traces, Inv, TraceInv, Broadcasting
<1>13. QED  BY <1>5, <1>6, <1>7, <1>8, <1>9, <1>11, <1>12 DEF Inv

\* The node is asked: its count is taken, or the message fails.
LEMMA AskChainKeeps == ASSUME Inv, NEW w \in Workers, NEW t \in Txs, AskChain(w, t) PROVE Inv'
<1>0. job[w][t].at = "chain" /\ UNCHANGED <<queue, redis, local, chain, life>>
  BY DEF AskChain, At
<1>a. mined \in Counts /\ 0 \in Counts  BY DEF Inv, Typed, Counts
<1>b. Roomy => Cleared(Traced, mined)  BY DEF Inv, Trail
<1>1. CASE mined > 0 /\ Expect(w, t, "save", mined)
  <2>1. Becomes(w, t, "save", mined, job[w][t].cur, job[w][t].rest, job[w][t].err)
    BY <1>1, <1>a, ExpectFact DEF Stages
  <2>2. mined - 1 \in node
    <3>1. mined # 0  BY <1>1, <1>a, CountsFacts
    <3>2. QED  BY <3>1 DEF Inv, Recorded
  <2>3. Sound(job'[w][t], node)  BY <2>1, <2>2 DEF Becomes, Sound, Broadcasting
  <2>4. Roomy => Traces(t, job'[w][t], Traced)
    BY <1>b, <2>1 DEF Becomes, Traces, Inv, TraceInv, Broadcasting
  <2>5. QED  BY <1>0, <2>1, <2>3, <2>4, OnlyJob DEF Holding
<1>2. CASE mined = 0 /\ Expect(w, t, "decide", 0)
  <2>1. Becomes(w, t, "decide", 0, job[w][t].cur, job[w][t].rest, job[w][t].err)
    BY <1>2, <1>a, ExpectFact DEF Stages
  <2>2. Sound(job'[w][t], node)  BY <2>1 DEF Becomes, Sound, Broadcasting
  <2>3. Roomy => Traces(t, job'[w][t], Traced)
    BY <1>2, <1>b, <2>1 DEF Becomes, Traces, Inv, TraceInv, Broadcasting
  <2>4. QED  BY <1>0, <2>1, <2>2, <2>3, OnlyJob DEF Holding
<1>3. CASE Carry(w, t, "failure", "permanent")
  <2>1. Becomes(w, t, "failure", job[w][t].exp, job[w][t].cur, job[w][t].rest, "permanent")
    BY <1>3, CarryFact DEF Stages, Errors
  <2>2. Sound(job'[w][t], node)  BY <2>1 DEF Becomes, Sound, Broadcasting
  <2>3. Roomy => Traces(t, job'[w][t], Traced)
    BY <2>1 DEF Becomes, Traces, Inv, TraceInv, Broadcasting
  <2>4. QED  BY <1>0, <2>1, <2>2, <2>3, OnlyJob DEF Holding
<1>4. QED  BY <1>1, <1>2, <1>3 DEF AskChain

\* The node's count is cached and saved.
LEMMA SaveChainKeeps == ASSUME Inv, NEW w \in Workers, NEW t \in Txs, SaveChain(w, t) PROVE Inv'
<1>0. /\ job[w][t].at = "save"
      /\ UNCHANGED <<msg, retries, row, sent, lock, marked, pool, buffer, kept, node, mined, life>>
  BY DEF SaveChain, At, queue, chain
<1> DEFINE n == job[w][t].exp - 1
<1>1. n \in node /\ n \in Txs /\ n + 1 = job[w][t].exp
  <2>1. n \in node /\ n \in Txs  BY <1>0 DEF Inv, Typed, JobInv, Sound
  <2>2. job[w][t].exp \in Int
    <3>1. job[w][t].exp \in Counts \cup Returned  BY JobFields
    <3>2. QED  BY <3>1, CountsFacts
  <2>3. QED  BY <2>1, <2>2
<1>2. memory' = [memory EXCEPT ![w] = n] /\ last' = n  BY DEF SaveChain
<1>3. Roomy => Cleared(Traced, n + 1)  BY <1>0, <1>1 DEF Inv, TraceInv, Traces
<1> HIDE DEF n
<1>4. Becomes(w, t, "decide", job[w][t].exp, job[w][t].cur, job[w][t].rest, job[w][t].err)
  BY GotoFact DEF SaveChain, Stages
<1>5. Typed' /\ job' \in [Workers -> [Txs -> Jobs]]
  BY <1>0, <1>1, <1>2, <1>4 DEF Inv, Typed, Becomes, Known
<1>6. Recorded'  BY <1>0, <1>1, <1>2 DEF Inv, Recorded, ReportedAccepted, LastTaken
<1>7. JobInv'  BY <1>0, <1>4, JobKeeps DEF Becomes, Sound, Broadcasting
<1>8. LifeInv'  BY <1>0, <1>4, LifeKeeps
<1>9. ~Overlap => LockInv'  BY <1>0, <1>4, LockKeeps DEF Inv, Holding
<1>10. Traced' = Traced  BY <1>0 DEF Traced
<1>11. Roomy => Trail'  BY <1>0, <1>1, <1>2, <1>3, <1>10 DEF Inv, Typed, Trail, Cleared
<1>12. Roomy => TraceInv'
  BY <1>0, <1>1, <1>3, <1>4, <1>10, TraceKeeps DEF Becomes, Traces, Inv, TraceInv, Broadcasting
<1>13. QED  BY <1>5, <1>6, <1>7, <1>8, <1>9, <1>11, <1>12 DEF Inv

----------------------------------------------------------------------------
(* The decision *)

\* The expected transaction is taken up, a later one looked for, an old one dropped.
LEMMA DecideKeeps == ASSUME Inv, NEW w \in Workers, NEW t \in Txs, Decide(w, t) PROVE Inv'
<1>0. job[w][t].at = "decide" /\ UNCHANGED <<queue, redis, local, chain, life>>
  BY DEF Decide, At
<1>a. Roomy => Cleared(Traced, job[w][t].exp)  BY <1>0 DEF Inv, TraceInv, Traces
<1>1. CASE t = job[w][t].exp /\ job' = [job EXCEPT ![w][t] = [@ EXCEPT !.at = "check", !.cur = t]]
  <2>1. Becomes(w, t, "check", job[w][t].exp, t, job[w][t].rest, job[w][t].err)
    BY <1>1, CurrentFact DEF Stages, Known
  <2>2. Sound(job'[w][t], node)  BY <2>1 DEF Becomes, Sound, Broadcasting
  <2>3. Roomy => Traces(t, job'[w][t], Traced)
    BY <1>1, <1>a, <2>1 DEF Becomes, Traces, Inv, TraceInv, Broadcasting
  <2>4. QED  BY <1>0, <2>1, <2>2, <2>3, OnlyJob DEF Holding
<1>2. CASE t > job[w][t].exp /\ Goto(w, t, "search")
  <2>1. Becomes(w, t, "search", job[w][t].exp, job[w][t].cur, job[w][t].rest, job[w][t].err)
    BY <1>2, GotoFact DEF Stages
  <2>2. Sound(job'[w][t], node)  BY <2>1 DEF Becomes, Sound, Broadcasting
  <2>3. Roomy => Traces(t, job'[w][t], Traced)
    BY <2>1 DEF Becomes, Traces, Inv, TraceInv, Broadcasting
  <2>4. QED  BY <1>0, <2>1, <2>2, <2>3, OnlyJob DEF Holding
<1>3. CASE t < job[w][t].exp /\ Goto(w, t, "delete")
  <2>1. Becomes(w, t, "delete", job[w][t].exp, job[w][t].cur, job[w][t].rest, job[w][t].err)
    BY <1>3, GotoFact DEF Stages
  <2>2. Sound(job'[w][t], node)  BY <2>1 DEF Becomes, Sound, Broadcasting
  <2>3. Roomy => t \in Traced  BY <1>3, <1>a DEF Cleared
  <2>4. Roomy => Traces(t, job'[w][t], Traced)
    BY <2>1, <2>3 DEF Becomes, Traces, Inv, TraceInv, Broadcasting
  <2>5. QED  BY <1>0, <2>1, <2>2, <2>4, OnlyJob DEF Holding
<1>4. QED  BY <1>1, <1>2, <1>3 DEF Decide

\* A buffer with room for every transaction takes one that it does not hold.
LEMMA HasRoom ==
    ASSUME Inv, Roomy, NEW w \in Workers, NEW t \in Txs, t \notin buffer[w]
    PROVE  Cardinality(buffer[w]) < BufferSize
<1>1. buffer[w] \subseteq Txs \ {t}  BY DEF Inv, Typed
<1>2. IsFiniteSet(Txs \ {t}) /\ Cardinality(Txs \ {t}) = Cardinality(Txs) - 1
  BY FS_RemoveElement DEF Roomy
<1>3. Cardinality(buffer[w]) <= Cardinality(Txs \ {t}) /\ IsFiniteSet(buffer[w])
  BY <1>1, <1>2, FS_Subset
<1>4. Cardinality(buffer[w]) \in Nat /\ Cardinality(Txs) \in Nat
  BY <1>3, FS_CardinalityType DEF Roomy
<1>5. QED  BY <1>2, <1>3, <1>4, ConstantsAssumption DEF Roomy

\* Messages are hidden, and the transaction is buffered if there is room.
LEMMA SearchKeeps == ASSUME Inv, NEW w \in Workers, NEW t \in Txs, Search(w, t) PROVE Inv'
<1>0. /\ job[w][t].at = "search"
      /\ UNCHANGED <<retries, row, sent, lock, marked, last, pool, memory, node, mined, life>>
  BY DEF Search, At, redis, chain
<1>1. PICK H \in SUBSET {u \in Txs : msg[u] = "visible"} :
        msg' = [u \in Txs |-> IF u \in H THEN "hidden" ELSE msg[u]]
  BY DEF Search
<1>2. /\ kept \subseteq kept' /\ kept' \subseteq Txs
      /\ buffer' \in [Workers -> SUBSET Txs]
      /\ Roomy => \A v \in Workers : buffer'[v] \subseteq kept'
  <2>1. CASE /\ Cardinality(buffer[w]) < BufferSize
             /\ buffer' = [buffer EXCEPT ![w] = @ \cup {t}] /\ kept' = kept \cup {t}
    BY <2>1 DEF Inv, Typed, Trail
  <2>2. CASE UNCHANGED <<buffer, kept>>  BY <2>2 DEF Inv, Typed, Trail
  <2>3. QED  BY <2>1, <2>2 DEF Search
<1>3. Roomy => t \in kept'
  <2>1. CASE t \in buffer[w]  BY <1>2, <2>1 DEF Inv, Trail
  <2>2. CASE t \notin buffer[w]  BY <2>2, HasRoom DEF Search
  <2>3. QED  BY <2>1, <2>2
<1>4. Becomes(w, t, "delete", job[w][t].exp, job[w][t].cur, job[w][t].rest, job[w][t].err)
  BY GotoFact DEF Search, Stages
<1>5. Typed' /\ job' \in [Workers -> [Txs -> Jobs]]
  BY <1>0, <1>1, <1>2, <1>4 DEF Inv, Typed, Becomes
<1>6. Recorded'  BY <1>0 DEF Inv, Recorded, ReportedAccepted, LastTaken
<1>7. JobInv'  BY <1>0, <1>4, JobKeeps DEF Becomes, Sound, Broadcasting
<1>8. LifeInv'  BY <1>0, <1>4, LifeKeeps
<1>9. ~Overlap => LockInv'  BY <1>0, <1>4, LockKeeps DEF Inv, Holding
<1>10. Traced \subseteq Traced'  BY <1>0, <1>2 DEF Traced
<1>11. Roomy => Trail'
  <2>1. \A u \in Txs : msg'[u] = "deleted" => msg[u] = "deleted"  BY <1>1
  <2>2. QED  BY <1>0, <1>2, <1>10, <2>1 DEF Inv, Trail, Cleared
<1>12. Roomy => TraceInv'
  <2>1. Roomy => t \in Traced'  BY <1>3 DEF Traced
  <2>2. ASSUME Roomy PROVE \A r \in job'[w][t].rest : Cleared(Traced', r)
    BY <1>4, <1>10, <2>2 DEF Becomes, Inv, TraceInv, Traces, Cleared
  <2>3. Roomy => Traces(t, job'[w][t], Traced')
    BY <1>4, <2>1, <2>2 DEF Becomes, Traces, Broadcasting
  <2>4. QED  BY <1>4, <1>10, <2>3, TraceKeeps
<1>13. QED  BY <1>5, <1>6, <1>7, <1>8, <1>9, <1>11, <1>12 DEF Inv

----------------------------------------------------------------------------
(* The broadcast *)

\* What is recorded stays true when only the node learns something.
LEMMA RecordedKeeps ==
    ASSUME Inv, UNCHANGED <<row, sent, marked, last, mined>>, node \subseteq node'
    PROVE  Recorded'
BY DEF Inv, Recorded, ReportedAccepted, LastTaken

\* What was traced stays traced.
LEMMA TrailKeeps ==
    ASSUME Inv, Roomy, UNCHANGED <<buffer, kept, memory, last, mined, msg>>, Traced \subseteq Traced'
    PROVE  Trail'
BY DEF Inv, Trail, Cleared

\* A failure is the message's own, or it ends a sequence.
LEMMA FailFact ==
    ASSUME Inv, NEW w \in Workers, NEW t \in Txs, NEW x \in Errors, Fail(w, t, x),
           job[w][t].at \in Broadcasting
    PROVE  \E a, r, y : /\ Becomes(w, t, a, job[w][t].exp, job[w][t].cur, r, y)
                        /\ a \in {"failure", "delete"}
                        /\ Sound(job'[w][t], node)
                        /\ Roomy => Traces(t, job'[w][t], Traced)
<1>1. CASE job[w][t].cur = t
  <2>1. Becomes(w, t, "failure", job[w][t].exp, job[w][t].cur, job[w][t].rest, x)
    BY <1>1, CarryFact DEF Fail, Stages
  <2>2. Sound(job'[w][t], node)  BY <2>1 DEF Becomes, Sound, Broadcasting
  <2>3. Roomy => Traces(t, job'[w][t], Traced)
    BY <2>1 DEF Becomes, Traces, Inv, TraceInv, Broadcasting
  <2>4. QED  BY <2>1, <2>2, <2>3
<1>2. CASE job[w][t].cur # t
  <2>1. Becomes(w, t, "delete", job[w][t].exp, job[w][t].cur, {}, "no")
    BY <1>2, GiveUpFact DEF Fail, Stages, Errors
  <2>2. Sound(job'[w][t], node)  BY <2>1 DEF Becomes, Sound, Broadcasting
  <2>3. Roomy => t \in Traced  BY <1>2 DEF Inv, TraceInv, Traces
  <2>4. Roomy => Traces(t, job'[w][t], Traced)
    BY <2>1, <2>3 DEF Becomes, Traces, Broadcasting
  <2>5. QED  BY <2>1, <2>2, <2>4
<1>3. QED  BY <1>1, <1>2

\* A mark in Redis stands for a broadcast.
LEMMA CheckBroadcastedKeeps ==
    ASSUME Inv, NEW w \in Workers, NEW t \in Txs, CheckBroadcasted(w, t) PROVE Inv'
<1>0. /\ job[w][t].at = "check" /\ job[w][t].cur \in Txs
      /\ UNCHANGED <<queue, redis, local, chain, life>>
  BY DEF CheckBroadcasted, At, Inv, JobInv, Sound, Broadcasting
<1>1. PICK a \in {"last", "lock"} : Goto(w, t, a) /\ (a = "last" => job[w][t].cur \in marked)
  BY DEF CheckBroadcasted
<1>2. Becomes(w, t, a, job[w][t].exp, job[w][t].cur, job[w][t].rest, job[w][t].err)
  BY <1>1, GotoFact DEF Stages
<1>3. a = "last" => job[w][t].cur \in node
  BY <1>0, <1>1 DEF Inv, Recorded, ReportedAccepted
<1>4. Sound(job'[w][t], node)  BY <1>0, <1>2, <1>3 DEF Becomes, Sound
<1>5. Roomy => Traces(t, job'[w][t], Traced)
  BY <1>0, <1>2 DEF Becomes, Traces, Inv, TraceInv, Broadcasting
<1>6. QED  BY <1>0, <1>2, <1>4, <1>5, OnlyJob DEF Holding

\* The lock is taken when it is free, otherwise the handling fails.
LEMMA SetProcessingKeeps ==
    ASSUME Inv, NEW w \in Workers, NEW t \in Txs, SetProcessing(w, t) PROVE Inv'
<1> DEFINE c == job[w][t].cur
<1>0. job[w][t].at = "lock" /\ c \in Txs
  BY DEF SetProcessing, At, Inv, JobInv, Sound, Broadcasting
<1>1. CASE c \notin lock /\ lock' = lock \cup {c} /\ Goto(w, t, "send")
  <2>0. UNCHANGED <<msg, retries, row, sent, marked, last, pool, memory, buffer, kept, node, mined, life>>
    BY DEF SetProcessing, queue, local, chain
  <2>1. Becomes(w, t, "send", job[w][t].exp, c, job[w][t].rest, job[w][t].err)
    BY <1>1, GotoFact DEF Stages
  <2>2. Typed' /\ job' \in [Workers -> [Txs -> Jobs]]
    BY <1>0, <1>1, <2>0, <2>1 DEF Inv, Typed, Becomes
  <2>3. Recorded'  BY <2>0, RecordedKeeps
  <2>4. JobInv'  BY <1>0, <2>0, <2>1, JobKeeps DEF Becomes, Sound
  <2>5. LifeInv'  BY <1>0, <2>0, <2>1, LifeKeeps
  <2>6. ASSUME LockInv PROVE LockInv'
    <3>1. \A v \in Workers, u \in Txs : job'[v][u].at \in Holding => job'[v][u].cur \in lock'
      BY <1>1, <2>1, <2>6 DEF LockInv, Becomes
    <3>2. \A v \in Workers, u \in Txs :
            v # w \/ u # t => job'[v][u] = job[v][u] /\ (job[v][u].at \in Holding => job[v][u].cur # c)
      BY <1>1, <2>1, <2>6 DEF LockInv, Becomes
    <3>3. job'[w][t].cur = c  BY <2>1 DEF Becomes
    <3>4. LockExclusive'  BY <2>6, <3>2, <3>3 DEF LockInv, LockExclusive
    <3>5. QED  BY <3>1, <3>4 DEF LockInv
  <2>7. Traced' = Traced  BY <2>0 DEF Traced
  <2>8. Roomy => Trail'  BY <2>0, <2>7, TrailKeeps
  <2>9. Roomy => TraceInv'
    BY <1>0, <2>1, <2>7, TraceKeeps DEF Becomes, Traces, Inv, TraceInv, Broadcasting
  <2>10. QED  BY <2>2, <2>3, <2>4, <2>5, <2>6, <2>8, <2>9 DEF Inv
<1>2. CASE Fail(w, t, "permanent") /\ UNCHANGED lock
  <2>0. UNCHANGED <<queue, redis, local, chain, life>>  BY <1>2 DEF SetProcessing, redis
  <2>1. QED  BY <1>0, <1>2, <2>0, FailFact, OnlyJob DEF Errors, Holding, Broadcasting
<1>3. QED  BY <1>1, <1>2 DEF SetProcessing

\* The node takes the transaction or refuses it, and the answer may be lost.
LEMMA SendKeeps == ASSUME Inv, NEW w \in Workers, NEW t \in Txs, Send(w, t) PROVE Inv'
<1> DEFINE c == job[w][t].cur
<1>0. /\ job[w][t].at = "send" /\ c \in Txs
      /\ UNCHANGED <<msg, retries, row, sent, lock, marked, last, pool, memory, buffer, kept, mined, life>>
  BY DEF Send, At, queue, redis, local, Inv, JobInv, Sound, Broadcasting
<1>1. /\ node' = node \/ node' = node \cup {c}
      /\ \/ c \in node' /\ Goto(w, t, "mark")
         \/ \E x \in {"retryable", "permanent"} : Carry(w, t, "refused", x)
  BY ConstantsAssumption DEF Send
<1>2. PICK a \in {"mark", "refused"}, x \in Errors :
        /\ Becomes(w, t, a, job[w][t].exp, c, job[w][t].rest, x)
        /\ IF a = "mark" THEN c \in node' ELSE x # "no"
  <2>1. CASE c \in node' /\ Goto(w, t, "mark")
    BY <2>1, GotoFact, JobFields DEF Stages
  <2>2. CASE \E x \in {"retryable", "permanent"} : Carry(w, t, "refused", x)
    BY <2>2, CarryFact DEF Stages, Errors
  <2>3. QED  BY <1>1, <2>1, <2>2
<1> HIDE DEF c
<1>3. Typed' /\ job' \in [Workers -> [Txs -> Jobs]]
  BY <1>0, <1>1, <1>2 DEF Inv, Typed, Becomes
<1>4. Recorded'  BY <1>0, <1>1, RecordedKeeps
<1>5. JobInv'  BY <1>0, <1>1, <1>2, JobKeeps DEF Becomes, Sound
<1>6. LifeInv'  BY <1>0, <1>2, LifeKeeps
<1>7. ~Overlap => LockInv'  BY <1>0, <1>2, LockKeeps DEF Inv, Holding, c
<1>8. Traced \subseteq Traced'  BY <1>0, <1>1 DEF Traced
<1>9. Roomy => Trail'  BY <1>0, <1>8, TrailKeeps
<1>10. Roomy => TraceInv'
  <2>1. Roomy => Traces(t, job'[w][t], Traced')
    BY <1>0, <1>2, <1>8 DEF c, Becomes, Traces, Inv, TraceInv, Broadcasting, Cleared
  <2>2. QED  BY <1>2, <1>8, <2>1, TraceKeeps
<1>11. QED  BY <1>3, <1>4, <1>5, <1>6, <1>7, <1>9, <1>10 DEF Inv

\* A failed result is sent.
LEMMA RefusedKeeps == ASSUME Inv, NEW w \in Workers, NEW t \in Txs, Refused(w, t) PROVE Inv'
<1>0. /\ job[w][t].at = "refused" /\ job[w][t].cur \in Txs
      /\ UNCHANGED <<msg, retries, row, lock, marked, last, pool, memory, buffer, kept, node, mined, life>>
      /\ sent' = sent \cup {<<job[w][t].cur, "failed">>}
  BY DEF Refused, At, redis, local, chain, Inv, JobInv, Sound, Broadcasting
<1>1. Becomes(w, t, "unlock", job[w][t].exp, job[w][t].cur, job[w][t].rest, job[w][t].err)
  BY GotoFact DEF Refused, Stages
<1>2. job[w][t].err # "no"  BY <1>0 DEF Inv, JobInv, Sound
<1>3. Typed' /\ job' \in [Workers -> [Txs -> Jobs]]
  BY <1>0, <1>1 DEF Inv, Typed, Becomes
<1>4. Recorded'
  <2>1. \A u \in Txs : <<u, "broadcasted">> \in sent' => <<u, "broadcasted">> \in sent  BY <1>0
  <2>2. QED  BY <1>0, <2>1 DEF Inv, Recorded, ReportedAccepted, LastTaken
<1>5. JobInv'  BY <1>0, <1>1, <1>2, JobKeeps DEF Becomes, Sound
<1>6. LifeInv'  BY <1>0, <1>1, LifeKeeps
<1>7. ~Overlap => LockInv'  BY <1>0, <1>1, LockKeeps DEF Inv, Holding
<1>8. Traced \subseteq Traced'  BY <1>0 DEF Traced
<1>9. Roomy => Trail'  BY <1>0, <1>8, TrailKeeps
<1>10. Roomy => TraceInv'
  <2>1. Roomy => Traces(t, job'[w][t], Traced')
    BY <1>0, <1>1, <1>8 DEF Becomes, Traces, Inv, TraceInv, Broadcasting, Cleared
  <2>2. QED  BY <1>1, <1>8, <2>1, TraceKeeps
<1>11. QED  BY <1>3, <1>4, <1>5, <1>6, <1>7, <1>9, <1>10 DEF Inv

\* The transaction is marked.
LEMMA MarkBroadcastedKeeps ==
    ASSUME Inv, NEW w \in Workers, NEW t \in Txs, MarkBroadcasted(w, t) PROVE Inv'
<1>0. /\ job[w][t].at = "mark" /\ job[w][t].cur \in Txs /\ job[w][t].cur \in node
      /\ UNCHANGED <<msg, retries, row, sent, lock, last, pool, memory, buffer, kept, node, mined, life>>
      /\ marked' = marked \cup {job[w][t].cur}
  BY DEF MarkBroadcasted, At, queue, local, chain, Inv, JobInv, Sound, Broadcasting
<1>1. Becomes(w, t, "row", job[w][t].exp, job[w][t].cur, job[w][t].rest, job[w][t].err)
  BY GotoFact DEF MarkBroadcasted, Stages
<1>2. Typed' /\ job' \in [Workers -> [Txs -> Jobs]]
  BY <1>0, <1>1 DEF Inv, Typed, Becomes
<1>3. Recorded'  BY <1>0 DEF Inv, Recorded, ReportedAccepted, LastTaken
<1>4. JobInv'  BY <1>0, <1>1, JobKeeps DEF Becomes, Sound
<1>5. LifeInv'  BY <1>0, <1>1, LifeKeeps
<1>6. ~Overlap => LockInv'  BY <1>0, <1>1, LockKeeps DEF Inv, Holding
<1>7. Traced' = Traced  BY <1>0 DEF Traced
<1>8. Roomy => Trail'  BY <1>0, <1>7, TrailKeeps
<1>9. Roomy => TraceInv'
  BY <1>0, <1>1, <1>7, TraceKeeps DEF Becomes, Traces, Inv, TraceInv, Broadcasting
<1>10. QED  BY <1>2, <1>3, <1>4, <1>5, <1>6, <1>8, <1>9 DEF Inv

\* An update or a report that fails leads to the unlocking, with an error.
LEMMA ThrowFact ==
    ASSUME Inv, NEW w \in Workers, NEW t \in Txs, Throw(w, t)
    PROVE  \E x \in Errors \ {"no"} :
              Becomes(w, t, "unlock", job[w][t].exp, job[w][t].cur, job[w][t].rest, x)
<1>1. PICK x \in {"retryable", "permanent"} : Carry(w, t, "unlock", x)
  BY ConstantsAssumption DEF Throw
<1>2. QED  BY <1>1, CarryFact DEF Stages, Errors

\* The row is updated, or that fails.
LEMMA UpdateToBroadcastedKeeps ==
    ASSUME Inv, NEW w \in Workers, NEW t \in Txs, UpdateToBroadcasted(w, t) PROVE Inv'
<1>0. /\ job[w][t].at = "row" /\ job[w][t].cur \in Txs /\ job[w][t].cur \in node
      /\ UNCHANGED <<msg, retries, sent, lock, marked, last, pool, memory, buffer, kept, node, mined, life>>
  BY DEF UpdateToBroadcasted, At, redis, local, chain, Inv, JobInv, Sound, Broadcasting
<1>1. row' = row \/ row' = [row EXCEPT ![job[w][t].cur] = "BROADCASTED"]
  BY DEF UpdateToBroadcasted
<1>2. PICK a \in {"report", "unlock"}, x \in Errors :
        Becomes(w, t, a, job[w][t].exp, job[w][t].cur, job[w][t].rest, x)
  <2>1. CASE Goto(w, t, "report")  BY <2>1, GotoFact, JobFields DEF Stages
  <2>2. CASE Throw(w, t)  BY <2>2, ThrowFact
  <2>3. QED  BY <2>1, <2>2 DEF UpdateToBroadcasted
<1>3. Typed' /\ job' \in [Workers -> [Txs -> Jobs]]
  BY <1>0, <1>1, <1>2 DEF Inv, Typed, Becomes
<1>4. Recorded'
  BY <1>0, <1>1 DEF Inv, Typed, Recorded, ReportedAccepted, LastTaken
<1>5. JobInv'  BY <1>0, <1>2, JobKeeps DEF Becomes, Sound
<1>6. LifeInv'  BY <1>0, <1>2, LifeKeeps
<1>7. ~Overlap => LockInv'  BY <1>0, <1>2, LockKeeps DEF Inv, Holding
<1>8. Traced \subseteq Traced'  BY <1>0, <1>1 DEF Traced
<1>9. Roomy => Trail'  BY <1>0, <1>8, TrailKeeps
<1>10. Roomy => TraceInv'
  <2>1. Roomy => Traces(t, job'[w][t], Traced')
    BY <1>0, <1>2, <1>8 DEF Becomes, Traces, Inv, TraceInv, Broadcasting, Cleared
  <2>2. QED  BY <1>2, <1>8, <2>1, TraceKeeps
<1>11. QED  BY <1>3, <1>4, <1>5, <1>6, <1>7, <1>9, <1>10 DEF Inv

\* The result is sent, or that fails.
LEMMA SendBroadcastResultKeeps ==
    ASSUME Inv, NEW w \in Workers, NEW t \in Txs, SendBroadcastResult(w, t) PROVE Inv'
<1>0. /\ job[w][t].at = "report" /\ job[w][t].cur \in Txs /\ job[w][t].cur \in node
      /\ UNCHANGED <<msg, retries, row, lock, marked, last, pool, memory, buffer, kept, node, mined, life>>
  BY DEF SendBroadcastResult, At, redis, local, chain, Inv, JobInv, Sound, Broadcasting
<1>1. sent' = sent \/ sent' = sent \cup {<<job[w][t].cur, "broadcasted">>}
  BY DEF SendBroadcastResult
<1>2. PICK x \in Errors :
        Becomes(w, t, "unlock", job[w][t].exp, job[w][t].cur, job[w][t].rest, x)
  <2>1. CASE Goto(w, t, "unlock")  BY <2>1, GotoFact, JobFields DEF Stages
  <2>2. CASE Throw(w, t)  BY <2>2, ThrowFact
  <2>3. QED  BY <2>1, <2>2 DEF SendBroadcastResult
<1>3. Typed' /\ job' \in [Workers -> [Txs -> Jobs]]
  BY <1>0, <1>1, <1>2 DEF Inv, Typed, Becomes
<1>4. Recorded'
  BY <1>0, <1>1 DEF Inv, Typed, Recorded, ReportedAccepted, LastTaken
<1>5. JobInv'  BY <1>0, <1>2, JobKeeps DEF Becomes, Sound
<1>6. LifeInv'  BY <1>0, <1>2, LifeKeeps
<1>7. ~Overlap => LockInv'  BY <1>0, <1>2, LockKeeps DEF Inv, Holding
<1>8. Traced \subseteq Traced'  BY <1>0, <1>1 DEF Traced
<1>9. Roomy => Trail'  BY <1>0, <1>8, TrailKeeps
<1>10. Roomy => TraceInv'
  <2>1. Roomy => Traces(t, job'[w][t], Traced')
    BY <1>0, <1>2, <1>8 DEF Becomes, Traces, Inv, TraceInv, Broadcasting, Cleared
  <2>2. QED  BY <1>2, <1>8, <2>1, TraceKeeps
<1>11. QED  BY <1>3, <1>4, <1>5, <1>6, <1>7, <1>9, <1>10 DEF Inv

\* The lock is removed; nobody else held it.
LEMMA RemoveProcessingKeeps ==
    ASSUME Inv, NEW w \in Workers, NEW t \in Txs, RemoveProcessing(w, t) PROVE Inv'
<1> DEFINE c == job[w][t].cur
<1>0. /\ job[w][t].at = "unlock" /\ c \in Txs
      /\ UNCHANGED <<msg, retries, row, sent, marked, last, pool, memory, buffer, kept, node, mined, life>>
      /\ lock' = lock \ {c}
  BY DEF RemoveProcessing, At, queue, local, chain, Inv, JobInv, Sound, Broadcasting
<1>1. PICK a, r, x : /\ Becomes(w, t, a, job[w][t].exp, c, r, x)
                     /\ a \notin Holding
                     /\ Sound(job'[w][t], node)
                     /\ Roomy => Traces(t, job'[w][t], Traced)
  <2>1. CASE job[w][t].err = "no" /\ Goto(w, t, "last")
    <3>1. Becomes(w, t, "last", job[w][t].exp, c, job[w][t].rest, job[w][t].err)
      BY <2>1, GotoFact DEF Stages
    <3>2. c \in node  BY <1>0, <2>1 DEF Inv, JobInv, Sound
    <3>3. Sound(job'[w][t], node)  BY <1>0, <3>1, <3>2 DEF Becomes, Sound
    <3>4. Roomy => Traces(t, job'[w][t], Traced)
      BY <1>0, <3>1 DEF Becomes, Traces, Inv, TraceInv, Broadcasting
    <3>5. QED  BY <3>1, <3>3, <3>4 DEF Holding
  <2>2. CASE Fail(w, t, job[w][t].err)
    BY <1>0, <2>2, FailFact, JobFields DEF Broadcasting, Holding
  <2>3. QED  BY <2>1, <2>2 DEF RemoveProcessing
<1>2. Typed' /\ job' \in [Workers -> [Txs -> Jobs]]
  BY <1>0, <1>1 DEF Inv, Typed, Becomes
<1>3. Recorded'  BY <1>0, RecordedKeeps
<1>4. JobInv'  BY <1>0, <1>1, JobKeeps
<1>5. LifeInv'  BY <1>0, <1>1, LifeKeeps
<1>6. ASSUME LockInv PROVE LockInv'
  <2>1. \A v \in Workers, u \in Txs :
          v # w \/ u # t => job'[v][u] = job[v][u] /\ (job[v][u].at \in Holding => job[v][u].cur # c)
    BY <1>0, <1>1, <1>6 DEF LockInv, LockExclusive, Becomes, Holding
  <2>2. job'[w][t].at \notin Holding  BY <1>1 DEF Becomes
  <2>3. \A v \in Workers, u \in Txs : job'[v][u].at \in Holding => job'[v][u].cur \in lock'
    BY <1>0, <1>6, <2>1, <2>2 DEF LockInv
  <2>4. LockExclusive'  BY <1>6, <2>1, <2>2 DEF LockInv, LockExclusive
  <2>5. QED  BY <2>3, <2>4 DEF LockInv
<1>7. Traced' = Traced  BY <1>0 DEF Traced
<1>8. Roomy => Trail'  BY <1>0, <1>7, TrailKeeps
<1>9. Roomy => TraceInv'  BY <1>1, <1>7, TraceKeeps
<1>10. QED  BY <1>2, <1>3, <1>4, <1>5, <1>6, <1>8, <1>9 DEF Inv

----------------------------------------------------------------------------
(* After the broadcast *)

\* The next of a sequence is taken up, or the message's handling ends.
LEMMA NextBufferedFact ==
    ASSUME Inv, NEW w \in Workers, NEW t \in Txs, NEW R \in SUBSET Txs, NextBuffered(w, t, R),
           Roomy => t \in Traced /\ \A r \in R : Cleared(Traced, r)
    PROVE  \E a, c, r : /\ Becomes(w, t, a, job[w][t].exp, c, r, job[w][t].err)
                        /\ a \in {"delete", "check"}
                        /\ Sound(job'[w][t], node)
                        /\ Roomy => Traces(t, job'[w][t], Traced)
<1>1. CASE R = {}
  <2>1. Becomes(w, t, "delete", job[w][t].exp, job[w][t].cur, {}, job[w][t].err)
    BY <1>1, RestFact DEF NextBuffered, Stages
  <2>2. Sound(job'[w][t], node)  BY <2>1 DEF Becomes, Sound, Broadcasting
  <2>3. Roomy => Traces(t, job'[w][t], Traced)  BY <2>1 DEF Becomes, Traces, Broadcasting
  <2>4. QED  BY <2>1, <2>2, <2>3
<1>2. CASE R # {}
  <2> DEFINE c == Lowest(R)
             S == R \ {c}
  <2>1. c \in R  BY <1>2, LowestIn, ConstantsAssumption
  <2>2. c \in Known /\ S \in SUBSET Txs  BY <2>1 DEF Known
  <2>3. job' = [job EXCEPT ![w][t] = [@ EXCEPT !.at = "check", !.cur = c, !.rest = S]]
    BY <1>2 DEF NextBuffered
  <2> HIDE DEF c, S
  <2>4. Becomes(w, t, "check", job[w][t].exp, c, S, job[w][t].err)
    BY <2>2, <2>3, SequenceFact DEF Stages
  <2>5. Sound(job'[w][t], node)  BY <2>1, <2>4 DEF Becomes, Sound
  <2>6. Roomy => Traces(t, job'[w][t], Traced)
    BY <2>1, <2>4 DEF S, Becomes, Traces, Broadcasting
  <2>7. QED  BY <2>4, <2>5, <2>6
<1>3. QED  BY <1>1, <1>2

\* The last nonce becomes that of the transaction that was broadcast.
LEMMA UpdateLastKeeps ==
    ASSUME Inv, NEW w \in Workers, NEW t \in Txs, UpdateLast(w, t) PROVE Inv'
<1> DEFINE c == job[w][t].cur
<1>0. /\ job[w][t].at = "last" /\ c \in Txs /\ c \in node
      /\ UNCHANGED <<msg, retries, row, sent, lock, marked, pool, buffer, kept, node, mined, life>>
      /\ memory' = [memory EXCEPT ![w] = c] /\ last' = c
  BY DEF UpdateLast, At, queue, chain, Inv, JobInv, Sound, Broadcasting
<1>1. Roomy => Cleared(Traced, c + 1)
  <2>1. c \in Txs  BY <1>0
  <2>2. Roomy => Cleared(Traced, c)  BY <1>0 DEF Inv, TraceInv, Traces, Broadcasting
  <2>3. c \in Traced  BY <1>0 DEF Traced
  <2> HIDE DEF c
  <2>4. ASSUME NEW u \in Txs, u < c + 1 PROVE u = c \/ u < c
    <3>1. c \in Int /\ u \in Int  BY <2>1, ConstantsAssumption
    <3>2. QED  BY <2>4, <3>1
  <2>5. QED  BY <2>2, <2>3, <2>4 DEF Cleared
<1>2. PICK a, d, r : /\ Becomes(w, t, a, job[w][t].exp, d, r, job[w][t].err)
                     /\ a \notin Holding
                     /\ Sound(job'[w][t], node)
                     /\ Roomy => Traces(t, job'[w][t], Traced)
  <2>1. CASE c = t /\ Goto(w, t, "takepool")
    <3>1. Becomes(w, t, "takepool", job[w][t].exp, c, job[w][t].rest, job[w][t].err)
      BY <2>1, GotoFact DEF Stages
    <3>2. Sound(job'[w][t], node)  BY <3>1 DEF Becomes, Sound, Broadcasting
    <3>3. t \in Traced  BY <1>0, <2>1 DEF Traced
    <3>4. Roomy => Traces(t, job'[w][t], Traced)
      BY <3>1, <3>3 DEF Becomes, Traces, Inv, TraceInv, Broadcasting
    <3>5. QED  BY <3>1, <3>2, <3>4 DEF Holding
  <2>2. CASE c # t /\ NextBuffered(w, t, job[w][t].rest)
    <3>1. Roomy => t \in Traced /\ \A r \in job[w][t].rest : Cleared(Traced, r)
      BY <1>0, <2>2 DEF Inv, TraceInv, Traces, Broadcasting
    <3>2. job[w][t].rest \in SUBSET Txs  BY JobFields
    <3>3. QED  BY <2>2, <3>1, <3>2, NextBufferedFact DEF Holding
  <2>3. QED  BY <2>1, <2>2 DEF UpdateLast
<1> HIDE DEF c
<1>3. Typed' /\ job' \in [Workers -> [Txs -> Jobs]]
  BY <1>0, <1>2 DEF Inv, Typed, Becomes, Known
<1>4. Recorded'  BY <1>0 DEF Inv, Recorded, ReportedAccepted, LastTaken
<1>5. JobInv'  BY <1>0, <1>2, JobKeeps
<1>6. LifeInv'  BY <1>0, <1>2, LifeKeeps
<1>7. ~Overlap => LockInv'  BY <1>0, <1>2, LockKeeps DEF Inv
<1>8. Traced' = Traced  BY <1>0 DEF Traced
<1>9. Roomy => Trail'  BY <1>0, <1>1, <1>8 DEF Inv, Typed, Trail, Cleared
<1>10. Roomy => TraceInv'  BY <1>2, <1>8, TraceKeeps
<1>11. QED  BY <1>3, <1>4, <1>5, <1>6, <1>7, <1>9, <1>10 DEF Inv

\* Nothing is in the buffer.
LEMMA NothingBufferedKeeps ==
    ASSUME Inv, NEW w \in Workers, NEW t \in Txs, NothingBuffered(w, t) PROVE Inv'
<1>0. job[w][t].at = "takepool" /\ UNCHANGED <<queue, redis, local, chain, life>>
  BY DEF NothingBuffered, At
<1>1. Becomes(w, t, "delete", job[w][t].exp, job[w][t].cur, job[w][t].rest, job[w][t].err)
  BY GotoFact DEF NothingBuffered, Stages
<1>2. Sound(job'[w][t], node)  BY <1>1 DEF Becomes, Sound, Broadcasting
<1>3. Roomy => Traces(t, job'[w][t], Traced)
  BY <1>0, <1>1 DEF Becomes, Traces, Inv, TraceInv, Broadcasting
<1>4. QED  BY <1>0, <1>1, <1>2, <1>3, OnlyJob DEF Holding

\* Everything up to a member of a run is below its start or in the buffer.
LEMMA RunFact ==
    ASSUME Inv, Roomy, NEW w \in Workers, NEW n \in Int, Cleared(Traced, n),
           NEW m \in Run(buffer[w], n)
    PROVE  Cleared(Traced, m) /\ Cleared(Traced, m + 1)
<1>1. m \in Txs /\ m \in Int /\ m >= n /\ \A k \in n..m : k \in buffer[w]
  BY ConstantsAssumption DEF Run, Inv, Typed
<1>2. ASSUME NEW u \in Txs, u < m + 1 PROVE u \in Traced
  <2>1. u \in Int  BY ConstantsAssumption
  <2>2. CASE u < n  BY <2>2 DEF Cleared
  <2>3. CASE ~(u < n)
    <3>1. u \in n..m  BY <1>1, <1>2, <2>1, <2>3
    <3>2. u \in kept  BY <1>1, <3>1 DEF Inv, Trail
    <3>3. QED  BY <3>2 DEF Traced
  <2>4. QED  BY <2>2, <2>3
<1>3. \A u \in Txs : u < m => u < m + 1  BY <1>1, ConstantsAssumption
<1>4. QED  BY <1>2, <1>3 DEF Cleared

\* A sequence is taken out of the buffer.
LEMMA TakeKeeps == ASSUME Inv, NEW w \in Workers, NEW t \in Txs, Take(w, t) PROVE Inv'
<1> DEFINE R == Run(buffer[w], job[w][t].exp)
<1>0. /\ job[w][t].at = "take"
      /\ UNCHANGED <<msg, retries, row, sent, lock, marked, last, pool, kept, node, mined, life>>
      /\ buffer' = [buffer EXCEPT ![w] = @ \ R]
      /\ \/ R = {} /\ UNCHANGED memory
         \/ \E n \in R : memory' = [memory EXCEPT ![w] = n]
      /\ NextBuffered(w, t, R)
  BY DEF Take, At, queue, redis, chain
<1>1. R \in SUBSET Txs  BY DEF Run, Inv, Typed
<1>2. job[w][t].exp \in Int
  <2>1. job[w][t].exp \in Counts \cup Returned  BY JobFields
  <2>2. QED  BY <2>1, CountsFacts
<1>3. Roomy => t \in Traced /\ \A r \in R : Cleared(Traced, r) /\ Cleared(Traced, r + 1)
  BY <1>0, <1>2, RunFact DEF Inv, TraceInv, Traces
<1> HIDE DEF R
<1>4. PICK a, d, r : /\ Becomes(w, t, a, job[w][t].exp, d, r, job[w][t].err)
                     /\ a \notin Holding
                     /\ Sound(job'[w][t], node)
                     /\ Roomy => Traces(t, job'[w][t], Traced)
  BY <1>0, <1>1, <1>3, NextBufferedFact DEF Holding
<1>5. Typed' /\ job' \in [Workers -> [Txs -> Jobs]]
  BY <1>0, <1>1, <1>4 DEF Inv, Typed, Becomes, Known
<1>6. Recorded'  BY <1>0, RecordedKeeps
<1>7. JobInv'  BY <1>0, <1>4, JobKeeps
<1>8. LifeInv'  BY <1>0, <1>4, LifeKeeps
<1>9. ~Overlap => LockInv'  BY <1>0, <1>4, LockKeeps DEF Inv
<1>10. Traced' = Traced  BY <1>0 DEF Traced
<1>11. Roomy => Trail'
  <2>1. ASSUME Roomy, NEW v \in Workers
        PROVE  buffer'[v] \subseteq kept /\ (memory'[v] # None => Cleared(Traced, memory'[v] + 1))
    BY <1>0, <1>3, <2>1 DEF Inv, Typed, Trail
  <2>2. QED  BY <1>0, <1>10, <2>1 DEF Inv, Trail, Cleared
<1>12. Roomy => TraceInv'  BY <1>4, <1>10, TraceKeeps
<1>13. QED  BY <1>5, <1>6, <1>7, <1>8, <1>9, <1>11, <1>12 DEF Inv


----------------------------------------------------------------------------
(* The end of a message *)

\* A message is deleted only where its transaction has a trace.
LEMMA DeleteMessageKeeps ==
    ASSUME Inv, NEW w \in Workers, NEW t \in Txs, DeleteMessage(w, t) PROVE Inv'
<1>0. /\ job[w][t].at = "delete"
      /\ UNCHANGED <<retries, row, sent, lock, marked, last, pool, memory, buffer, kept, node, mined, life>>
  BY DEF DeleteMessage, At, redis, local, chain
<1>1. CASE msg' = [msg EXCEPT ![t] = "deleted"] /\ job' = [job EXCEPT ![w][t] = Idle]
  <2>1. Becomes(w, t, "idle", 0, None, {}, "no")  BY <1>1, IdleFact
  <2>2. Typed' /\ job' \in [Workers -> [Txs -> Jobs]]
    BY <1>0, <1>1, <2>1 DEF Inv, Typed, Becomes
  <2>3. Recorded'  BY <1>0, RecordedKeeps
  <2>4. JobInv'  BY <1>0, <2>1, JobKeeps DEF Becomes, Sound, Broadcasting
  <2>5. LifeInv'  BY <1>0, <2>1, LifeKeeps
  <2>6. ~Overlap => LockInv'  BY <1>0, <2>1, LockKeeps DEF Inv, Holding
  <2>7. Traced' = Traced  BY <1>0 DEF Traced
  <2>8. Roomy => t \in Traced  BY <1>0 DEF Inv, TraceInv, Traces
  <2>9. Roomy => Trail'  BY <1>0, <1>1, <2>7, <2>8 DEF Inv, Typed, Trail, Cleared
  <2>10. Roomy => TraceInv'  BY <2>1, <2>7, TraceKeeps DEF Becomes, Traces, Broadcasting
  <2>11. QED  BY <2>2, <2>3, <2>4, <2>5, <2>6, <2>9, <2>10 DEF Inv
<1>2. CASE \E x \in Faults : Carry(w, t, "failure", x) /\ UNCHANGED msg
  <2>0. UNCHANGED <<queue, redis, local, chain, life>>  BY <1>2 DEF DeleteMessage, queue
  <2>1. PICK x \in Errors : Carry(w, t, "failure", x)
    BY <1>2, ConstantsAssumption DEF Errors
  <2>2. Becomes(w, t, "failure", job[w][t].exp, job[w][t].cur, job[w][t].rest, x)
    BY <2>1, CarryFact DEF Stages
  <2>3. Sound(job'[w][t], node)  BY <2>2 DEF Becomes, Sound, Broadcasting
  <2>4. Roomy => Traces(t, job'[w][t], Traced)
    BY <2>2 DEF Becomes, Traces, Inv, TraceInv, Broadcasting
  <2>5. QED  BY <1>0, <2>0, <2>2, <2>3, <2>4, OnlyJob DEF Holding
<1>3. QED  BY <1>1, <1>2 DEF DeleteMessage

\* A stage that says nothing of the node nor of a trace.
LEMMA Silent ==
    ASSUME Inv, NEW w \in Workers, NEW t \in Txs,
           NEW a \in {"idle", "fail", "dead", "reportfail"},
           Goto(w, t, a) \/ (a = "idle" /\ job' = [job EXCEPT ![w][t] = Idle])
    PROVE  \E e, c, r, x : /\ Becomes(w, t, a, e, c, r, x)
                           /\ a \notin Holding
                           /\ Sound(job'[w][t], node)
                           /\ Roomy => Traces(t, job'[w][t], Traced)
<1>1. PICK e, c, r, x : Becomes(w, t, a, e, c, r, x) /\ (r = {} \/ r = job[w][t].rest)
  <2>1. CASE Goto(w, t, a)  BY <2>1, GotoFact DEF Stages
  <2>2. CASE a = "idle" /\ job' = [job EXCEPT ![w][t] = Idle]  BY <2>2, IdleFact
  <2>3. QED  BY <2>1, <2>2
<1>2. Sound(job'[w][t], node)  BY <1>1 DEF Becomes, Sound, Broadcasting
<1>3. Roomy => Traces(t, job'[w][t], Traced)
  BY <1>1 DEF Becomes, Traces, Inv, TraceInv, Broadcasting
<1>4. QED  BY <1>1, <1>2, <1>3 DEF Holding

\* A failure is retried or final.
LEMMA HandleFailureKeeps ==
    ASSUME Inv, NEW w \in Workers, NEW t \in Txs, HandleFailure(w, t) PROVE Inv'
<1>0. /\ job[w][t].at = "failure"
      /\ UNCHANGED <<msg, row, sent, lock, marked, last, pool, memory, buffer, kept, node, mined, life>>
  BY DEF HandleFailure, At, redis, local, chain
<1>1. retries' \in [Txs -> 0..MaxRetries]
  <2>1. retries \in [Txs -> 0..MaxRetries] /\ MaxRetries \in Nat
    BY ConstantsAssumption DEF Inv, Typed
  <2>2. \A i \in 0..MaxRetries : i < MaxRetries => i + 1 \in 0..MaxRetries  BY <2>1
  <2>3. QED  BY <2>1, <2>2 DEF HandleFailure
<1>2. PICK a, e, c, r, x : /\ Becomes(w, t, a, e, c, r, x)
                           /\ a \notin Holding
                           /\ Sound(job'[w][t], node)
                           /\ Roomy => Traces(t, job'[w][t], Traced)
  <2>1. CASE Goto(w, t, "fail")  BY <2>1, Silent
  <2>2. CASE Goto(w, t, "dead")  BY <2>2, Silent
  <2>3. CASE job' = [job EXCEPT ![w][t] = Idle]  BY <2>3, Silent
  <2>4. QED  BY <2>1, <2>2, <2>3 DEF HandleFailure
<1>3. Typed' /\ job' \in [Workers -> [Txs -> Jobs]]
  BY <1>0, <1>1, <1>2 DEF Inv, Typed, Becomes
<1>4. Recorded'  BY <1>0, RecordedKeeps
<1>5. JobInv'  BY <1>0, <1>2, JobKeeps
<1>6. LifeInv'  BY <1>0, <1>2, LifeKeeps
<1>7. ~Overlap => LockInv'  BY <1>0, <1>2, LockKeeps DEF Inv
<1>8. Traced' = Traced  BY <1>0 DEF Traced
<1>9. Roomy => Trail'  BY <1>0, <1>8, TrailKeeps
<1>10. Roomy => TraceInv'  BY <1>2, <1>8, TraceKeeps
<1>11. QED  BY <1>3, <1>4, <1>5, <1>6, <1>7, <1>9, <1>10 DEF Inv

\* A row that becomes FAILED says nothing of the node.
LEMMA UpdateToFailedKeeps ==
    ASSUME Inv, NEW w \in Workers, NEW t \in Txs, UpdateToFailed(w, t) PROVE Inv'
<1>0. /\ job[w][t].at = "fail" /\ row' = [row EXCEPT ![t] = "FAILED"]
      /\ UNCHANGED <<msg, retries, sent, lock, marked, last, pool, memory, buffer, kept, node, mined, life>>
  BY DEF UpdateToFailed, At, redis, local, chain
<1>1. PICK e, c, r, x : /\ Becomes(w, t, "reportfail", e, c, r, x)
                        /\ Sound(job'[w][t], node)
                        /\ Roomy => Traces(t, job'[w][t], Traced)
  BY Silent DEF UpdateToFailed
<1>2. Typed' /\ job' \in [Workers -> [Txs -> Jobs]]
  BY <1>0, <1>1 DEF Inv, Typed, Becomes
<1>3. Recorded'
  BY <1>0 DEF Inv, Typed, Recorded, ReportedAccepted, LastTaken
<1>4. JobInv'  BY <1>0, <1>1, JobKeeps
<1>5. LifeInv'  BY <1>0, <1>1, LifeKeeps
<1>6. ~Overlap => LockInv'  BY <1>0, <1>1, LockKeeps DEF Inv, Holding
<1>7. Traced' = Traced  BY <1>0 DEF Traced
<1>8. Roomy => Trail'  BY <1>0, <1>7, TrailKeeps
<1>9. Roomy => TraceInv'  BY <1>1, <1>7, TraceKeeps
<1>10. QED  BY <1>2, <1>3, <1>4, <1>5, <1>6, <1>8, <1>9 DEF Inv

\* The message goes to the dead-letter queue, or stays.
LEMMA SendToDLQKeeps ==
    ASSUME Inv, NEW w \in Workers, NEW t \in Txs, SendToDLQ(w, t) PROVE Inv'
<1>0. job[w][t].at = "dead" /\ UNCHANGED <<queue, redis, local, chain, life>>
  BY DEF SendToDLQ, At
<1>1. CASE Goto(w, t, "reportfail")  BY <1>0, <1>1, Silent, OnlyJob
<1>2. CASE job' = [job EXCEPT ![w][t] = Idle]  BY <1>0, <1>2, Silent, OnlyJob
<1>3. QED  BY <1>1, <1>2 DEF SendToDLQ

\* The failure is reported, which leaves a trace of the transaction.
LEMMA ReportFailureKeeps ==
    ASSUME Inv, NEW w \in Workers, NEW t \in Txs, ReportFailure(w, t) PROVE Inv'
<1>0. /\ job[w][t].at = "reportfail" /\ sent' = sent \cup {<<t, "failed">>}
      /\ UNCHANGED <<msg, retries, row, lock, marked, last, pool, memory, buffer, kept, node, mined, life>>
  BY DEF ReportFailure, At, redis, local, chain
<1>1. Becomes(w, t, "delete", job[w][t].exp, job[w][t].cur, job[w][t].rest, job[w][t].err)
  BY GotoFact DEF ReportFailure, Stages
<1>2. Typed' /\ job' \in [Workers -> [Txs -> Jobs]]
  BY <1>0, <1>1 DEF Inv, Typed, Becomes
<1>3. Recorded'
  <2>1. \A u : <<u, "broadcasted">> \in sent' => <<u, "broadcasted">> \in sent  BY <1>0
  <2>2. QED  BY <1>0, <2>1 DEF Inv, Recorded, ReportedAccepted, LastTaken
<1>4. JobInv'  BY <1>0, <1>1, JobKeeps DEF Becomes, Sound, Broadcasting
<1>5. LifeInv'  BY <1>0, <1>1, LifeKeeps
<1>6. ~Overlap => LockInv'  BY <1>0, <1>1, LockKeeps DEF Inv, Holding
<1>7. Traced \subseteq Traced' /\ t \in Traced'  BY <1>0 DEF Traced
<1>8. Roomy => Trail'  BY <1>0, <1>7, TrailKeeps
<1>9. Roomy => TraceInv'
  <2>1. Roomy => Traces(t, job'[w][t], Traced')
    BY <1>1, <1>7 DEF Becomes, Traces, Inv, TraceInv, Broadcasting, Cleared
  <2>2. QED  BY <1>1, <1>7, <2>1, TraceKeeps
<1>10. QED  BY <1>2, <1>3, <1>4, <1>5, <1>6, <1>8, <1>9 DEF Inv

----------------------------------------------------------------------------
(* Workers, messages and blocks *)

\* Nothing is recorded, taken, locked or sent, and some jobs may start or end.
LEMMA JobsReset ==
    ASSUME Inv, NEW w \in Workers, NEW J \in [Txs -> Jobs],
           job' = [job EXCEPT ![w] = J], UNCHANGED <<node, kept, sent, lock>>,
           \A t \in Txs : J[t].at \in {"idle", "pool"} /\ J[t].rest = {}
    PROVE  /\ job' \in [Workers -> [Txs -> Jobs]]
           /\ JobInv'
           /\ ~Overlap => LockInv'
           /\ Roomy => TraceInv'
<1>1. /\ job' \in [Workers -> [Txs -> Jobs]]
      /\ \A v \in Workers, t \in Txs :
            \/ v # w /\ job'[v][t] = job[v][t]
            \/ v = w /\ job'[v][t].at \in {"idle", "pool"} /\ job'[v][t].rest = {}
  BY DEF Inv
<1>2. JobInv'  BY <1>1 DEF Inv, JobInv, Sound, Broadcasting
<1>3. ~Overlap => LockInv'  BY <1>1 DEF Inv, LockInv, LockExclusive, Holding
<1>4. Traced' = Traced  BY DEF Traced
<1>5. Roomy => TraceInv'  BY <1>1, <1>4 DEF Inv, TraceInv, Traces, Broadcasting
<1>6. QED  BY <1>1, <1>2, <1>3, <1>5

\* A batch is received.
LEMMA ReceiveKeeps == ASSUME Inv, NEW w \in Workers, Receive(w) PROVE Inv'
<1>0. /\ life[w] = "up"
      /\ UNCHANGED <<retries, row, sent, lock, marked, last, pool, memory, buffer, kept, node, mined, life>>
  BY DEF Receive, redis, local, chain
<1>1. PICK M \in SUBSET {t \in Txs : msg[t] = "visible"} :
        /\ msg' = [t \in Txs |-> IF t \in M THEN "hidden" ELSE msg[t]]
        /\ job' = [job EXCEPT ![w] = [t \in Txs |-> IF t \in M THEN [Idle EXCEPT !.at = "pool"]
                                                    ELSE Idle]]
  BY DEF Receive
<1> DEFINE J == [t \in Txs |-> IF t \in M THEN [Idle EXCEPT !.at = "pool"] ELSE Idle]
<1>2. /\ Idle \in Jobs /\ Idle.at = "idle" /\ Idle.rest = {}
      /\ [Idle EXCEPT !.at = "pool"] \in Jobs /\ [Idle EXCEPT !.at = "pool"].at = "pool"
      /\ [Idle EXCEPT !.at = "pool"].rest = {}
  BY DEF Idle, Jobs, Stages, Counts, Known, Errors
<1>3. J \in [Txs -> Jobs] /\ \A t \in Txs : J[t].at \in {"idle", "pool"} /\ J[t].rest = {}
  BY <1>2
<1>4. job' = [job EXCEPT ![w] = J]  BY <1>1
<1> HIDE DEF J
<1>5. /\ job' \in [Workers -> [Txs -> Jobs]]
      /\ JobInv'
      /\ ~Overlap => LockInv'
      /\ Roomy => TraceInv'
  BY <1>0, <1>3, <1>4, JobsReset
<1>6. Typed'  BY <1>0, <1>1 DEF Inv, Typed
<1>7. Recorded'  BY <1>0, RecordedKeeps
<1>8. LifeInv'  BY <1>0, <1>4 DEF Inv, LifeInv
<1>9. Traced' = Traced  BY <1>0 DEF Traced
<1>10. Roomy => Trail'
  <2>1. \A u \in Txs : msg'[u] = "deleted" => msg[u] = "deleted"  BY <1>1
  <2>2. QED  BY <1>0, <1>9, <2>1 DEF Inv, Trail, Cleared
<1>11. QED  BY <1>5, <1>6, <1>7, <1>8, <1>10 DEF Inv

\* A worker stops: its jobs, its memory and its buffer are gone.
LEMMA CrashKeeps == ASSUME Inv, NEW w \in Workers, Crash(w) PROVE Inv'
<1> DEFINE J == [t \in Txs |-> Idle]
<1>0. /\ life' = [life EXCEPT ![w] = "down"]
      /\ job' = [job EXCEPT ![w] = J]
      /\ memory' = [memory EXCEPT ![w] = None] /\ buffer' = [buffer EXCEPT ![w] = {}]
      /\ UNCHANGED <<msg, retries, row, sent, lock, marked, last, pool, kept, node, mined>>
  BY DEF Crash, queue, redis, chain
<1>1. Idle \in Jobs /\ Idle.at = "idle" /\ Idle.rest = {}
  BY DEF Idle, Jobs, Stages, Counts, Known, Errors
<1>2. J \in [Txs -> Jobs] /\ \A t \in Txs : J[t].at = "idle" /\ J[t].rest = {}
  BY <1>1
<1> HIDE DEF J
<1>3. /\ job' \in [Workers -> [Txs -> Jobs]]
      /\ JobInv'
      /\ ~Overlap => LockInv'
      /\ Roomy => TraceInv'
  BY <1>0, <1>2, JobsReset
<1>4. Typed'  BY <1>0 DEF Inv, Typed, Known
<1>5. Recorded'  BY <1>0, RecordedKeeps
<1>6. LifeInv'  BY <1>0, <1>2 DEF Inv, Typed, LifeInv
<1>7. Traced' = Traced  BY <1>0 DEF Traced
<1>8. Roomy => Trail'
  <2>1. ASSUME Roomy, NEW v \in Workers
        PROVE  buffer'[v] \subseteq kept /\ (memory'[v] # None => Cleared(Traced, memory'[v] + 1))
    BY <1>0, <2>1 DEF Inv, Typed, Trail
  <2>2. QED  BY <1>0, <1>7, <2>1 DEF Inv, Trail, Cleared
<1>9. QED  BY <1>3, <1>4, <1>5, <1>6, <1>8 DEF Inv

\* A worker starts and deletes the locks, which nobody holds unless workers overlap.
LEMMA StartKeeps == ASSUME Inv, NEW w \in Workers, Start(w) PROVE Inv'
<1>0. /\ life[w] = "new" /\ life' = [life EXCEPT ![w] = "up"] /\ lock' = {}
      /\ UNCHANGED <<msg, retries, row, sent, marked, last, pool, memory, buffer, kept, node, mined, job>>
  BY DEF Start, queue, local, chain
<1>1. Typed' /\ job' \in [Workers -> [Txs -> Jobs]]  BY <1>0 DEF Inv, Typed
<1>2. Recorded'  BY <1>0, RecordedKeeps
<1>3. JobInv'  BY <1>0 DEF Inv, JobInv
<1>4. LifeInv'  BY <1>0 DEF Inv, Typed, LifeInv
<1>5. ~Overlap => LockInv'
  <2>1. ASSUME ~Overlap, NEW v \in Workers, NEW t \in Txs PROVE job'[v][t].at = "idle"
    BY <1>0, <2>1 DEF Start, Inv, LifeInv
  <2>2. QED  BY <2>1 DEF LockInv, LockExclusive, Holding
<1>6. Traced' = Traced  BY <1>0 DEF Traced
<1>7. Roomy => Trail'  BY <1>0, <1>6, TrailKeeps
<1>8. Roomy => TraceInv'  BY <1>0, <1>6 DEF Inv, TraceInv
<1>9. QED  BY <1>1, <1>2, <1>3, <1>4, <1>5, <1>7, <1>8 DEF Inv

\* A message becomes visible again.
LEMMA RedeliverKeeps == ASSUME Inv, NEW t \in Txs, Redeliver(t) PROVE Inv'
<1>0. /\ msg' = [msg EXCEPT ![t] = "visible"]
      /\ UNCHANGED <<retries, row, sent, lock, marked, last, pool, memory, buffer, kept, node,
                     mined, life, job>>
  BY DEF Redeliver, redis, local, chain
<1>1. Typed' /\ job' \in [Workers -> [Txs -> Jobs]]  BY <1>0 DEF Inv, Typed
<1>2. Recorded'  BY <1>0, RecordedKeeps
<1>3. JobInv' /\ LifeInv'  BY <1>0 DEF Inv, JobInv, LifeInv
<1>4. ~Overlap => LockInv'  BY <1>0 DEF Inv, LockInv, LockExclusive
<1>5. Traced' = Traced  BY <1>0 DEF Traced
<1>6. Roomy => Trail'
  <2>1. \A u \in Txs : msg'[u] = "deleted" => msg[u] = "deleted"  BY <1>0 DEF Inv, Typed
  <2>2. QED  BY <1>0, <1>5, <2>1 DEF Inv, Trail, Cleared
<1>7. Roomy => TraceInv'  BY <1>0, <1>5 DEF Inv, TraceInv
<1>8. QED  BY <1>1, <1>2, <1>3, <1>4, <1>6, <1>7 DEF Inv

\* The node's count passes a transaction it took.
LEMMA MineKeeps == ASSUME Inv, Mine PROVE Inv'
<1>0. /\ mined \in node /\ mined' = mined + 1
      /\ UNCHANGED <<msg, retries, row, sent, lock, marked, last, pool, memory, buffer, kept, node,
                     life, job>>
  BY DEF Mine, queue, redis, local
<1>1. mined \in Txs /\ mined \in Int /\ mined + 1 \in Counts /\ (mined + 1) - 1 = mined
  <2>1. mined \in Txs  BY <1>0 DEF Inv, Typed
  <2>2. QED  BY <2>1, CountsFacts, ConstantsAssumption
<1>2. Typed' /\ job' \in [Workers -> [Txs -> Jobs]]  BY <1>0, <1>1 DEF Inv, Typed
<1>3. Recorded'  BY <1>0, <1>1 DEF Inv, Recorded, ReportedAccepted, LastTaken
<1>4. JobInv' /\ LifeInv'  BY <1>0 DEF Inv, JobInv, LifeInv
<1>5. ~Overlap => LockInv'  BY <1>0 DEF Inv, LockInv, LockExclusive
<1>6. Traced' = Traced  BY <1>0 DEF Traced
<1>7. Roomy => Cleared(Traced, mined + 1)
  <2>1. ASSUME NEW u \in Txs, u < mined + 1 PROVE u = mined \/ u < mined
    <3>1. u \in Int  BY ConstantsAssumption
    <3>2. QED  BY <1>1, <2>1, <3>1
  <2>2. mined \in Traced  BY <1>0 DEF Traced
  <2>3. QED  BY <2>1, <2>2 DEF Inv, Trail, Cleared
<1>8. Roomy => Trail'  BY <1>0, <1>6, <1>7 DEF Inv, Trail, Cleared
<1>9. Roomy => TraceInv'  BY <1>0, <1>6 DEF Inv, TraceInv
<1>10. QED  BY <1>2, <1>3, <1>4, <1>5, <1>8, <1>9 DEF Inv

----------------------------------------------------------------------------
(* The theorems *)

\* A broadcaster that starts has recorded nothing and holds nothing.
LEMMA InitInv == Init => Inv
<1> SUFFICES ASSUME Init PROVE Inv
  OBVIOUS
<1>1. /\ Idle \in Jobs /\ Idle.at = "idle" /\ Idle.rest = {}
      /\ \A w \in Workers, t \in Txs : job[w][t] = Idle
  BY DEF Init, Idle, Jobs, Stages, Counts, Known, Errors
<1>2. Typed
  <2>1. 0 \in 0..MaxRetries /\ 0 \in Counts  BY ConstantsAssumption DEF Counts
  <2>2. QED  BY <2>1 DEF Init, Typed, Known
<1>3. job \in [Workers -> [Txs -> Jobs]]  BY <1>1 DEF Init
<1>4. Recorded  BY DEF Init, Recorded, ReportedAccepted, LastTaken
<1>5. JobInv  BY <1>1 DEF JobInv, Sound, Broadcasting
<1>6. LifeInv  BY <1>1 DEF LifeInv
<1>7. LockInv  BY <1>1 DEF LockInv, LockExclusive, Holding
<1>8. Trail
  <2>1. \A u \in Txs : ~ (u < 0)  BY ConstantsAssumption
  <2>2. QED  BY <2>1 DEF Init, Trail, Cleared
<1>9. TraceInv  BY <1>1 DEF TraceInv, Traces, Broadcasting
<1>10. QED  BY <1>2, <1>3, <1>4, <1>5, <1>6, <1>7, <1>8, <1>9 DEF Inv

\* Every step of a worker with a message keeps the invariant.
LEMMA StepKeeps == ASSUME Inv, NEW w \in Workers, NEW t \in Txs, Step(w, t) PROVE Inv'
BY AskPoolKeeps, AskRedisKeeps, CacheLastKeeps, AskChainKeeps, SaveChainKeeps, DecideKeeps,
   SearchKeeps, CheckBroadcastedKeeps, SetProcessingKeeps, SendKeeps, RefusedKeeps,
   MarkBroadcastedKeeps, UpdateToBroadcastedKeeps, SendBroadcastResultKeeps, RemoveProcessingKeeps,
   UpdateLastKeeps, NothingBufferedKeeps, TakeKeeps, DeleteMessageKeeps, HandleFailureKeeps,
   UpdateToFailedKeeps, SendToDLQKeeps, ReportFailureKeeps
   DEF Step

\* So does every other step.
LEMMA NextKeeps == Inv /\ [Next]_vars => Inv'
<1> SUFFICES ASSUME Inv, [Next]_vars PROVE Inv'
  OBVIOUS
<1>1. ASSUME NEW w \in Workers, Receive(w) \/ Crash(w) \/ Start(w) PROVE Inv'
  BY <1>1, ReceiveKeeps, CrashKeeps, StartKeeps
<1>2. ASSUME NEW w \in Workers, NEW t \in Txs, Step(w, t) PROVE Inv'
  BY <1>2, StepKeeps
<1>3. ASSUME NEW t \in Txs, Redeliver(t) PROVE Inv'
  BY <1>3, RedeliverKeeps
<1>4. CASE Mine  BY <1>4, MineKeeps
<1>5. CASE UNCHANGED vars
  <2> USE <1>5 DEF vars, queue, redis, local, chain
  <2>1. Typed' /\ job' \in [Workers -> [Txs -> Jobs]]  BY DEF Inv, Typed
  <2>2. Recorded'  BY RecordedKeeps
  <2>3. JobInv' /\ LifeInv'  BY DEF Inv, JobInv, LifeInv
  <2>4. ~Overlap => LockInv'  BY DEF Inv, LockInv, LockExclusive
  <2>5. Traced' = Traced  BY DEF Traced
  <2>6. Roomy => Trail'  BY <2>5, TrailKeeps
  <2>7. Roomy => TraceInv'  BY <2>5 DEF Inv, TraceInv
  <2>8. QED  BY <2>1, <2>2, <2>3, <2>4, <2>6, <2>7 DEF Inv
<1>6. QED  BY <1>1, <1>2, <1>3, <1>4, <1>5 DEF Next

\* The invariant holds in every reachable state, whatever the constants are.
THEOREM Invariance == Spec => []Inv
BY InitInv, NextKeeps, PTL DEF Spec

\* Every variable keeps its type: no nonce outside the queue or the pool is expected,
\* and no counter exceeds its limit.
THEOREM TypeCorrect == Spec => []TypeOK
<1>1. Inv => TypeOK  BY DEF Inv, Typed, TypeOK
<1>2. QED  BY <1>1, Invariance, PTL

\* What the rows, the results and the marks call broadcast was taken by the node,
\* for any number of workers, overlapping ones included.
THEOREM BroadcastsAreTrue == Spec => []ReportedAccepted
<1>1. Inv => ReportedAccepted  BY DEF Inv, Recorded
<1>2. QED  BY <1>1, Invariance, PTL

\* Nobody counts on from a nonce that was not broadcast: the last nonce in Redis is
\* one the node took.
THEOREM LastIsTaken == Spec => []LastTaken
<1>1. Inv => LastTaken  BY DEF Inv, Recorded
<1>2. QED  BY <1>1, Invariance, PTL

\* No record of a broadcast, in the database, in a queue or in Redis, is ahead of the node.
THEOREM RecordsAreTrue == Spec => []RecordsTrue
<1>1. Inv => RecordsTrue  BY DEF Inv, Recorded, RecordsTrue
<1>2. QED  BY <1>1, Invariance, PTL

\* A processing lock has one holder, as long as workers start one after another.
THEOREM LocksAreExclusive == ASSUME ~Overlap PROVE Spec => []LockExclusive
<1>1. Inv => LockExclusive  BY DEF Inv, LockInv
<1>2. QED  BY <1>1, Invariance, PTL

\* No message disappears without a trace, as long as nothing is in the pool and the
\* buffer has room for every transaction.
THEOREM DeletionsAreAccounted == ASSUME Roomy PROVE Spec => []DeletedAccounted
<1>1. Inv => DeletedAccounted  BY DEF Inv, Trail, Traced, DeletedAccounted
<1>2. QED  BY <1>1, Invariance, PTL

\* The node takes the transactions of the wallet in the order of their nonces, but for
\* those that were given up and those that wait in a buffer, whatever fails and wherever
\* a worker stops: the decision trusts a nonce only when those below it have a trace,
\* and no await between the decision and the broadcast loses one.
THEOREM OrderIsKept == ASSUME Roomy PROVE Spec => OrderKept
<1>1. ASSUME Inv, [Next]_vars, NEW t \in node' \ node, NEW u \in Txs, u < t
      PROVE  u \in node \cup kept \/ <<u, "failed">> \in sent
  <2>1. ASSUME NEW w \in Workers, NEW m \in Txs, Step(w, m), ~Send(w, m)
        PROVE  node' = node
    <3>1. CASE AskPool(w, m) \/ AskRedis(w, m) \/ CacheLast(w, m) \/ AskChain(w, m) \/ SaveChain(w, m)
               \/ Decide(w, m) \/ Search(w, m)
      BY <3>1 DEF AskPool, AskRedis, CacheLast, AskChain, SaveChain, Decide, Search, chain
    <3>2. CASE CheckBroadcasted(w, m) \/ SetProcessing(w, m) \/ Refused(w, m)
               \/ MarkBroadcasted(w, m) \/ UpdateToBroadcasted(w, m) \/ SendBroadcastResult(w, m)
      BY <3>2 DEF CheckBroadcasted, SetProcessing, Refused, MarkBroadcasted, UpdateToBroadcasted,
                  SendBroadcastResult, chain
    <3>3. CASE RemoveProcessing(w, m) \/ UpdateLast(w, m) \/ NothingBuffered(w, m) \/ Take(w, m)
               \/ DeleteMessage(w, m) \/ HandleFailure(w, m) \/ UpdateToFailed(w, m)
               \/ SendToDLQ(w, m) \/ ReportFailure(w, m)
      BY <3>3 DEF RemoveProcessing, UpdateLast, NothingBuffered, Take, DeleteMessage, HandleFailure,
                  UpdateToFailed, SendToDLQ, ReportFailure, chain
    <3> QED
      BY <2>1, <3>1, <3>2, <3>3 DEF Step
  <2>2. ASSUME \A w \in Workers, m \in Txs : ~Step(w, m)
        PROVE  node' = node
    BY <1>1, <2>2 DEF Next, Receive, Crash, Start, Redeliver, Mine, vars, chain
  <2>3. PICK w \in Workers, m \in Txs : Send(w, m)
    BY <1>1, <2>1, <2>2
  <2>4. t = job[w][m].cur /\ job[w][m].at = "send"
    BY <1>1, <2>3 DEF Send, At
  <2>5. Cleared(Traced, t)
    BY <1>1, <2>4 DEF Inv, TraceInv, Traces, Broadcasting
  <2> QED
    BY <1>1, <2>5 DEF Cleared, Traced
<1>2. Inv /\ [Next]_vars =>
        [\A t \in node' \ node, u \in Txs :
           u < t => u \in node \cup kept \/ <<u, "failed">> \in sent]_vars
  BY <1>1
<1> QED
  BY <1>2, Invariance, PTL DEF Spec, OrderKept
=============================================================================
