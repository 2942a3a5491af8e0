---------------------------- MODULE PartsProofs ----------------------------
(***************************************************************************)
(* Proofs about three parts that share no state with any other.            *)
(* BatchSigning, for any configuration of the chain, any number of calls   *)
(* of the signer at once and any answers of the node: the types; a nonce a *)
(* call took from the counter is always in exactly one place; the groups   *)
(* of a split batch are the batch cut in order within the limits; and what *)
(* a call returns pays every transfer of its batch once.  PendingList, for *)
(* any set of transactions and any number of overlapping rounds and        *)
(* additions: an address has one processor at a time as long as no lock    *)
(* expires under its holder, and no nonce drops out of the list as long as *)
(* its updates do not overlap.  BroadcastRetry, for any number of retries  *)
(* and any set of errors of the node and of the database: the types, and   *)
(* that the outcome of the call agrees with the rows and the chain.  At    *)
(* the end, all of it and what RecoveryServiceProofs proves, for the parts *)
(* together.                                                               *)
(***************************************************************************)
EXTENDS Parts, RecoveryServiceProofs, SequenceFacts, FiniteSetTheorems, TLAPS

----------------------------------------------------------------------------
(* Signing: where a nonce is *)

\* The nonces a call holds or has put into a transaction
AllOf(c) == NonceInHand(c) \cup NoncesOf(c)

\* The form of a call
UseForm(c) ==
    /\ use[c] = [at |-> use[c].at, kind |-> use[c].kind, batch |-> use[c].batch,
                 per |-> use[c].per, gas |-> use[c].gas, groups |-> use[c].groups,
                 fee |-> use[c].fee, nonce |-> use[c].nonce, txs |-> use[c].txs]
    /\ use[c].nonce \in [held : BOOLEAN, n : Nat]
    /\ \E S : use[c].txs \in Seq(S)

\* A nonce is in hand from TakeNonce to the signature: a batch takes it before it
\* asks for the price, a single after.  Only a split call has signed something
\* before it is done.
UseOK(c) ==
    /\ use[c].at \in {"new", "estimating", "waiting"} => ~use[c].nonce.held
    /\ use[c].at \in {"pricing", "fetching"} =>
         (use[c].nonce.held <=> use[c].kind # "single")
    /\ use[c].at = "signing" => use[c].nonce.held
    /\ use[c].at \in {"new", "estimating"} => use[c].txs = <<>>
    /\ use[c].kind # "split" /\ use[c].at # "done" => use[c].txs = <<>>

FormOK ==
    /\ use = [c \in Calls |-> use[c]]
    /\ nextNonce \in Nat
    /\ \A c \in Calls : UseForm(c) /\ UseOK(c)

\* The places of the nonces below the counter overlap nowhere and leave none out
PlacesOK ==
    /\ \A c \in Calls : AllOf(c) \subseteq 0..(nextNonce - 1)
    /\ \A c, d \in Calls : c # d => AllOf(c) \cap AllOf(d) = {}
    /\ \A c \in Calls : AllOf(c) \cap (spare \cup lost) = {}
    /\ spare \cup lost \subseteq 0..(nextNonce - 1)
    /\ spare \cap lost = {}
    /\ \A n \in 0..(nextNonce - 1) : n \in spare \cup lost \/ \E c \in Calls : n \in AllOf(c)

Inv == FormOK /\ PlacesOK

----------------------------------------------------------------------------
(* What a step does to the places of the nonces *)

\* Only call c changes
Moved(c) ==
    /\ use' = [d \in Calls |-> use'[d]]
    /\ \A d \in Calls \ {c} : use'[d] = use[d]

\* The other calls keep their form and their nonces.
LEMMA OthersStay ==
    ASSUME FormOK, NEW c \in Calls, Moved(c), nextNonce' \in Nat, UseForm(c)', UseOK(c)'
    PROVE  FormOK' /\ \A d \in Calls \ {c} : AllOf(d)' = AllOf(d)
<1>1. ASSUME NEW d \in Calls, d # c
      PROVE  UseForm(d)' /\ UseOK(d)' /\ AllOf(d)' = AllOf(d)
  <2>1. use'[d] = use[d]  BY <1>1 DEF Moved
  <2>2. UseForm(d) /\ UseOK(d)  BY DEF FormOK
  <2>3. UseForm(d)'  BY <2>1, <2>2 DEF UseForm
  <2>4. UseOK(d)'  BY <2>1, <2>2 DEF UseOK
  <2>5. AllOf(d)' = AllOf(d)  BY <2>1 DEF AllOf, NonceInHand, NoncesOf
  <2> QED  BY <2>3, <2>4, <2>5
<1>2. \A d \in Calls : UseForm(d)' /\ UseOK(d)'  BY <1>1
<1>3. FormOK'  BY <1>2 DEF FormOK, Moved
<1> QED  BY <1>1, <1>3

\* No nonce changes its place.
LEMMA Same ==
    ASSUME PlacesOK, nextNonce' = nextNonce, spare' = spare, lost' = lost,
           \A d \in Calls : AllOf(d)' = AllOf(d)
    PROVE  PlacesOK'
BY DEF PlacesOK

\* A call takes the next nonce of the counter.
LEMMA Take ==
    ASSUME PlacesOK, nextNonce \in Nat, NEW c \in Calls,
           nextNonce' = nextNonce + 1, spare' = spare, lost' = lost,
           AllOf(c)' = AllOf(c) \cup {nextNonce},
           \A d \in Calls \ {c} : AllOf(d)' = AllOf(d)
    PROVE  PlacesOK'
<1>1. nextNonce \notin 0..(nextNonce - 1)  OBVIOUS
<1>2. 0..(nextNonce' - 1) = (0..(nextNonce - 1)) \cup {nextNonce}  OBVIOUS
<1>3. \A d \in Calls : AllOf(d) \subseteq 0..(nextNonce - 1)  BY DEF PlacesOK
<1>4. \A d \in Calls : AllOf(d) \subseteq AllOf(d)'
  OBVIOUS
<1>5. \A d \in Calls : AllOf(d)' \subseteq 0..(nextNonce' - 1)
  BY <1>2, <1>3
<1>6. \A d, e \in Calls : d # e => AllOf(d)' \cap AllOf(e)' = {}
  <2> SUFFICES ASSUME NEW d \in Calls, NEW e \in Calls, d # e
              PROVE  AllOf(d)' \cap AllOf(e)' = {}
    OBVIOUS
  <2>1. AllOf(d) \cap AllOf(e) = {}  BY DEF PlacesOK
  <2>2. nextNonce \notin AllOf(d) /\ nextNonce \notin AllOf(e)  BY <1>1, <1>3
  <2> QED  BY <2>1, <2>2
<1>7. \A d \in Calls : AllOf(d)' \cap (spare' \cup lost') = {}
  <2>1. spare \cup lost \subseteq 0..(nextNonce - 1)  BY DEF PlacesOK
  <2>2. \A d \in Calls : AllOf(d) \cap (spare \cup lost) = {}  BY DEF PlacesOK
  <2> QED  BY <2>1, <2>2, <1>1
<1>8. spare' \cup lost' \subseteq 0..(nextNonce' - 1) /\ spare' \cap lost' = {}
  BY <1>2 DEF PlacesOK
<1>9. \A n \in 0..(nextNonce' - 1) :
         n \in spare' \cup lost' \/ \E d \in Calls : n \in AllOf(d)'
  <2> SUFFICES ASSUME NEW n \in 0..(nextNonce' - 1)
              PROVE  n \in spare \cup lost \/ \E d \in Calls : n \in AllOf(d)'
    OBVIOUS
  <2>1. CASE n = nextNonce  BY <2>1
  <2>2. CASE n \in 0..(nextNonce - 1)  BY <2>2, <1>4 DEF PlacesOK
  <2> QED  BY <2>1, <2>2, <1>2
<1> QED  BY <1>5, <1>6, <1>7, <1>8, <1>9 DEF PlacesOK

\* A call lets go of all its nonces, to the pool or to nobody.
LEMMA Drop ==
    ASSUME PlacesOK, NEW c \in Calls, nextNonce' = nextNonce,
           \/ spare' = spare \cup AllOf(c) /\ lost' = lost
           \/ spare' = spare /\ lost' = lost \cup AllOf(c),
           AllOf(c)' = {},
           \A d \in Calls \ {c} : AllOf(d)' = AllOf(d)
    PROVE  PlacesOK'
<1>1. spare' \cup lost' = (spare \cup lost) \cup AllOf(c)  OBVIOUS
<1>2. \A d \in Calls : AllOf(d)' \subseteq AllOf(d)  OBVIOUS
<1>3. \A d \in Calls : AllOf(d)' \subseteq 0..(nextNonce' - 1)  BY <1>2 DEF PlacesOK
<1>4. \A d, e \in Calls : d # e => AllOf(d)' \cap AllOf(e)' = {}
  <2> SUFFICES ASSUME NEW d \in Calls, NEW e \in Calls, d # e
              PROVE  AllOf(d)' \cap AllOf(e)' = {}
    OBVIOUS
  <2>1. AllOf(d) \cap AllOf(e) = {}  BY DEF PlacesOK
  <2> QED  BY <2>1, <1>2
<1>5. \A d \in Calls : AllOf(d)' \cap (spare' \cup lost') = {}
  <2> SUFFICES ASSUME NEW d \in Calls, d # c
              PROVE  AllOf(d) \cap (spare' \cup lost') = {}
    OBVIOUS
  <2>1. AllOf(d) \cap (spare \cup lost) = {} /\ AllOf(d) \cap AllOf(c) = {}
    BY DEF PlacesOK
  <2> QED  BY <2>1, <1>1
<1>6. spare' \cup lost' \subseteq 0..(nextNonce' - 1)
  <2>1. AllOf(c) \subseteq 0..(nextNonce - 1) /\ spare \cup lost \subseteq 0..(nextNonce - 1)
    BY DEF PlacesOK
  <2> QED  BY <2>1, <1>1
<1>7. spare' \cap lost' = {}
  <2>1. spare \cap lost = {} /\ AllOf(c) \cap (spare \cup lost) = {}  BY DEF PlacesOK
  <2> QED  BY <2>1
<1>8. \A n \in 0..(nextNonce' - 1) :
         n \in spare' \cup lost' \/ \E d \in Calls : n \in AllOf(d)'
  <2> SUFFICES ASSUME NEW n \in 0..(nextNonce - 1), n \notin spare' \cup lost'
              PROVE  \E d \in Calls : n \in AllOf(d)'
    OBVIOUS
  <2>1. PICK d \in Calls : n \in AllOf(d)  BY <1>1 DEF PlacesOK
  <2>2. d # c  BY <2>1, <1>1
  <2> QED  BY <2>1, <2>2
<1> QED  BY <1>3, <1>4, <1>5, <1>6, <1>7, <1>8 DEF PlacesOK

----------------------------------------------------------------------------
(* The steps *)

\* A step that writes a whole call, and what is kept when the fields of
\* the nonces are.
LEMMA Rewritten ==
    ASSUME FormOK, NEW c \in Calls, NEW v, use' = [use EXCEPT ![c] = v]
    PROVE  Moved(c) /\ use'[c] = v
<1>1. use = [d \in Calls |-> use[d]]  BY DEF FormOK
<1> QED  BY <1>1 DEF Moved

LEMMA Written ==
    ASSUME NEW c, NEW a, NEW k, NEW b, NEW p, NEW g, NEW gs, NEW f,
           NEW n, n \in [held : BOOLEAN, n : Nat], NEW t, \E S : t \in Seq(S),
           use'[c] = [at |-> a, kind |-> k, batch |-> b, per |-> p, gas |-> g, groups |-> gs,
                      fee |-> f, nonce |-> n, txs |-> t]
    PROVE  /\ UseForm(c)'
           /\ use'[c].at = a /\ use'[c].kind = k /\ use'[c].nonce = n /\ use'[c].txs = t
<1>1. /\ use'[c].at = a /\ use'[c].kind = k /\ use'[c].batch = b /\ use'[c].per = p
      /\ use'[c].gas = g /\ use'[c].groups = gs /\ use'[c].fee = f
      /\ use'[c].nonce = n /\ use'[c].txs = t
  OBVIOUS
<1> QED  BY <1>1 DEF UseForm

LEMMA KeepsNonces ==
    ASSUME FormOK, PlacesOK, NEW c \in Calls, Moved(c), UseForm(c)', UseOK(c)',
           use'[c].nonce = use[c].nonce, use'[c].txs = use[c].txs,
           nextNonce' = nextNonce, spare' = spare, lost' = lost
    PROVE  Inv'
<1>1. nextNonce' \in Nat  BY DEF FormOK
<1>2. FormOK' /\ \A d \in Calls \ {c} : AllOf(d)' = AllOf(d)  BY <1>1, OthersStay
<1>3. AllOf(c)' = AllOf(c)  BY DEF AllOf, NonceInHand, NoncesOf
<1>4. PlacesOK'  BY <1>2, <1>3, Same
<1> QED  BY <1>2, <1>4 DEF Inv

LEMMA BeginStep ==
    ASSUME Inv, NEW c \in Calls, NEW w \in Works, Begin(c, w)
    PROVE  Inv'
<1> DEFINE v == [NewCall EXCEPT !.kind = w.kind, !.batch = w.batch,
                                !.at = IF Accepted(w) THEN "estimating" ELSE "failed"]
<1>1. FormOK /\ PlacesOK  BY DEF Inv
<1>2. use' = [use EXCEPT ![c] = v]  BY DEF Begin
<1>3. Moved(c) /\ use'[c] = v  BY <1>1, <1>2, Rewritten
<1>4. /\ use'[c] = [at |-> IF Accepted(w) THEN "estimating" ELSE "failed",
                    kind |-> w.kind, batch |-> w.batch, per |-> 0, gas |-> 0,
                    groups |-> <<>>, fee |-> 0, nonce |-> NoNonce, txs |-> <<>>]
  BY <1>3 DEF NewCall
<1>5. UseForm(c)'
  <2>1. use'[c].txs \in Seq({})  BY <1>4
  <2> QED  BY <1>4, <2>1 DEF UseForm, NoNonce
<1>6. UseOK(c)'  BY <1>4 DEF UseOK, NoNonce
<1>7. nextNonce' \in Nat  BY <1>1 DEF FormOK, Begin
<1>8. FormOK' /\ \A d \in Calls \ {c} : AllOf(d)' = AllOf(d)
  BY <1>1, <1>3, <1>5, <1>6, <1>7, OthersStay
<1>9. AllOf(c) = {} /\ AllOf(c)' = {}
  <2>1. ~use[c].nonce.held /\ use[c].txs = <<>>
    BY <1>1 DEF FormOK, UseOK, Begin
  <2> QED  BY <2>1, <1>4 DEF AllOf, NonceInHand, NoncesOf, NoNonce
<1>10. PlacesOK'  BY <1>1, <1>8, <1>9, Same DEF Begin
<1> QED  BY <1>8, <1>10 DEF Inv

LEMMA EstimateSingleStep ==
    ASSUME Inv, NEW c \in Calls, NEW g \in Estimates, EstimateSingle(c, g)
    PROVE  Inv'
<1>1. FormOK /\ PlacesOK /\ UseForm(c) /\ UseOK(c)  BY DEF Inv, FormOK
<1>2. PICK G : use' = [use EXCEPT ![c] = [use[c] EXCEPT !.gas = G, !.at = "pricing"]]
  BY <1>1 DEF EstimateSingle, UseForm
<1>3. /\ Moved(c)
      /\ use'[c] = [use[c] EXCEPT !.gas = G, !.at = "pricing"]
  BY <1>1, <1>2, Rewritten
<1>4. use'[c] = [at |-> "pricing", kind |-> use[c].kind, batch |-> use[c].batch,
                 per |-> use[c].per, gas |-> G, groups |-> use[c].groups,
                 fee |-> use[c].fee, nonce |-> use[c].nonce, txs |-> use[c].txs]
  BY <1>1, <1>3 DEF UseForm
<1>5. /\ UseForm(c)'
      /\ use'[c].at = "pricing" /\ use'[c].kind = use[c].kind
      /\ use'[c].nonce = use[c].nonce /\ use'[c].txs = use[c].txs
  BY <1>1, <1>4, Written DEF UseForm
<1>6. UseOK(c)'  BY <1>1, <1>5 DEF UseOK, EstimateSingle
<1> QED  BY <1>1, <1>3, <1>5, <1>6, KeepsNonces DEF EstimateSingle

LEMMA FourWritten ==
    ASSUME NEW u, NEW v, NEW a, NEW p, NEW g, NEW gs,
           u = [at |-> u.at, kind |-> u.kind, batch |-> u.batch, per |-> u.per, gas |-> u.gas,
                groups |-> u.groups, fee |-> u.fee, nonce |-> u.nonce, txs |-> u.txs],
           v = [u EXCEPT !.per = p, !.gas = g, !.groups = gs, !.at = a]
    PROVE  v = [at |-> a, kind |-> u.kind, batch |-> u.batch, per |-> p, gas |-> g,
                groups |-> gs, fee |-> u.fee, nonce |-> u.nonce, txs |-> u.txs]
OBVIOUS

\* What Planned makes of a call that is estimating.
LEMMA PlannedStep ==
    ASSUME Inv, NEW c \in Calls, NEW per, NEW total,
           use[c].at = "estimating", use[c].kind # "single",
           use' = [use EXCEPT ![c] = Planned(c, per, total)],
           nextNonce' = nextNonce, spare' = spare, lost' = lost
    PROVE  Inv'
<1>1. FormOK /\ PlacesOK /\ UseForm(c) /\ UseOK(c)  BY DEF Inv, FormOK
<1>2. Moved(c) /\ use'[c] = Planned(c, per, total)  BY <1>1, Rewritten
<1>3. PICK G : \/ use'[c] = [use[c] EXCEPT !.kind = "batch"]
               \/ use'[c] = [use[c] EXCEPT !.per = per, !.gas = total, !.groups = G,
                                           !.at = "waiting"]
  BY <1>2 DEF Planned
<1>4. PICK a, k, p, g, gs :
         /\ a \in {"estimating", "waiting"} /\ k # "single"
         /\ use'[c] = [at |-> a, kind |-> k, batch |-> use[c].batch, per |-> p, gas |-> g,
                       groups |-> gs, fee |-> use[c].fee, nonce |-> use[c].nonce,
                       txs |-> use[c].txs]
  <2>1. CASE use'[c] = [use[c] EXCEPT !.kind = "batch"]
    <3>1. use'[c] = [at |-> use[c].at, kind |-> "batch", batch |-> use[c].batch,
                     per |-> use[c].per, gas |-> use[c].gas, groups |-> use[c].groups,
                     fee |-> use[c].fee, nonce |-> use[c].nonce, txs |-> use[c].txs]
      BY <1>1, <2>1 DEF UseForm
    <3> QED  BY <3>1
  <2>2. CASE use'[c] = [use[c] EXCEPT !.per = per, !.gas = total, !.groups = G,
                                      !.at = "waiting"]
    <3>1. use'[c] = [at |-> "waiting", kind |-> use[c].kind, batch |-> use[c].batch,
                     per |-> per, gas |-> total, groups |-> G,
                     fee |-> use[c].fee, nonce |-> use[c].nonce, txs |-> use[c].txs]
      <4>1. PICK u, v : u = use[c] /\ v = use'[c]  OBVIOUS
      <4>2. u = [at |-> u.at, kind |-> u.kind, batch |-> u.batch, per |-> u.per, gas |-> u.gas,
                 groups |-> u.groups, fee |-> u.fee, nonce |-> u.nonce, txs |-> u.txs]
        BY <1>1, <4>1 DEF UseForm
      <4>3. v = [u EXCEPT !.per = per, !.gas = total, !.groups = G, !.at = "waiting"]
        BY <2>2, <4>1
      <4>4. v = [at |-> "waiting", kind |-> u.kind, batch |-> u.batch, per |-> per,
                 gas |-> total, groups |-> G, fee |-> u.fee, nonce |-> u.nonce, txs |-> u.txs]
        BY <4>2, <4>3, FourWritten
      <4> QED  BY <4>1, <4>4
    <3> QED  BY <3>1
  <2> QED  BY <1>3, <2>1, <2>2
<1>5. /\ UseForm(c)'
      /\ use'[c].at = a /\ use'[c].kind = k
      /\ use'[c].nonce = use[c].nonce /\ use'[c].txs = use[c].txs
  BY <1>1, <1>4, Written DEF UseForm
<1>6. UseOK(c)'  BY <1>1, <1>4, <1>5 DEF UseOK
<1> QED  BY <1>1, <1>2, <1>5, <1>6, KeepsNonces

LEMMA EstimateBatchStep ==
    ASSUME Inv, NEW c \in Calls, NEW g \in Estimates, EstimateBatch(c, g)
    PROVE  Inv'
<1>1. PICK per, total : use' = [use EXCEPT ![c] = Planned(c, per, total)]
  BY DEF EstimateBatch
<1> QED  BY <1>1, PlannedStep DEF EstimateBatch

LEMMA EstimateFailsStep ==
    ASSUME Inv, NEW c \in Calls, EstimateFails(c)
    PROVE  Inv'
<1>1. FormOK /\ PlacesOK /\ UseForm(c) /\ UseOK(c)  BY DEF Inv, FormOK
<1>2. CASE use[c].kind = "single"
  <2>1. use' = [use EXCEPT ![c] = [use[c] EXCEPT !.at = "failed"]]
    BY <1>2 DEF EstimateFails
  <2>2. Moved(c) /\ use'[c] = [use[c] EXCEPT !.at = "failed"]  BY <1>1, <2>1, Rewritten
  <2>3. UseForm(c)'  BY <1>1, <2>2 DEF UseForm
  <2>4. UseOK(c)'  BY <1>1, <1>2, <2>2 DEF UseForm, UseOK, EstimateFails
  <2>5. use'[c].nonce = use[c].nonce /\ use'[c].txs = use[c].txs  BY <1>1, <2>2 DEF UseForm
  <2> QED  BY <1>1, <2>2, <2>3, <2>4, <2>5, KeepsNonces DEF EstimateFails
<1>3. CASE use[c].kind # "single"
  <2>1. use' = [use EXCEPT ![c] = Planned(c, FallbackPerCall(use[c].batch),
                                             FallbackGas(use[c].batch))]
    BY <1>3 DEF EstimateFails
  <2>2. PICK per, total : use' = [use EXCEPT ![c] = Planned(c, per, total)]
    BY <2>1
  <2> QED  BY <1>3, <2>2, PlannedStep DEF EstimateFails
<1> QED  BY <1>2, <1>3

LEMMA TakeNonceStep ==
    ASSUME Inv, NEW c \in Calls, TakeNonce(c)
    PROVE  Inv'
<1>1. FormOK /\ PlacesOK /\ UseForm(c) /\ UseOK(c)  BY DEF Inv, FormOK
<1>2. nextNonce \in Nat /\ nextNonce' = nextNonce + 1  BY <1>1 DEF FormOK, TakeNonce
<1>3. PICK A : /\ A = IF use[c].kind = "single" THEN "signing" ELSE "pricing"
               /\ use' = [use EXCEPT ![c] = [use[c] EXCEPT !.nonce = Held(nextNonce), !.at = A]]
  BY <1>1 DEF TakeNonce, UseForm
<1>4. /\ Moved(c)
      /\ use'[c] = [use[c] EXCEPT !.nonce = Held(nextNonce), !.at = A]
  BY <1>1, <1>3, Rewritten
<1>5. use'[c] = [at |-> A, kind |-> use[c].kind, batch |-> use[c].batch,
                 per |-> use[c].per, gas |-> use[c].gas, groups |-> use[c].groups,
                 fee |-> use[c].fee, nonce |-> Held(nextNonce), txs |-> use[c].txs]
  BY <1>1, <1>4 DEF UseForm
<1>6. /\ UseForm(c)'
      /\ use'[c].at = A /\ use'[c].kind = use[c].kind
      /\ use'[c].nonce = Held(nextNonce) /\ use'[c].txs = use[c].txs
  <2>1. Held(nextNonce) \in [held : BOOLEAN, n : Nat]  BY <1>2 DEF Held
  <2>2. PICK S : use[c].txs \in Seq(S)  BY <1>1 DEF UseForm
  <2> QED  BY <1>5, <2>1, <2>2, Written
<1>7. use[c].at = "waiting" /\ ~use[c].nonce.held  BY <1>1 DEF UseOK, TakeNonce, MayTakeNonce
<1>8. UseOK(c)'  BY <1>1, <1>3, <1>6, <1>7 DEF UseOK, Held
<1>9. FormOK' /\ \A d \in Calls \ {c} : AllOf(d)' = AllOf(d)
  BY <1>1, <1>2, <1>4, <1>6, <1>8, OthersStay
<1>10. AllOf(c)' = AllOf(c) \cup {nextNonce}
  BY <1>6, <1>7 DEF AllOf, NonceInHand, NoncesOf, Held
<1>11. PlacesOK'  BY <1>1, <1>2, <1>9, <1>10, Take DEF TakeNonce
<1> QED  BY <1>9, <1>11 DEF Inv

LEMMA PricedStep ==
    ASSUME Inv, NEW c \in Calls, NEW fee, use[c].at \in {"pricing", "fetching"}, Priced(c, fee),
           nextNonce' = nextNonce, spare' = spare, lost' = lost
    PROVE  Inv'
<1>1. FormOK /\ PlacesOK /\ UseForm(c) /\ UseOK(c)  BY DEF Inv, FormOK
<1>2. PICK A, F : /\ A = IF use[c].kind = "single" THEN "waiting" ELSE "signing"
                  /\ use' = [use EXCEPT ![c] = [use[c] EXCEPT !.fee = F, !.at = A]]
  <2>1. PICK A : A = IF use[c].kind = "single" THEN "waiting" ELSE "signing"  OBVIOUS
  <2>2. PICK F : F = (fee * 110) \div 100  OBVIOUS
  <2>3. use' = [use EXCEPT ![c].fee = F, ![c].at = A]  BY <2>1, <2>2 DEF Priced
  <2>4. use' = [use EXCEPT ![c] = [use[c] EXCEPT !.fee = F, !.at = A]]
    BY <1>1, <2>3 DEF UseForm
  <2> QED  BY <2>1, <2>4
<1>3. /\ Moved(c)
      /\ use'[c] = [use[c] EXCEPT !.fee = F, !.at = A]
  BY <1>1, <1>2, Rewritten
<1>4. use'[c] = [at |-> A, kind |-> use[c].kind, batch |-> use[c].batch,
                 per |-> use[c].per, gas |-> use[c].gas, groups |-> use[c].groups,
                 fee |-> F, nonce |-> use[c].nonce, txs |-> use[c].txs]
  BY <1>1, <1>3 DEF UseForm
<1>5. /\ UseForm(c)'
      /\ use'[c].at = A /\ use'[c].kind = use[c].kind
      /\ use'[c].nonce = use[c].nonce /\ use'[c].txs = use[c].txs
  BY <1>1, <1>4, Written DEF UseForm
<1>6. UseOK(c)'  BY <1>1, <1>2, <1>5 DEF UseOK
<1> QED  BY <1>1, <1>3, <1>5, <1>6, KeepsNonces

LEMMA AskPriceStep ==
    ASSUME Inv, NEW c \in Calls, AskPrice(c)
    PROVE  Inv'
<1>1. FormOK /\ PlacesOK /\ UseForm(c) /\ UseOK(c)  BY DEF Inv, FormOK
<1>2. use' = [use EXCEPT ![c] = [use[c] EXCEPT !.at = "fetching"]]
  BY <1>1 DEF AskPrice, UseForm
<1>3. Moved(c) /\ use'[c] = [use[c] EXCEPT !.at = "fetching"]  BY <1>1, <1>2, Rewritten
<1>4. use'[c] = [at |-> "fetching", kind |-> use[c].kind, batch |-> use[c].batch,
                 per |-> use[c].per, gas |-> use[c].gas, groups |-> use[c].groups,
                 fee |-> use[c].fee, nonce |-> use[c].nonce, txs |-> use[c].txs]
  BY <1>1, <1>3 DEF UseForm
<1>5. /\ UseForm(c)'
      /\ use'[c].at = "fetching" /\ use'[c].kind = use[c].kind
      /\ use'[c].nonce = use[c].nonce /\ use'[c].txs = use[c].txs
  BY <1>1, <1>4, Written DEF UseForm
<1>6. UseOK(c)'  BY <1>1, <1>5 DEF UseOK, AskPrice
<1> QED  BY <1>1, <1>3, <1>5, <1>6, KeepsNonces DEF AskPrice

\* The signature puts the nonce in hand into a transaction.
LEMMA SignNextStep ==
    ASSUME Inv, NEW c \in Calls, SignNext(c)
    PROVE  Inv'
<1>1. FormOK /\ PlacesOK /\ UseForm(c) /\ UseOK(c)  BY DEF Inv, FormOK
<1>2. PICK A, T :
         /\ use[c].kind # "split" => A = "done"
         /\ A \in {"waiting", "done"}
         /\ T = Append(use[c].txs, Content(c))
         /\ use' = [use EXCEPT ![c] = [use[c] EXCEPT !.txs = T, !.nonce = NoNonce, !.at = A]]
  <2>1. PICK A : A = IF use[c].kind = "split" /\ Len(use[c].txs) + 1 < Len(use[c].groups)
                     THEN "waiting" ELSE "done"
    OBVIOUS
  <2>2. PICK T : T = Append(use[c].txs, Content(c))  OBVIOUS
  <2>3. use' = [use EXCEPT ![c].txs = T, ![c].nonce = NoNonce, ![c].at = A]
    BY <2>1, <2>2 DEF SignNext
  <2>4. use' = [use EXCEPT ![c] = [use[c] EXCEPT !.txs = T, !.nonce = NoNonce, !.at = A]]
    BY <1>1, <2>3 DEF UseForm
  <2> QED  BY <2>1, <2>2, <2>4
<1>3. /\ Moved(c)
      /\ use'[c] = [use[c] EXCEPT !.txs = T, !.nonce = NoNonce, !.at = A]
  BY <1>1, <1>2, Rewritten
<1>4. PICK S : use[c].txs \in Seq(S)  BY <1>1 DEF UseForm
<1>5. PICK x : x = Content(c)  OBVIOUS
<1>6. x.nonce = use[c].nonce.n  BY <1>5 DEF Content
<1>7. /\ T \in Seq(S \cup {x})
      /\ {T[k].nonce : k \in DOMAIN T} =
           {use[c].txs[k].nonce : k \in DOMAIN use[c].txs} \cup {x.nonce}
  <2>1. PICK s \in Seq(S) : s = use[c].txs  BY <1>4
  <2>2. T = Append(s, x)  BY <1>2, <1>5, <2>1
  <2>3. /\ DOMAIN s = 1..Len(s) /\ Len(s) \in Nat
        /\ T \in Seq(S \cup {x})
        /\ DOMAIN T = 1..(Len(s) + 1)
        /\ \A k \in 1..Len(s) : T[k] = s[k]
        /\ T[Len(s) + 1] = x
    BY <2>2
  <2>4. {T[k].nonce : k \in DOMAIN T} = {s[k].nonce : k \in DOMAIN s} \cup {x.nonce}
    BY <2>3
  <2> QED  BY <2>1, <2>3, <2>4
<1>8. /\ UseForm(c)'
      /\ use'[c].at = A /\ use'[c].kind = use[c].kind
      /\ use'[c].nonce = NoNonce /\ use'[c].txs = T
  <2>1. use'[c] = [at |-> A, kind |-> use[c].kind, batch |-> use[c].batch,
                   per |-> use[c].per, gas |-> use[c].gas, groups |-> use[c].groups,
                   fee |-> use[c].fee, nonce |-> NoNonce, txs |-> T]
    BY <1>1, <1>3 DEF UseForm
  <2>2. NoNonce \in [held : BOOLEAN, n : Nat]  BY DEF NoNonce
  <2>3. \E R : T \in Seq(R)  BY <1>7
  <2> QED  BY <2>1, <2>2, <2>3, Written
<1>9. use[c].nonce.held  BY <1>1 DEF UseOK, SignNext
<1>10. UseOK(c)'  BY <1>1, <1>2, <1>8 DEF UseOK, NoNonce
<1>11. nextNonce' \in Nat  BY <1>1 DEF FormOK, SignNext
<1>12. FormOK' /\ \A d \in Calls \ {c} : AllOf(d)' = AllOf(d)
  BY <1>1, <1>3, <1>8, <1>10, <1>11, OthersStay
<1>13. AllOf(c)' = AllOf(c)
  <2>1. AllOf(c) = {use[c].nonce.n} \cup {use[c].txs[k].nonce : k \in DOMAIN use[c].txs}
    BY <1>9 DEF AllOf, NonceInHand, NoncesOf
  <2>2. ~use'[c].nonce.held  BY <1>8 DEF NoNonce
  <2>3. AllOf(c)' = {T[k].nonce : k \in DOMAIN T}
    BY <1>8, <2>2 DEF AllOf, NonceInHand, NoncesOf
  <2> QED  BY <1>6, <1>7, <2>1, <2>3
<1>14. PlacesOK'  BY <1>1, <1>12, <1>13, Same DEF SignNext
<1> QED  BY <1>12, <1>14 DEF Inv

\* A call that throws has no nonce any more.
LEMMA ThrowStep ==
    ASSUME Inv, NEW c \in Calls, Throw(c), nextNonce' = nextNonce,
           \/ spare' = spare \cup AllOf(c) /\ lost' = lost
           \/ spare' = spare /\ lost' = lost \cup AllOf(c)
    PROVE  Inv'
<1>1. FormOK /\ PlacesOK /\ UseForm(c)  BY DEF Inv, FormOK
<1>2. use' = [use EXCEPT ![c] = [use[c] EXCEPT !.at = "failed", !.nonce = NoNonce, !.txs = <<>>]]
  BY <1>1 DEF Throw, UseForm
<1>3. /\ Moved(c)
      /\ use'[c] = [use[c] EXCEPT !.at = "failed", !.nonce = NoNonce, !.txs = <<>>]
  BY <1>1, <1>2, Rewritten
<1>4. /\ UseForm(c)'
      /\ use'[c].at = "failed" /\ use'[c].nonce = NoNonce /\ use'[c].txs = <<>>
  <2>1. use'[c] = [at |-> "failed", kind |-> use[c].kind, batch |-> use[c].batch,
                   per |-> use[c].per, gas |-> use[c].gas, groups |-> use[c].groups,
                   fee |-> use[c].fee, nonce |-> NoNonce, txs |-> <<>>]
    BY <1>1, <1>3 DEF UseForm
  <2>2. NoNonce \in [held : BOOLEAN, n : Nat]  BY DEF NoNonce
  <2>3. PICK t : t = <<>>  OBVIOUS
  <2>4. \E R : t \in Seq(R)  BY <2>3
  <2>5. use'[c] = [at |-> "failed", kind |-> use[c].kind, batch |-> use[c].batch,
                   per |-> use[c].per, gas |-> use[c].gas, groups |-> use[c].groups,
                   fee |-> use[c].fee, nonce |-> NoNonce, txs |-> t]
    BY <2>1, <2>3
  <2>6. UseForm(c)' /\ use'[c].at = "failed" /\ use'[c].nonce = NoNonce /\ use'[c].txs = t
    BY <2>2, <2>4, <2>5, Written
  <2> QED  BY <2>3, <2>6
<1>5. UseOK(c)'  BY <1>4 DEF UseOK, NoNonce
<1>6. nextNonce' \in Nat  BY <1>1 DEF FormOK
<1>7. FormOK' /\ \A d \in Calls \ {c} : AllOf(d)' = AllOf(d)
  BY <1>1, <1>3, <1>4, <1>5, <1>6, OthersStay
<1>8. AllOf(c)' = {}  BY <1>4 DEF AllOf, NonceInHand, NoncesOf, NoNonce
<1>9. PlacesOK'  BY <1>1, <1>7, <1>8, Drop
<1> QED  BY <1>7, <1>9 DEF Inv

LEMMA FailBeforeStep ==
    ASSUME Inv, NEW c \in Calls, FailBefore(c)
    PROVE  Inv'
<1>1. UseOK(c)  BY DEF Inv, FormOK
<1>2. ~use[c].nonce.held  BY <1>1 DEF UseOK, FailBefore, MayTakeNonce
<1>3. AllOf(c) = NoncesOf(c)  BY <1>2 DEF AllOf, NonceInHand
<1> QED  BY <1>3, ThrowStep DEF FailBefore

LEMMA FailAfterStep ==
    ASSUME Inv, NEW c \in Calls, FailAfter(c)
    PROVE  Inv'
<1>1. UseOK(c)  BY DEF Inv, FormOK
<1>2. use[c].txs = <<>>  BY <1>1 DEF UseOK, FailAfter
<1>3. AllOf(c) = NonceInHand(c)  BY <1>2 DEF AllOf, NoncesOf
<1> QED  BY <1>3, ThrowStep DEF FailAfter

LEMMA FailSplitStep ==
    ASSUME Inv, NEW c \in Calls, FailSplit(c)
    PROVE  Inv'
<1>1. lost' = lost \cup AllOf(c)  BY DEF FailSplit, AllOf
<1> QED  BY <1>1, ThrowStep DEF FailSplit

LEMMA InitHolds ==
    ASSUME BatchInit
    PROVE  Inv
<1>1. \A c \in Calls : use[c] = NewCall  BY DEF BatchInit
<1>2. use = [c \in Calls |-> use[c]]  BY DEF BatchInit
<1>3. ASSUME NEW c \in Calls
      PROVE  UseForm(c) /\ UseOK(c) /\ AllOf(c) = {}
  <2>1. <<>> \in Seq({})  OBVIOUS
  <2>2. UseForm(c)
    <3>1. use[c] = [at |-> "new", kind |-> "batch", batch |-> <<>>, per |-> 0, gas |-> 0,
                    groups |-> <<>>, fee |-> 0, nonce |-> NoNonce, txs |-> <<>>]
      BY <1>1 DEF NewCall
    <3>2. /\ use[c].at = "new" /\ use[c].kind = "batch" /\ use[c].batch = <<>> /\ use[c].per = 0
          /\ use[c].gas = 0 /\ use[c].groups = <<>> /\ use[c].fee = 0
          /\ use[c].nonce = NoNonce /\ use[c].txs = <<>>
      BY <3>1
    <3>3. NoNonce \in [held : BOOLEAN, n : Nat]  BY DEF NoNonce
    <3> QED  BY <2>1, <3>1, <3>2, <3>3 DEF UseForm
  <2>3. UseOK(c)  BY <1>1 DEF UseOK, NewCall, NoNonce
  <2>4. AllOf(c) = {}  BY <1>1 DEF AllOf, NonceInHand, NoncesOf, NewCall, NoNonce
  <2> QED  BY <2>2, <2>3, <2>4
<1>4. FormOK  BY <1>2, <1>3 DEF FormOK, BatchInit
<1>5. PlacesOK  BY <1>3 DEF PlacesOK, BatchInit
<1> QED  BY <1>4, <1>5 DEF Inv

\* Nothing in the invariant depends on the other variables.
LEMMA Unmoved ==
    ASSUME Inv, UNCHANGED <<nextNonce, spare, lost, use>>
    PROVE  Inv'
<1>1. FormOK'
  <2>1. \A c \in Calls : UseForm(c)'  BY DEF Inv, FormOK, UseForm
  <2>2. \A c \in Calls : UseOK(c)'  BY DEF Inv, FormOK, UseOK
  <2> QED  BY <2>1, <2>2 DEF Inv, FormOK
<1>2. \A c \in Calls : AllOf(c)' = AllOf(c)  BY DEF AllOf, NonceInHand, NoncesOf
<1>3. PlacesOK'  BY <1>2, Same DEF Inv
<1> QED  BY <1>1, <1>3 DEF Inv

LEMMA NextHolds ==
    ASSUME Inv, [BatchNext]_batchVars
    PROVE  Inv'
<1>1. CASE UNCHANGED batchVars
  BY <1>1, Unmoved DEF batchVars
<1>2. ASSUME NEW c \in Calls, NEW w \in Works, Begin(c, w)
      PROVE  Inv'
  BY <1>2, BeginStep
<1>3. ASSUME NEW c \in Calls, NEW g \in Estimates, EstimateSingle(c, g) \/ EstimateBatch(c, g)
      PROVE  Inv'
  BY <1>3, EstimateSingleStep, EstimateBatchStep
<1>4. ASSUME NEW c \in Calls, EstimateFails(c) \/ TakeNonce(c) \/ AskPrice(c) \/ SignNext(c)
      PROVE  Inv'
  BY <1>4, EstimateFailsStep, TakeNonceStep, AskPriceStep, SignNextStep
<1>5. ASSUME NEW c \in Calls, UseCachedPrice(c)
      PROVE  Inv'
  BY <1>5, PricedStep DEF UseCachedPrice
<1>6. ASSUME NEW c \in Calls, NEW fee \in Prices, FetchPrice(c, fee)
      PROVE  Inv'
  BY <1>6, PricedStep DEF FetchPrice
<1>7. ASSUME NEW c \in Calls, FailBefore(c) \/ FailAfter(c) \/ FailSplit(c)
      PROVE  Inv'
  BY <1>7, FailBeforeStep, FailAfterStep, FailSplitStep
<1>8. CASE ExpirePrice
  BY <1>8, Unmoved DEF ExpirePrice
<1> QED  BY <1>1, <1>2, <1>3, <1>4, <1>5, <1>6, <1>7, <1>8 DEF BatchNext

\* Who lost what is lost: a pool that refused it, or split calls that failed
SplitFailed == \E c \in Calls : use[c].kind = "split" /\ use[c].at = "failed"

LossOK ==
    /\ refused \subseteq lost
    /\ lost \subseteq refused \/ SplitFailed

\* A call that throws keeps its kind.
LEMMA ThrownKind ==
    ASSUME Inv, NEW c \in Calls, Throw(c)
    PROVE  /\ use'[c].kind = use[c].kind /\ use'[c].at = "failed"
           /\ \A d \in Calls \ {c} : use'[d] = use[d]
<1>1. FormOK /\ UseForm(c)  BY DEF Inv, FormOK
<1>2. use' = [use EXCEPT ![c] = [use[c] EXCEPT !.at = "failed", !.nonce = NoNonce, !.txs = <<>>]]
  BY <1>1 DEF Throw, UseForm
<1>3. /\ Moved(c)
      /\ use'[c] = [use[c] EXCEPT !.at = "failed", !.nonce = NoNonce, !.txs = <<>>]
  BY <1>1, <1>2, Rewritten
<1> QED  BY <1>1, <1>3 DEF Moved, UseForm

\* A call that failed stays as it is.
LEMMA FailedStays ==
    ASSUME Inv, BatchNext, NEW d \in Calls, use[d].at = "failed"
    PROVE  use'[d] = use[d]
<1>1. ASSUME NEW c \in Calls, NEW v, use' = [use EXCEPT ![c] = v], use[c].at # "failed"
      PROVE  use'[d] = use[d]
  BY <1>1, Rewritten DEF Inv, Moved
<1>2. ASSUME NEW c \in Calls, NEW w \in Works, Begin(c, w)
      PROVE  use'[d] = use[d]
  BY <1>1, <1>2 DEF Begin
<1>3. ASSUME NEW c \in Calls, NEW g \in Estimates, EstimateBatch(c, g)
      PROVE  use'[d] = use[d]
  BY <1>1, <1>3 DEF EstimateBatch
<1>4. ASSUME NEW c \in Calls, NEW g \in Estimates, EstimateSingle(c, g)
      PROVE  use'[d] = use[d]
  BY <1>4 DEF EstimateSingle, Inv, FormOK
<1>5. ASSUME NEW c \in Calls, EstimateFails(c)
      PROVE  use'[d] = use[d]
  BY <1>5 DEF EstimateFails, Inv, FormOK
<1>6. ASSUME NEW c \in Calls, TakeNonce(c) \/ AskPrice(c) \/ SignNext(c)
      PROVE  use'[d] = use[d]
  BY <1>6 DEF TakeNonce, MayTakeNonce, AskPrice, SignNext, Inv, FormOK
<1>7. ASSUME NEW c \in Calls, UseCachedPrice(c) \/ \E fee \in Prices : FetchPrice(c, fee)
      PROVE  use'[d] = use[d]
  BY <1>7 DEF UseCachedPrice, FetchPrice, Priced, Inv, FormOK
<1>8. ASSUME NEW c \in Calls, FailBefore(c) \/ FailAfter(c) \/ FailSplit(c)
      PROVE  use'[d] = use[d]
  BY <1>8 DEF FailBefore, MayTakeNonce, FailAfter, FailSplit, Throw, Inv, FormOK
<1>9. CASE ExpirePrice
  BY <1>9 DEF ExpirePrice
<1> QED  BY <1>2, <1>3, <1>4, <1>5, <1>6, <1>7, <1>8, <1>9 DEF BatchNext

LEMMA LossHolds ==
    ASSUME Inv, LossOK, [BatchNext]_batchVars
    PROVE  LossOK'
<1>1. CASE UNCHANGED batchVars
  BY <1>1 DEF batchVars, LossOK, SplitFailed
<1>2. ASSUME BatchNext
      PROVE  SplitFailed => SplitFailed'
  BY <1>2, FailedStays DEF SplitFailed
<1>3. CASE BatchNext /\ UNCHANGED <<lost, refused>>
  BY <1>2, <1>3 DEF LossOK
<1>4. ASSUME NEW c \in Calls, FailBefore(c)
      PROVE  LossOK'
  <2>1. Throw(c) /\ lost' = lost \cup NoncesOf(c) /\ refused' = refused
    BY <1>4 DEF FailBefore
  <2>2. CASE use[c].kind = "split"
    <3>1. SplitFailed'  BY <2>1, <2>2, ThrownKind DEF SplitFailed
    <3> QED  BY <2>1, <3>1 DEF LossOK
  <2>3. CASE use[c].kind # "split"
    <3>1. use[c].at # "done"  BY <1>4 DEF FailBefore, MayTakeNonce
    <3>2. use[c].txs = <<>>  BY <2>3, <3>1 DEF Inv, FormOK, UseOK
    <3>3. NoncesOf(c) = {}  BY <3>2 DEF NoncesOf
    <3>4. BatchNext  BY <1>4 DEF BatchNext
    <3> QED  BY <1>2, <2>1, <3>3, <3>4 DEF LossOK
  <2> QED  BY <2>2, <2>3
<1>5. ASSUME NEW c \in Calls, FailAfter(c)
      PROVE  LossOK'
  <2>1. BatchNext  BY <1>5 DEF BatchNext
  <2>2. \/ lost' = lost /\ refused' = refused
        \/ lost' = lost \cup NonceInHand(c) /\ refused' = refused \cup NonceInHand(c)
    BY <1>5 DEF FailAfter
  <2> QED  BY <1>2, <2>1, <2>2 DEF LossOK
<1>6. ASSUME NEW c \in Calls, FailSplit(c)
      PROVE  LossOK'
  <2>1. SplitFailed'  BY <1>6, ThrownKind DEF FailSplit, SplitFailed
  <2> QED  BY <1>6, <2>1 DEF FailSplit, LossOK
<1>7. CASE BatchNext
  <2>1. \/ UNCHANGED <<lost, refused>>
        \/ \E c \in Calls : FailBefore(c) \/ FailAfter(c) \/ FailSplit(c)
    BY <1>7 DEF BatchNext, Begin, EstimateSingle, EstimateBatch, EstimateFails, TakeNonce,
                UseCachedPrice, AskPrice, FetchPrice, SignNext, ExpirePrice
  <2> QED  BY <1>3, <1>4, <1>5, <1>6, <1>7, <2>1
<1> QED  BY <1>1, <1>7

\* One place means a count of one.
LEMMA PlacesCount ==
    ASSUME Inv, LossOK
    PROVE  NonceAccounted
<1> SUFFICES ASSUME NEW n \in 0..(nextNonce - 1)
             PROVE  Cardinality({c \in Calls : n \in NonceInHand(c) \cup NoncesOf(c)})
                      + (IF n \in spare THEN 1 ELSE 0) + (IF n \in lost THEN 1 ELSE 0) = 1
  BY DEF NonceAccounted, LossOK, SplitFailed
<1> DEFINE H == {c \in Calls : n \in NonceInHand(c) \cup NoncesOf(c)}
<1>1. \A c \in Calls : c \in H <=> n \in AllOf(c)  BY DEF AllOf
<1>2. CASE n \in spare \cup lost
  <2>1. \A c \in Calls : n \notin AllOf(c)  BY <1>2 DEF Inv, PlacesOK
  <2>2. H = {}  BY <1>1, <2>1
  <2>3. Cardinality(H) = 0  BY <2>2, FS_EmptySet
  <2>4. ~(n \in spare /\ n \in lost)  BY DEF Inv, PlacesOK
  <2> QED  BY <1>2, <2>3, <2>4
<1>3. CASE n \notin spare \cup lost
  <2>1. PICK c \in Calls : n \in AllOf(c)  BY <1>3 DEF Inv, PlacesOK
  <2>2. \A d \in Calls : d # c => n \notin AllOf(d)  BY <2>1 DEF Inv, PlacesOK
  <2>3. H = {c}  BY <1>1, <2>1, <2>2
  <2>4. Cardinality(H) = 1  BY <2>3, FS_Singleton
  <2> QED  BY <1>3, <2>4
<1> QED  BY <1>2, <1>3

----------------------------------------------------------------------------

\* The inductive invariant holds in every reachable state.
THEOREM SignerInv == BatchSpec => []Inv
<1>1. BatchInit => Inv  BY InitHolds
<1>2. Inv /\ [BatchNext]_batchVars => Inv'  BY NextHolds
<1> QED  BY <1>1, <1>2, PTL DEF BatchSpec

\* Only the pool and failing split calls lose a nonce.
THEOREM LossInv == BatchSpec => []LossOK
<1>1. BatchInit => LossOK  BY DEF BatchInit, LossOK
<1>2. Inv /\ LossOK /\ [BatchNext]_batchVars => LossOK'  BY LossHolds
<1> QED  BY <1>1, <1>2, SignerInv, PTL DEF BatchSpec

\* A nonce taken from the counter is in exactly one place, held or signed by one call, in
\* the pool, or lost; and what is lost the pool did not take, as long as no split call
\* failed (getAndIncrement, returnNonceToPool).
THEOREM NoncesAreAccounted == BatchSpec => []NonceAccounted
<1>1. Inv /\ LossOK => NonceAccounted  BY PlacesCount
<1> QED  BY <1>1, SignerInv, LossInv, PTL

----------------------------------------------------------------------------
(* Signing: what a batch pays out *)

\* What the n-th transfer adds to the total of a token
AmountOf(x, t) == IF x.token = t THEN x.amount ELSE 0

Transfers(S) == \A x \in S : x.amount \in Nat

\* The total grows with each transfer.
LEMMA TotalCounts ==
    ASSUME NEW S, Transfers(S), NEW b \in Seq(S), NEW t
    PROVE  \E f \in [0..Len(b) -> Nat] :
             /\ f[0] = 0
             /\ \A n \in 1..Len(b) : f[n] = f[n - 1] + AmountOf(b[n], t)
             /\ TotalOf(b, t) = f[Len(b)]
<1> DEFINE L == Len(b)
           G == [p \in Nat \X (1..L) |-> p[1] + AmountOf(b[p[2]], t)]
<1>1. L \in Nat /\ \A n \in 1..L : b[n] \in S /\ AmountOf(b[n], t) \in Nat
  BY DEF AmountOf, Transfers
<1>2. G \in [Nat \X (1..L) -> Nat]
  BY <1>1
<1>3. PICK f \in [0..L -> Nat] : Counts(f, L, 0, G)
  <2> HIDE DEF L, G
  <2>1. 0 \in Nat
    OBVIOUS
  <2> QED
    BY <1>1, <1>2, <2>1, CountingExists
<1>4. f[0] = 0 /\ \A n \in 1..L : f[n] = f[n - 1] + AmountOf(b[n], t)
  <2>1. ASSUME NEW n \in 1..L
        PROVE  f[n] = f[n - 1] + AmountOf(b[n], t)
    <3>1. n - 1 \in 0..L
      BY <1>1
    <3>2. f[n - 1] \in Nat
      BY <3>1
    <3>3. G[<<f[n - 1], n>>] = f[n - 1] + AmountOf(b[n], t)
      BY <3>2
    <3> QED
      BY <1>3, <3>3 DEF Counts
  <2> QED
    BY <1>3, <2>1 DEF Counts
<1> DEFINE Totals(h) == h = [n \in 0..L |-> IF n = 0 THEN 0
                              ELSE h[n - 1] + (IF b[n].token = t THEN b[n].amount ELSE 0)]
           h == CHOOSE h : Totals(h)
<1>5. TotalOf(b, t) = h[L]
  BY Zenon DEF TotalOf
<1>6. Totals(h)
  <2>1. ASSUME NEW n \in 0..L
        PROVE  f[n] = IF n = 0 THEN 0
                      ELSE f[n - 1] + (IF b[n].token = t THEN b[n].amount ELSE 0)
    BY <1>1, <1>4 DEF AmountOf
  <2>2. Totals(f)
    BY <2>1
  <2> HIDE DEF Totals
  <2> QED
    BY Zenon, <2>2
<1> HIDE DEF h
<1> DEFINE T == {n \in 0..L : h[n] = f[n]}
<1>7. 0 \in T
  BY <1>1, <1>4, <1>6
<1>8. ASSUME NEW n \in 1..L, n - 1 \in T
      PROVE  n \in T
  <2>1. n \in 0..L /\ n # 0
    BY <1>1
  <2>2. h[n] = h[n - 1] + AmountOf(b[n], t)
    BY <1>6, <2>1 DEF AmountOf
  <2> QED
    BY <1>4, <1>8, <2>1, <2>2
<1>9. h[L] = f[L]
  <2> HIDE DEF T, L
  <2>1. \A n \in 0..L : n \in T
    BY <1>1, <1>7, <1>8, UpTo
  <2> QED
    BY <1>1, <2>1 DEF T
<1> QED
  BY <1>3, <1>4, <1>5, <1>9

LEMMA TotalEmpty ==
    ASSUME NEW t
    PROVE  TotalOf(<<>>, t) = 0
<1> DEFINE b == <<>>
<1>1. b \in Seq({}) /\ Len(b) = 0 /\ Transfers({})
  BY DEF Transfers
<1> HIDE DEF b
<1>2. TotalOf(b, t) = 0
  BY <1>1, TotalCounts
<1> QED
  BY <1>2 DEF b

LEMMA TotalAppend ==
    ASSUME NEW S, Transfers(S), NEW b \in Seq(S), NEW x \in S, NEW t
    PROVE  /\ TotalOf(b, t) \in Nat
           /\ TotalOf(Append(b, x), t) = TotalOf(b, t) + AmountOf(x, t)
<1> DEFINE L == Len(b)
           d == Append(b, x)
<1>1. /\ L \in Nat /\ d \in Seq(S) /\ Len(d) = L + 1 /\ d[L + 1] = x
      /\ \A n \in 1..L : d[n] = b[n]
  OBVIOUS
<1>2. PICK f \in [0..L -> Nat] :
        /\ f[0] = 0
        /\ \A n \in 1..L : f[n] = f[n - 1] + AmountOf(b[n], t)
        /\ TotalOf(b, t) = f[L]
  BY TotalCounts
<1> HIDE DEF d
<1>3. PICK g \in [0..Len(d) -> Nat] :
        /\ g[0] = 0
        /\ \A n \in 1..Len(d) : g[n] = g[n - 1] + AmountOf(d[n], t)
        /\ TotalOf(d, t) = g[Len(d)]
  BY <1>1, TotalCounts
<1> HIDE DEF L
<1> DEFINE T == {n \in 0..L : f[n] = g[n]}
<1>4. 0 \in T
  BY <1>1, <1>2, <1>3
<1>5. ASSUME NEW n \in 1..L, n - 1 \in T
      PROVE  n \in T
  <2>1. n \in 1..Len(d) /\ d[n] = b[n]
    BY <1>1
  <2> QED
    BY <1>2, <1>3, <1>5, <2>1
<1>6. f[L] = g[L]
  <2> HIDE DEF T
  <2>1. \A n \in 0..L : n \in T
    BY <1>1, <1>4, <1>5, UpTo
  <2> QED
    BY <1>1, <2>1 DEF T
<1>7. g[L + 1] = g[L] + AmountOf(x, t)
  <2>1. L + 1 \in 1..Len(d) /\ (L + 1) - 1 = L
    BY <1>1
  <2> QED
    BY <1>1, <1>3, <2>1
<1>8. f[L] \in Nat
  BY <1>1
<1> QED
  BY <1>1, <1>2, <1>3, <1>6, <1>7, <1>8 DEF d

\* No part of a batch at its beginning pays out more than the batch.
LEMMA PrefixTotal ==
    ASSUME NEW S, Transfers(S), NEW b \in Seq(S), NEW n \in 0..Len(b), NEW t
    PROVE  TotalOf(Prefix(b, n), t) <= TotalOf(b, t)
<1> DEFINE L == Len(b)
           P(k) == TotalOf(Prefix(b, k), t)
           T == {m \in 0..L : P(m) \in Nat /\ (n <= m => P(n) <= P(m))}
<1>1. ASSUME NEW k \in 1..L
      PROVE  P(k - 1) \in Nat /\ P(k) \in Nat /\ P(k - 1) <= P(k)
  <2>1. /\ Prefix(b, k - 1) \in Seq(S) /\ b[k] \in S
        /\ Prefix(b, k) = Append(Prefix(b, k - 1), b[k])
    BY PrefixGrows
  <2>2. P(k - 1) \in Nat /\ P(k) = P(k - 1) + AmountOf(b[k], t)
    BY <2>1, TotalAppend
  <2>3. AmountOf(b[k], t) \in Nat
    BY <2>1 DEF AmountOf, Transfers
  <2> QED
    BY <2>2, <2>3
<1>2. L \in Nat /\ P(0) = 0 /\ P(L) = TotalOf(b, t)
  BY PrefixEnds, TotalEmpty
<1> HIDE DEF P, L
<1>3. 0 \in T
  BY <1>2 DEF L
<1>4. ASSUME NEW k \in 1..L, k - 1 \in T
      PROVE  k \in T
  <2>1. k \in 0..L /\ P(k) \in Nat /\ P(k - 1) \in Nat /\ P(k - 1) <= P(k)
    BY <1>1, <1>2
  <2>2. n <= k => n <= k - 1 \/ n = k
    BY <1>2 DEF L
  <2>3. n <= k - 1 => P(n) <= P(k - 1) /\ P(n) \in Nat
    <3>1. n \in 0..L
      BY DEF L
    <3>2. CASE n = 0
      BY <3>2, <1>2, <1>4
    <3>3. CASE n # 0
      <4>1. n \in 1..L
        BY <3>1, <3>3
      <4> QED
        BY <4>1, <1>1, <1>4
    <3> QED
      BY <3>2, <3>3
  <2> QED
    BY <2>1, <2>2, <2>3
<1>5. L \in T
  <2> HIDE DEF T
  <2>1. \A k \in 0..L : k \in T
    BY <1>2, <1>3, <1>4, UpTo
  <2> QED
    BY <1>2, <2>1
<1> QED
  BY <1>2, <1>5 DEF P, L

\* A token that no transfer names has no total.
LEMMA TotalOfOthers ==
    ASSUME NEW S, Transfers(S), NEW b \in Seq(S), NEW t, \A n \in 1..Len(b) : AmountOf(b[n], t) = 0
    PROVE  TotalOf(b, t) = 0
<1>1. PICK f \in [0..Len(b) -> Nat] :
        /\ f[0] = 0
        /\ \A n \in 1..Len(b) : f[n] = f[n - 1] + AmountOf(b[n], t)
        /\ TotalOf(b, t) = f[Len(b)]
  BY TotalCounts
<1> DEFINE T == {n \in 0..Len(b) : f[n] = 0}
<1>2. 0 \in T /\ Len(b) \in Nat
  BY <1>1
<1>3. ASSUME NEW n \in 1..Len(b), n - 1 \in T
      PROVE  n \in T
  BY <1>1, <1>3
<1> HIDE DEF T
<1>4. \A n \in 0..Len(b) : n \in T
  BY <1>2, <1>3, UpTo
<1> QED
  BY <1>1, <1>2, <1>4 DEF T

----------------------------------------------------------------------------
(* Signing: the groups of a batch *)

Groups(S) == [transfers : Seq(S), gas : Nat]
TransfersOf(s) == [k \in DOMAIN s |-> s[k].transfers]

LEMMA GasIsNatural ==
    ASSUME NEW base \in Nat, NEW n \in Nat
    PROVE  GasForNthCall(base, n) \in Nat
<1>1. Percent(n) \in Nat
  BY DEF Percent
<1>2. base * Percent(n) \in Nat
  BY <1>1
<1>3. \A m \in Nat : m \div 100 \in Nat
  OBVIOUS
<1> QED
  BY <1>2, <1>3 DEF GasForNthCall

\* The groups after the first n transfers of a batch
Cut(s, S, b, n, per) ==
    /\ s \in Seq(Groups(S)) /\ s # <<>>
    /\ n = 0 => s = <<NewGroup>>
    /\ FlattenSeq(TransfersOf(s)) = Prefix(b, n)
    /\ \A k \in 1..Len(s) :
         /\ n # 0 => s[k].transfers # <<>>
         /\ Len(s[k].transfers) > 1 => s[k].gas <= MaxBatchGas
         /\ \A t \in Tokens : TotalOf(s[k].transfers, t) <= TotalOf(Prefix(b, n), t)
         /\ k < Len(s) => ExceedsGasLimit(s[k], GasForNthCall(per, Len(s[k].transfers)))

\* What the lemmas below are about: a batch that was validated
Validated(S, b, per) ==
    /\ Transfers(S) /\ b \in Seq(S) /\ per \in Nat
    /\ ValidBatch(b)

\* The open group never has too large an amount: the whole batch has not.
LEMMA AmountsFit ==
    ASSUME NEW S, NEW b, NEW per, Validated(S, b, per), NEW n \in 1..Len(b),
           NEW group \in Groups(S),
           \A t \in Tokens : TotalOf(group.transfers, t) <= TotalOf(Prefix(b, n - 1), t)
    PROVE  ~ExceedsMaxAmount(group, b[n])
<1> DEFINE x == b[n]
           t == x.token
<1>1. Transfers(S) /\ b \in Seq(S) /\ ValidBatch(b)
  BY DEF Validated
<1>2. /\ Prefix(b, n - 1) \in Seq(S) /\ x \in S
      /\ Prefix(b, n) = Append(Prefix(b, n - 1), x)
  BY <1>1, PrefixGrows
<1>3. t \in Tokens /\ t \in TokensOf(b)
  BY <1>1 DEF ValidBatch, Convertible, TokensOf
<1>4. TotalOf(Prefix(b, n - 1), t) \in Nat
      /\ TotalOf(Prefix(b, n), t) = TotalOf(Prefix(b, n - 1), t) + x.amount
  BY <1>1, <1>2, TotalAppend DEF AmountOf
<1>5. TotalOf(Prefix(b, n), t) <= TotalOf(b, t)
  <2>1. n \in 0..Len(b)
    OBVIOUS
  <2> QED
    BY <1>1, <2>1, PrefixTotal
<1>6. group.transfers \in Seq(S) /\ TotalOf(group.transfers, t) \in Nat
  <2>1. group.transfers \in Seq(S)
    BY DEF Groups
  <2> QED
    BY <1>1, <1>2, <2>1, TotalAppend
<1>7. TotalOf(b, t) \in Nat
  BY <1>1, <1>2, TotalAppend
<1>8. x.amount \in Nat
  BY <1>1, <1>2 DEF Transfers
<1>9. Unlimited(t) \/ TotalOf(b, t) <= MaxTransfer[t]
  BY <1>1, <1>3 DEF ValidBatch
<1>10. MaxTransfer[t] \in Nat
  BY <1>3, BatchAssumption
<1>11. TotalOf(group.transfers, t) <= TotalOf(Prefix(b, n - 1), t)
  BY <1>3
<1> HIDE DEF t, x
<1>12. TotalOf(group.transfers, t) + x.amount <= TotalOf(b, t)
  BY <1>4, <1>5, <1>6, <1>7, <1>8, <1>11
<1>13. ~Unlimited(t) => ~(TotalOf(group.transfers, t) + x.amount > MaxTransfer[t])
  BY <1>6, <1>7, <1>8, <1>9, <1>10, <1>12
<1> QED
  BY <1>13 DEF ExceedsMaxAmount, t, x

\* The transfers of the groups when the open group changes or another is opened
LEMMA TransfersMove ==
    ASSUME NEW S, NEW s \in Seq(Groups(S)), s # <<>>, NEW g \in Groups(S)
    PROVE  /\ TransfersOf(s) \in Seq(Seq(S)) /\ TransfersOf(s) # <<>>
           /\ Last(TransfersOf(s)) = Last(s).transfers
           /\ TransfersOf(Append(s, g)) = Append(TransfersOf(s), g.transfers)
           /\ TransfersOf(Append(Front(s), g)) = Append(Front(TransfersOf(s)), g.transfers)
<1> DEFINE L == Len(s)
           Q == Seq(S)
<1>1. L \in Nat \ {0} /\ DOMAIN s = 1..L /\ \A k \in 1..L : s[k] \in Groups(S)
  BY EmptySeq
<1>2. \A h \in Groups(S) : h.transfers \in Q
  BY DEF Groups
<1> HIDE DEF L, Q
<1>3. TransfersOf(s) \in Seq(Q) /\ Len(TransfersOf(s)) = L
      /\ \A k \in 1..L : TransfersOf(s)[k] = s[k].transfers
  BY <1>1, <1>2 DEF TransfersOf
<1>4. TransfersOf(s) # <<>>
  BY <1>1, <1>3
<1>5. Last(TransfersOf(s)) = Last(s).transfers
  BY <1>1, <1>3 DEF Last, L
<1>6. TransfersOf(Append(s, g)) = Append(TransfersOf(s), g.transfers)
  <2> DEFINE d == Append(s, g)
             u == TransfersOf(d)
             v == Append(TransfersOf(s), g.transfers)
  <2>1. d \in Seq(Groups(S)) /\ Len(d) = L + 1 /\ d[L + 1] = g /\ \A k \in 1..L : d[k] = s[k]
    BY DEF L
  <2> HIDE DEF d
  <2>2. u \in Seq(Q) /\ Len(u) = L + 1 /\ \A k \in 1..(L + 1) : u[k] = d[k].transfers
    <3>1. DOMAIN d = 1..(L + 1) /\ \A k \in 1..(L + 1) : d[k] \in Groups(S)
      BY <1>1, <2>1
    <3> QED
      BY <1>1, <1>2, <3>1 DEF TransfersOf
  <2>3. v \in Seq(Q) /\ Len(v) = L + 1 /\ v[L + 1] = g.transfers
        /\ \A k \in 1..L : v[k] = TransfersOf(s)[k]
    BY <1>2, <1>3
  <2> HIDE DEF u, v
  <2>4. \A k \in 1..(L + 1) : u[k] = v[k]
    <3> SUFFICES ASSUME NEW k \in 1..(L + 1) PROVE u[k] = v[k]
      OBVIOUS
    <3>1. u[k] = d[k].transfers
      BY <2>2
    <3>2. CASE k = L + 1
      BY <3>1, <3>2, <2>1, <2>3
    <3>3. CASE k \in 1..L
      BY <3>1, <3>3, <1>3, <2>1, <2>3
    <3> QED
      BY <3>2, <3>3, <1>1
  <2>5. u = v
    <3>1. u \in Seq(Q) /\ v \in Seq(Q) /\ Len(u) = Len(v)
      BY <2>2, <2>3
    <3>2. \A k \in 1..Len(u) : u[k] = v[k]
      BY <2>2, <2>4
    <3> QED
      BY <3>1, <3>2, SeqEqual
  <2> QED
    BY <2>5 DEF u, v, d
<1>7. TransfersOf(Append(Front(s), g)) = Append(Front(TransfersOf(s)), g.transfers)
  <2> DEFINE f == Front(s)
             d == Append(f, g)
             u == TransfersOf(d)
             w == Front(TransfersOf(s))
             v == Append(w, g.transfers)
  <2>1. f \in Seq(Groups(S)) /\ Len(f) = L - 1 /\ \A k \in 1..(L - 1) : f[k] = s[k]
    BY <1>1 DEF Front, L
  <2> HIDE DEF f
  <2>2. d \in Seq(Groups(S)) /\ Len(d) = L /\ d[L] = g /\ \A k \in 1..(L - 1) : d[k] = s[k]
    BY <1>1, <2>1
  <2> HIDE DEF d
  <2>3. u \in Seq(Q) /\ Len(u) = L /\ \A k \in 1..L : u[k] = d[k].transfers
    <3>1. DOMAIN d = 1..L /\ \A k \in 1..L : d[k] \in Groups(S)
      BY <1>1, <2>2
    <3> QED
      BY <1>1, <1>2, <3>1 DEF TransfersOf
  <2>4. w \in Seq(Q) /\ Len(w) = L - 1 /\ \A k \in 1..(L - 1) : w[k] = s[k].transfers
    <3>1. w = SubSeq(TransfersOf(s), 1, L - 1)
      BY <1>3 DEF Front
    <3> HIDE DEF w
    <3> QED
      BY <1>1, <1>3, <3>1
  <2> HIDE DEF w, u
  <2>5. v \in Seq(Q) /\ Len(v) = L /\ v[L] = g.transfers /\ \A k \in 1..(L - 1) : v[k] = w[k]
    BY <1>1, <1>2, <2>4
  <2> HIDE DEF v
  <2>6. \A k \in 1..L : u[k] = v[k]
    BY <1>1, <2>2, <2>3, <2>4, <2>5
  <2>7. u = v
    BY <2>3, <2>5, <2>6, SeqEqual
  <2> QED
    BY <2>7 DEF u, v, w, d, f
<1> QED
  BY <1>3, <1>4, <1>5, <1>6, <1>7 DEF Q

LEMMA ConcatOne ==
    ASSUME NEW S, NEW b \in Seq(S), NEW x \in S
    PROVE  Append(b, x) = b \o <<x>> /\ Append(<<>>, x) = <<x>>
OBVIOUS

\* What a round of the loop does to the groups
LEMMA PlaceCallType ==
    ASSUME NEW S, NEW s \in Seq(Groups(S)), s # <<>>, NEW x \in S, NEW per \in Nat
    PROVE  /\ Last(s) \in Groups(S)
           /\ GasForNthCall(per, Len(Last(s).transfers)) \in Nat
           /\ AddCall(NewGroup, x, GasForNthCall(per, Len(Last(s).transfers))) \in Groups(S)
           /\ AddCall(Last(s), x, GasForNthCall(per, Len(Last(s).transfers))) \in Groups(S)
           /\ PlaceCall(s, x, per) \in Seq(Groups(S)) /\ PlaceCall(s, x, per) # <<>>
<1> DEFINE g == Last(s)
           gas == GasForNthCall(per, Len(g.transfers))
           new == AddCall(NewGroup, x, gas)
           more == AddCall(g, x, gas)
           R == Groups(S)
<1>1. g \in R
  <2>1. Len(s) \in 1..Len(s)
    BY EmptySeq
  <2> QED
    BY <2>1 DEF Last
<1>2. g.transfers \in Seq(S) /\ g.gas \in Nat /\ Len(g.transfers) \in Nat
  BY <1>1 DEF Groups
<1>3. gas \in Nat
  BY <1>2, GasIsNatural
<1> HIDE DEF gas
<1>4. new \in R
  <2>1. Append(<<>>, x) \in Seq(S) /\ Overhead + gas \in Nat
    BY <1>3, BatchAssumption
  <2>2. new = [transfers |-> Append(<<>>, x), gas |-> Overhead + gas]
    BY DEF AddCall, NewGroup
  <2> QED
    BY <2>1, <2>2 DEF Groups
<1>5. more \in R
  <2>1. Append(g.transfers, x) \in Seq(S) /\ g.gas + gas \in Nat
    BY <1>2, <1>3
  <2> QED
    BY <2>1 DEF Groups, AddCall
<1>6. PlaceCall(s, x, per) \in {Append(s, new), Append(Front(s), more)}
  BY Zenon DEF PlaceCall, gas
<1> HIDE DEF new, more, R
<1>7. s \in Seq(R) /\ Front(s) \in Seq(R)
  <2>1. s \in Seq(R) /\ Len(s) \in Nat \ {0}
    BY EmptySeq DEF R
  <2> QED
    BY <2>1 DEF Front
<1>8. Append(s, new) \in Seq(R) /\ Append(s, new) # <<>>
  BY <1>4, <1>7
<1>9. Append(Front(s), more) \in Seq(R) /\ Append(Front(s), more) # <<>>
  BY <1>5, <1>7
<1> QED
  BY <1>1, <1>3, <1>4, <1>5, <1>6, <1>8, <1>9 DEF new, more, gas, R

\* Each round keeps what Cut says of the groups.
LEMMA PlaceKeeps ==
    ASSUME NEW S, NEW b, NEW per, Validated(S, b, per), NEW n \in 1..Len(b),
           NEW s, Cut(s, S, b, n - 1, per)
    PROVE  Cut(PlaceCall(s, b[n], per), S, b, n, per)
<1> DEFINE L == Len(s)
           x == b[n]
           g == Last(s)
           gas == GasForNthCall(per, Len(g.transfers))
           new == AddCall(NewGroup, x, gas)
           more == AddCall(g, x, gas)
           d == PlaceCall(s, x, per)
           TT == TransfersOf(s)
<1>1. Transfers(S) /\ b \in Seq(S) /\ per \in Nat /\ n \in Nat \ {0} /\ n - 1 \in Nat
  BY DEF Validated
<1>2. /\ Prefix(b, n - 1) \in Seq(S) /\ x \in S
      /\ Prefix(b, n) = Append(Prefix(b, n - 1), x)
  BY <1>1, PrefixGrows
<1>3. s \in Seq(Groups(S)) /\ s # <<>> /\ FlattenSeq(TT) = Prefix(b, n - 1)
  BY DEF Cut
<1>4. L \in Nat \ {0} /\ g = s[L] /\ L \in 1..L
  BY <1>3, EmptySeq DEF Last
<1>5. /\ g \in Groups(S) /\ gas \in Nat /\ new \in Groups(S) /\ more \in Groups(S)
      /\ d \in Seq(Groups(S)) /\ d # <<>>
  BY <1>1, <1>2, <1>3, PlaceCallType
<1>6. ~ExceedsMaxAmount(g, x)
  <2>1. \A t \in Tokens : TotalOf(g.transfers, t) <= TotalOf(Prefix(b, n - 1), t)
    BY <1>4 DEF Cut
  <2> QED
    BY <1>5, <2>1, AmountsFit
<1>7. g.transfers \in Seq(S) /\ g.gas \in Nat
  BY <1>5 DEF Groups
<1>8. /\ new.transfers = <<x>> /\ Len(new.transfers) = 1 /\ new.transfers # <<>>
      /\ more.transfers = Append(g.transfers, x) /\ more.gas = g.gas + gas
      /\ Len(more.transfers) = Len(g.transfers) + 1 /\ more.transfers # <<>>
  BY <1>1, <1>2, <1>7 DEF AddCall, NewGroup
\* What the prefix gains in each token
<1>9. ASSUME NEW t \in Tokens
      PROVE  /\ TotalOf(Prefix(b, n - 1), t) \in Nat /\ AmountOf(x, t) \in Nat
             /\ TotalOf(Prefix(b, n), t) = TotalOf(Prefix(b, n - 1), t) + AmountOf(x, t)
  BY <1>1, <1>2, TotalAppend DEF AmountOf, Transfers
<1>10. ASSUME NEW t \in Tokens
       PROVE  TotalOf(new.transfers, t) = AmountOf(x, t)
  <2> DEFINE e == <<>>
  <2>1. e \in Seq(S) /\ <<x>> = Append(e, x)
    BY <1>2
  <2> HIDE DEF e
  <2>2. TotalOf(<<x>>, t) = TotalOf(e, t) + AmountOf(x, t)
    BY <1>1, <1>2, <2>1, TotalAppend
  <2>3. TotalOf(e, t) = 0
    BY TotalEmpty DEF e
  <2> QED
    BY <1>8, <1>9, <2>2, <2>3
<1>11. ASSUME NEW t \in Tokens
       PROVE  TotalOf(more.transfers, t) <= TotalOf(Prefix(b, n), t)
  <2>1. TotalOf(g.transfers, t) \in Nat
        /\ TotalOf(more.transfers, t) = TotalOf(g.transfers, t) + AmountOf(x, t)
    BY <1>1, <1>2, <1>7, <1>8, TotalAppend
  <2>2. TotalOf(g.transfers, t) <= TotalOf(Prefix(b, n - 1), t)
    BY <1>4 DEF Cut
  <2> QED
    BY <1>9, <2>1, <2>2
\* What holds of the groups that are closed already
<1>12. ASSUME NEW k \in 1..(L - 1)
       PROVE  /\ s[k].transfers # <<>>
              /\ Len(s[k].transfers) > 1 => s[k].gas <= MaxBatchGas
              /\ \A t \in Tokens : TotalOf(s[k].transfers, t) <= TotalOf(Prefix(b, n), t)
              /\ ExceedsGasLimit(s[k], GasForNthCall(per, Len(s[k].transfers)))
  <2>1. k \in 1..L /\ k < L /\ s[k] \in Groups(S)
    BY <1>3, <1>4
  <2>2. ExceedsGasLimit(s[k], GasForNthCall(per, Len(s[k].transfers)))
    BY <2>1 DEF Cut
  <2>3. ASSUME NEW t \in Tokens
        PROVE  TotalOf(s[k].transfers, t) <= TotalOf(Prefix(b, n), t)
    <3>1. TotalOf(s[k].transfers, t) <= TotalOf(Prefix(b, n - 1), t)
      BY <2>1 DEF Cut
    <3>2. s[k].transfers \in Seq(S)
      BY <2>1 DEF Groups
    <3>3. TotalOf(s[k].transfers, t) \in Nat
      BY <1>1, <1>2, <3>2, TotalAppend
    <3> QED
      BY <1>9, <3>1, <3>3
  <2> QED
    BY <2>1, <2>2, <2>3 DEF Cut, ExceedsGasLimit
<1>13. CASE ExceedsGasLimit(g, gas)
  <2>1. d = Append(s, new)
    BY <1>13 DEF PlaceCall
  <2> HIDE DEF d, new, g, gas, x, more
  <2>2. /\ Len(d) = L + 1 /\ d[L + 1] = new /\ \A k \in 1..L : d[k] = s[k]
    BY <1>3, <1>5, <2>1
  <2>3. FlattenSeq(TransfersOf(d)) = Prefix(b, n)
    <3>1. TT \in Seq(Seq(S)) /\ TT # <<>> /\ TransfersOf(d) = Append(TT, new.transfers)
      BY <1>3, <1>5, <2>1, TransfersMove
    <3>2. <<x>> \in Seq(S)
      BY <1>2
    <3> HIDE DEF TT
    <3>3. FlattenSeq(Append(TT, <<x>>)) = FlattenSeq(TT) \o <<x>>
      BY <3>1, <3>2, FlattenAppend
    <3> QED
      BY <1>2, <1>3, <1>8, <3>1, <3>3, ConcatOne
  <2>4. ASSUME NEW k \in 1..Len(d)
        PROVE  /\ d[k].transfers # <<>>
               /\ Len(d[k].transfers) > 1 => d[k].gas <= MaxBatchGas
               /\ \A t \in Tokens : TotalOf(d[k].transfers, t) <= TotalOf(Prefix(b, n), t)
               /\ k < Len(d) => ExceedsGasLimit(d[k], GasForNthCall(per, Len(d[k].transfers)))
    <3>1. CASE k \in 1..(L - 1)
      <4>1. d[k] = s[k]
        BY <1>4, <2>2, <3>1
      <4> QED
        BY <1>12, <3>1, <4>1
    <3>2. CASE k = L
      <4>1. d[k] = g
        BY <1>4, <2>2, <3>2
      <4>2. g.transfers # <<>>
        BY <1>13 DEF ExceedsGasLimit
      <4>3. Len(g.transfers) > 1 => g.gas <= MaxBatchGas
        BY <1>4 DEF Cut
      <4>4. ASSUME NEW t \in Tokens
            PROVE  TotalOf(g.transfers, t) <= TotalOf(Prefix(b, n), t)
        <5>1. TotalOf(g.transfers, t) <= TotalOf(Prefix(b, n - 1), t)
          BY <1>4 DEF Cut
        <5>2. TotalOf(g.transfers, t) \in Nat
          BY <1>1, <1>2, <1>7, TotalAppend
        <5> QED
          BY <1>9, <5>1, <5>2
      <4> QED
        BY <1>13, <4>1, <4>2, <4>3, <4>4 DEF gas
    <3>3. CASE k = L + 1
      <4>1. d[k] = new /\ ~(k < Len(d)) /\ ~(Len(new.transfers) > 1)
        BY <1>4, <1>8, <2>2, <3>3
      <4>2. ASSUME NEW t \in Tokens
            PROVE  TotalOf(new.transfers, t) <= TotalOf(Prefix(b, n), t)
        BY <1>9, <1>10
      <4> QED
        BY <1>8, <4>1, <4>2
    <3> QED
      BY <1>4, <2>2, <3>1, <3>2, <3>3
  <2> QED
    BY <1>1, <1>5, <2>3, <2>4 DEF Cut, d, x
<1>14. CASE ~ExceedsGasLimit(g, gas)
  <2>1. d = Append(Front(s), more)
    BY <1>6, <1>14 DEF PlaceCall
  <2> HIDE DEF d, new, g, gas, x, more
  <2>2. /\ Len(d) = L /\ d[L] = more /\ \A k \in 1..(L - 1) : d[k] = s[k]
    <3>1. Front(s) \in Seq(Groups(S)) /\ Len(Front(s)) = L - 1
          /\ \A k \in 1..(L - 1) : Front(s)[k] = s[k]
      <4> DEFINE R == Groups(S)
                 f == Front(s)
      <4>1. s \in Seq(R) /\ f = SubSeq(s, 1, L - 1) /\ L = Len(s)
        BY <1>3 DEF Front
      <4> HIDE DEF R, f, L
      <4>2. f \in Seq(R) /\ Len(f) = L - 1 /\ \A k \in 1..(L - 1) : f[k] = s[k]
        BY <1>4, <4>1
      <4> QED
        BY <4>2 DEF R, f
    <3> QED
      BY <1>4, <1>5, <2>1, <3>1
  <2>3. FlattenSeq(TransfersOf(d)) = Prefix(b, n)
    <3>1. TT \in Seq(Seq(S)) /\ TT # <<>> /\ Last(TT) = g.transfers
          /\ TransfersOf(d) = Append(Front(TT), more.transfers)
      BY <1>3, <1>5, <2>1, TransfersMove DEF g
    <3>2. <<x>> \in Seq(S)
      BY <1>2
    <3> HIDE DEF TT
    <3>3. FlattenSeq(Append(Front(TT), Last(TT) \o <<x>>)) = FlattenSeq(TT) \o <<x>>
      BY <3>1, <3>2, FlattenExtend
    <3>4. more.transfers = g.transfers \o <<x>>
      BY <1>2, <1>7, <1>8, ConcatOne
    <3>5. Append(Prefix(b, n - 1), x) = Prefix(b, n - 1) \o <<x>>
      BY <1>2, ConcatOne
    <3> QED
      BY <1>2, <1>3, <3>1, <3>3, <3>4, <3>5
  <2>4. Len(more.transfers) > 1 => more.gas <= MaxBatchGas
    <3>1. MaxBatchGas \in Nat
      <4>1. 3 * BlockGas \in Nat
        BY BatchAssumption
      <4> QED
        BY <4>1 DEF MaxBatchGas
    <3>2. g.transfers = <<>> => Len(g.transfers) = 0
      OBVIOUS
    <3> QED
      BY <1>5, <1>7, <1>8, <1>14, <3>1, <3>2 DEF ExceedsGasLimit
  <2>5. ASSUME NEW k \in 1..Len(d)
        PROVE  /\ d[k].transfers # <<>>
               /\ Len(d[k].transfers) > 1 => d[k].gas <= MaxBatchGas
               /\ \A t \in Tokens : TotalOf(d[k].transfers, t) <= TotalOf(Prefix(b, n), t)
               /\ k < Len(d) => ExceedsGasLimit(d[k], GasForNthCall(per, Len(d[k].transfers)))
    <3>1. CASE k \in 1..(L - 1)
      <4>1. d[k] = s[k]
        BY <1>4, <2>2, <3>1
      <4> QED
        BY <1>12, <3>1, <4>1
    <3>2. CASE k = L
      <4>1. d[k] = more /\ ~(k < Len(d))
        BY <1>4, <2>2, <3>2
      <4> QED
        BY <1>8, <1>11, <2>4, <4>1
    <3> QED
      BY <1>4, <2>2, <3>1, <3>2
  <2> QED
    BY <1>1, <1>5, <2>3, <2>5 DEF Cut, d, x
<1> QED
  BY <1>13, <1>14

\* So the groups of the whole batch are a cut of it.
LEMMA SplitIsCut ==
    ASSUME NEW S, NEW b, NEW per, Validated(S, b, per)
    PROVE  Cut(SplitIntoBatches(b, per), S, b, Len(b), per)
<1> DEFINE L == Len(b)
           Q == Seq(Groups(S)) \ {<<>>}
           G == [p \in Q \X (1..L) |-> PlaceCall(p[1], b[p[2]], per)]
           a == <<NewGroup>>
<1>1. Transfers(S) /\ b \in Seq(S) /\ per \in Nat /\ L \in Nat /\ \A n \in 1..L : b[n] \in S
  BY DEF Validated
<1>2. NewGroup \in Groups(S)
  <2>1. <<>> \in Seq(S) /\ Overhead \in Nat
    BY BatchAssumption
  <2> QED
    BY <2>1 DEF Groups, NewGroup
<1>3. a \in Q
  BY <1>2
<1>4. G \in [Q \X (1..L) -> Q]
  <2>1. ASSUME NEW p \in Q \X (1..L)
        PROVE  PlaceCall(p[1], b[p[2]], per) \in Q
    <3>1. p[1] \in Seq(Groups(S)) /\ p[1] # <<>> /\ b[p[2]] \in S
      BY <1>1
    <3> QED
      BY <1>1, <3>1, PlaceCallType
  <2> QED
    BY <2>1
<1>5. PICK f \in [0..L -> Q] : Counts(f, L, a, G)
  <2> HIDE DEF L, G, Q, a
  <2> QED
    BY <1>1, <1>3, <1>4, CountingExists
<1>6. f[0] = a /\ \A n \in 1..L : f[n] = PlaceCall(f[n - 1], b[n], per)
  <2>1. ASSUME NEW n \in 1..L
        PROVE  f[n] = PlaceCall(f[n - 1], b[n], per)
    <3>1. n - 1 \in 0..L
      BY <1>1
    <3>2. f[n - 1] \in Q
      BY <3>1
    <3>3. G[<<f[n - 1], n>>] = PlaceCall(f[n - 1], b[n], per)
      BY <3>2
    <3> QED
      BY <1>5, <3>3 DEF Counts
  <2> QED
    BY <1>5, <2>1 DEF Counts
<1> DEFINE Fills(h) == h = [n \in 0..L |-> IF n = 0 THEN <<NewGroup>>
                                           ELSE PlaceCall(h[n - 1], b[n], per)]
           h == CHOOSE h : Fills(h)
<1>7. SplitIntoBatches(b, per) = h[L]
  BY Zenon DEF SplitIntoBatches
<1>8. Fills(h)
  <2>1. ASSUME NEW n \in 0..L
        PROVE  f[n] = IF n = 0 THEN <<NewGroup>> ELSE PlaceCall(f[n - 1], b[n], per)
    <3>1. n # 0 => n \in 1..L
      BY <1>1
    <3> QED
      BY <1>6, <3>1
  <2>2. Fills(f)
    BY <2>1
  <2> HIDE DEF Fills
  <2> QED
    BY Zenon, <2>2
<1> HIDE DEF h, G, Q
<1> DEFINE T == {n \in 0..L : Cut(h[n], S, b, n, per)}
<1>9. 0 \in T
  <2>1. h[0] = <<NewGroup>>
    BY <1>1, <1>8
  <2> DEFINE s == <<NewGroup>>
  <2>2. s \in Seq(Groups(S)) /\ s # <<>> /\ Len(s) = 1 /\ s[1] = NewGroup
    BY <1>2
  <2>3. FlattenSeq(TransfersOf(s)) = Prefix(b, 0)
    <3> DEFINE e == <<>>
    <3>1. TransfersOf(s) = <<e>> /\ e \in Seq(S)
      BY <2>2 DEF TransfersOf, NewGroup
    <3> HIDE DEF e
    <3>2. FlattenSeq(<<e>>) = e
      BY <3>1, FlattenOne
    <3> QED
      BY <1>1, <3>1, <3>2, PrefixEnds DEF e
  <2> HIDE DEF s
  <2>4. NewGroup.transfers = <<>>
    BY DEF NewGroup
  <2>5. \A t \in Tokens : TotalOf(<<>>, t) <= TotalOf(Prefix(b, 0), t)
    <3>1. Prefix(b, 0) = <<>>
      BY <1>1, PrefixEnds
    <3> QED
      BY <3>1, TotalEmpty
  <2>6. \A k \in 1..Len(s) : k = 1 /\ s[k] = NewGroup
    BY <2>2
  <2>7. ~(Len(<<>>) > 1) /\ ~(1 < Len(s))
    BY <2>2
  <2>8. Cut(s, S, b, 0, per)
    BY <2>2, <2>3, <2>4, <2>5, <2>6, <2>7 DEF Cut, s
  <2> QED
    BY <1>1, <2>1, <2>8 DEF s
<1>10. ASSUME NEW n \in 1..L, n - 1 \in T
       PROVE  n \in T
  <2>1. h[n] = PlaceCall(h[n - 1], b[n], per)
    <3>1. n \in 0..L /\ n # 0
      BY <1>1
    <3> QED
      BY <1>8, <3>1
  <2>2. Cut(h[n - 1], S, b, n - 1, per)
    BY <1>10
  <2>3. Cut(h[n], S, b, n, per)
    BY <2>1, <2>2, PlaceKeeps
  <2> QED
    BY <1>1, <2>3
<1>11. L \in T
  <2> HIDE DEF T, L
  <2>1. \A n \in 0..L : n \in T
    BY <1>1, <1>9, <1>10, UpTo
  <2> QED
    BY <1>1, <2>1
<1> QED
  BY <1>7, <1>11

----------------------------------------------------------------------------
(* Signing: costs *)

LEMMA FallbackIsNatural ==
    ASSUME learned \in [Tokens -> Nat], NEW S, NEW b \in Seq(S), b # <<>>, Convertible(b)
    PROVE  FallbackPerCall(b) \in Nat /\ FallbackGas(b) \in Nat
<1> DEFINE L == Len(b)
           v(k) == IF learned[b[k].token] = 0 THEN BaseGas ELSE learned[b[k].token]
           V == {IF learned[t] = 0 THEN BaseGas ELSE learned[t] : t \in TokensOf(b)}
           T == {n \in 0..L : n = 0 \/ \E i \in 1..n : \A j \in 1..n : v(j) <= v(i)}
<1>1. L \in Nat \ {0} /\ DOMAIN b = 1..L
  BY EmptySeq
<1>2. ASSUME NEW k \in 1..L
      PROVE  v(k) \in Nat
  <2>1. b[k].token \in Tokens
    BY <1>1 DEF Convertible
  <2> QED
    BY <2>1, BatchAssumption
<1>3. V = {v(k) : k \in 1..L}
  BY <1>1 DEF TokensOf
<1> HIDE DEF v, L, V
<1>4. ASSUME NEW n \in 1..L, n - 1 \in T
      PROVE  n \in T
  <2>1. CASE n = 1
    <3>1. \A j \in 1..n : j = 1
      BY <2>1
    <3>2. v(1) <= v(1)
      BY <1>2, <2>1
    <3> QED
      BY <1>1, <2>1, <3>1, <3>2
  <2>2. CASE n # 1
    <3>1. PICK i \in 1..(n - 1) : \A j \in 1..(n - 1) : v(j) <= v(i)
      BY <1>1, <1>4, <2>2
    <3>2. i \in 1..L /\ v(i) \in Nat /\ v(n) \in Nat
      BY <1>1, <1>2
    <3>3. \A j \in 1..(n - 1) : v(j) \in Nat
      BY <1>1, <1>2
    <3>4. CASE v(n) <= v(i)
      <4>1. \A j \in 1..n : v(j) <= v(i)
        BY <1>1, <3>1, <3>4
      <4> QED
        BY <1>1, <4>1
    <3>5. CASE ~(v(n) <= v(i))
      <4>1. ASSUME NEW j \in 1..n
            PROVE  v(j) <= v(n)
        <5>1. CASE j = n
          BY <3>2, <5>1
        <5>2. CASE j # n
          <6>1. j \in 1..(n - 1)
            BY <1>1, <5>2
          <6> QED
            BY <3>1, <3>2, <3>3, <3>5, <6>1
        <5> QED
          BY <5>1, <5>2
      <4>2. n \in 1..n
        BY <1>1
      <4> QED
        BY <1>1, <4>1, <4>2
    <3> QED
      BY <3>4, <3>5
  <2> QED
    BY <2>1, <2>2
<1>5. PICK i \in 1..L : \A j \in 1..L : v(j) <= v(i)
  <2>1. 0 \in T
    BY <1>1
  <2>2. L \in T
    <3> HIDE DEF T
    <3>1. \A n \in 0..L : n \in T
      BY <1>1, <1>4, <2>1, UpTo
    <3> QED
      BY <1>1, <3>1
  <2> QED
    BY <1>1, <2>2
<1>6. v(i) \in V /\ \A y \in V : v(i) >= y
  BY <1>2, <1>3, <1>5
<1>7. FallbackPerCall(b) \in V
  <2>1. FallbackPerCall(b) = Max(V)
    BY DEF FallbackPerCall, V
  <2>2. Max(V) \in V
    BY <1>6 DEF Max
  <2> QED
    BY <2>1, <2>2
<1>8. FallbackPerCall(b) \in Nat
  BY <1>2, <1>3, <1>7
<1>9. FallbackGas(b) \in Nat
  <2>1. FallbackPerCall(b) * L \in Nat /\ PerCall * (L - 1) \in Nat /\ Overhead \in Nat
    <3>1. L \in Nat /\ L - 1 \in Nat /\ PerCall \in Nat /\ Overhead \in Nat
      BY <1>1, BatchAssumption
    <3>2. \A m, n \in Nat : m * n \in Nat
      OBVIOUS
    <3> QED
      BY <1>8, <3>1, <3>2
  <2> QED
    BY <2>1 DEF FallbackGas, L
<1> QED
  BY <1>8, <1>9

LEMMA CostsAreNatural ==
    ASSUME learned \in [Tokens -> Nat], NEW b, NEW gas \in Nat
    PROVE  UpdateTokenGasCosts(b, gas) \in [Tokens -> Nat]
<1>1. ASSUME NEW t \in Tokens
      PROVE  NewCost(learned[t], gas) \in Nat
  BY DEF NewCost
<1> QED
  BY <1>1 DEF UpdateTokenGasCosts

LEMMA EstimateIsNatural ==
    ASSUME NEW g \in Estimates, NEW n \in Nat \ {0}
    PROVE  GasForNthCall(g \div n, n) \in Nat /\ (g * 115) \div 100 \in Nat
           /\ (((g * 120) \div 100) * 120) \div 100 \in Nat
<1>1. g \in Nat
  BY BatchAssumption
<1>2. g \div n \in Nat
  BY <1>1
<1>3. GasForNthCall(g \div n, n) \in Nat
  BY <1>2, GasIsNatural
<1>4. \A m \in Nat : (m * 115) \div 100 \in Nat /\ (m * 120) \div 100 \in Nat
  OBVIOUS
<1> QED
  BY <1>1, <1>3, <1>4

----------------------------------------------------------------------------
(* Signing: the plan of a call *)

\* What a call is about
CallOK(u) ==
    /\ u.at \in {"new", "estimating", "waiting", "pricing", "fetching", "signing",
                 "done", "failed"}
    /\ u.kind \in {"single", "batch", "split"}
    /\ {u.per, u.gas, u.fee} \subseteq Nat
    /\ u.batch \in {w.batch : w \in Works} \cup {<<>>}
    /\ u.at \notin {"new", "failed"} =>
         /\ \E w \in Works : u.batch = w.batch
         /\ Convertible(u.batch)
         /\ u.kind # "single" => ValidBatch(u.batch)

GroupsOK(u) ==
    /\ u.at \in {"new", "estimating"} => u.groups = <<>>
    /\ u.groups # <<>> =>
         /\ \E w \in Works : u.batch = w.batch
         /\ ValidBatch(u.batch)
         /\ u.groups = SplitIntoBatches(u.batch, u.per)
    /\ u.kind = "split" /\ u.at \notin {"new", "estimating", "failed"} => u.groups # <<>>

\* The transactions of a split call are those of its first groups
TxsOK(u) ==
    /\ u.at = "failed" => u.txs = <<>>
    /\ u.kind = "split" /\ u.at \in {"waiting", "pricing", "fetching", "signing"} =>
         Len(u.txs) < Len(u.groups)
    /\ u.kind = "split" /\ u.at \notin {"new", "estimating", "failed"} =>
         \A k \in DOMAIN u.txs : u.txs[k].transfers = u.groups[k].transfers
    /\ u.kind = "split" /\ u.at = "done" => Len(u.txs) = Len(u.groups)
    /\ u.kind # "split" /\ u.at = "done" => Len(u.txs) = 1 /\ u.txs[1].transfers = u.batch
    /\ \A j, k \in DOMAIN u.txs : j < k => u.txs[j].nonce < u.txs[k].nonce
    /\ u.nonce.held => \A k \in DOMAIN u.txs : u.txs[k].nonce < u.nonce.n

PlanInv ==
    /\ learned \in [Tokens -> Nat]
    /\ cachedFee \in Prices \cup {0}
    /\ \A c \in Calls : CallOK(use[c]) /\ GroupsOK(use[c]) /\ TxsOK(use[c])

\* The groups of a call in any state are a cut of its batch.
LEMMA GroupsAreCut ==
    ASSUME NEW u, CallOK(u), u.groups # <<>>, GroupsOK(u)
    PROVE  \E S : Transfers(S) /\ Cut(u.groups, S, u.batch, Len(u.batch), u.per)
                  /\ u.batch \in Seq(S) /\ u.batch # <<>>
<1>1. PICK w \in Works : u.batch = w.batch
  BY DEF GroupsOK
<1>2. PICK S : S = Range(w.batch)
  OBVIOUS
<1>3. u.batch \in Seq(S) /\ u.batch # <<>> /\ Transfers(S)
  BY <1>1, <1>2, BatchAssumption DEF Transfers
<1>4. Validated(S, u.batch, u.per)
  BY <1>3 DEF Validated, CallOK, GroupsOK
<1>5. Cut(SplitIntoBatches(u.batch, u.per), S, u.batch, Len(u.batch), u.per)
  BY <1>4, SplitIsCut
<1> QED
  BY <1>3, <1>5 DEF GroupsOK

LEMMA PlanRests ==
    ASSUME PlanInv, NEW c \in Calls, Moved(c),
           learned' \in [Tokens -> Nat], cachedFee' \in Prices \cup {0},
           CallOK(use'[c]), GroupsOK(use'[c]), TxsOK(use'[c])
    PROVE  PlanInv'
<1>1. ASSUME NEW d \in Calls
      PROVE  CallOK(use'[d]) /\ GroupsOK(use'[d]) /\ TxsOK(use'[d])
  BY DEF Moved, PlanInv
<1> QED
  BY <1>1 DEF PlanInv

\* All fields of a call after a step
Becomes(c, a, k, b, p, g, gs, f, n, t) ==
    /\ Moved(c)
    /\ use'[c].at = a /\ use'[c].kind = k /\ use'[c].batch = b
    /\ use'[c].per = p /\ use'[c].gas = g /\ use'[c].groups = gs
    /\ use'[c].fee = f /\ use'[c].nonce = n /\ use'[c].txs = t

LEMMA NineWritten ==
    ASSUME FormOK, NEW c \in Calls, NEW v, use' = [use EXCEPT ![c] = v],
           NEW a, NEW k, NEW b, NEW p, NEW g, NEW gs, NEW f, NEW n, NEW t,
           v = [at |-> a, kind |-> k, batch |-> b, per |-> p, gas |-> g, groups |-> gs,
                fee |-> f, nonce |-> n, txs |-> t]
    PROVE  Becomes(c, a, k, b, p, g, gs, f, n, t)
<1>1. Moved(c) /\ use'[c] = v
  BY Rewritten
<1>2. /\ v.at = a /\ v.kind = k /\ v.batch = b /\ v.per = p /\ v.gas = g /\ v.groups = gs
      /\ v.fee = f /\ v.nonce = n /\ v.txs = t
  OBVIOUS
<1> QED
  BY <1>1, <1>2 DEF Becomes

\* A call that goes on with its plan: only the gas, the fee and a later stage are new
LEMMA GoesOn ==
    ASSUME Inv, PlanInv, NEW c \in Calls, NEW a, NEW g \in Nat, NEW f \in Nat,
           Becomes(c, a, use[c].kind, use[c].batch, use[c].per, g, use[c].groups, f,
                   use[c].nonce, use[c].txs),
           \/ use[c].at = "estimating" /\ use[c].kind = "single" /\ a = "pricing"
           \/ /\ use[c].at \in {"waiting", "pricing", "fetching"}
              /\ a \in {"waiting", "pricing", "fetching", "signing"},
           learned' = learned, cachedFee' \in Prices \cup {0}
    PROVE  PlanInv'
<1>1. CallOK(use[c]) /\ GroupsOK(use[c]) /\ TxsOK(use[c])
  BY DEF PlanInv
<1>2. CallOK(use'[c])
  BY <1>1 DEF Becomes, CallOK
<1>3. GroupsOK(use'[c])
  BY <1>1 DEF Becomes, GroupsOK
<1>4. TxsOK(use'[c])
  BY <1>1 DEF Becomes, TxsOK
<1> QED
  BY <1>2, <1>3, <1>4, PlanRests DEF Becomes, PlanInv

----------------------------------------------------------------------------
(* Signing: the steps and the plan *)

Nine(u) == u = [at |-> u.at, kind |-> u.kind, batch |-> u.batch, per |-> u.per, gas |-> u.gas,
                groups |-> u.groups, fee |-> u.fee, nonce |-> u.nonce, txs |-> u.txs]
\* What the updates of a call make of it, field by field
LEMMA GasWritten ==
    ASSUME NEW u, Nine(u), NEW a, NEW x, NEW v, v = [u EXCEPT !.gas = x, !.at = a]
    PROVE  v = [at |-> a, kind |-> u.kind, batch |-> u.batch, per |-> u.per, gas |-> x,
                groups |-> u.groups, fee |-> u.fee, nonce |-> u.nonce, txs |-> u.txs]
BY DEF Nine

LEMMA FeeWritten ==
    ASSUME NEW u, Nine(u), NEW a, NEW x, NEW v, v = [u EXCEPT !.fee = x, !.at = a]
    PROVE  v = [at |-> a, kind |-> u.kind, batch |-> u.batch, per |-> u.per, gas |-> u.gas,
                groups |-> u.groups, fee |-> x, nonce |-> u.nonce, txs |-> u.txs]
BY DEF Nine

LEMMA NonceWritten ==
    ASSUME NEW u, Nine(u), NEW a, NEW x, NEW v, v = [u EXCEPT !.nonce = x, !.at = a]
    PROVE  v = [at |-> a, kind |-> u.kind, batch |-> u.batch, per |-> u.per, gas |-> u.gas,
                groups |-> u.groups, fee |-> u.fee, nonce |-> x, txs |-> u.txs]
BY DEF Nine

LEMMA ThreeWritten ==
    ASSUME NEW u, Nine(u), NEW a, NEW n, NEW t,
           NEW v, v = [u EXCEPT !.txs = t, !.nonce = n, !.at = a]
    PROVE  v = [at |-> a, kind |-> u.kind, batch |-> u.batch, per |-> u.per, gas |-> u.gas,
                groups |-> u.groups, fee |-> u.fee, nonce |-> n, txs |-> t]
BY DEF Nine

LEMMA BeginPlans ==
    ASSUME Inv, PlanInv, NEW c \in Calls, NEW w \in Works, Begin(c, w)
    PROVE  PlanInv'
<1> DEFINE a == IF Accepted(w) THEN "estimating" ELSE "failed"
           v == [NewCall EXCEPT !.kind = w.kind, !.batch = w.batch, !.at = a]
<1>1. FormOK /\ use' = [use EXCEPT ![c] = v]
  BY DEF Begin, Inv
<1> DEFINE e == <<>>
<1>2. v = [at |-> a, kind |-> w.kind, batch |-> w.batch, per |-> 0, gas |-> 0,
           groups |-> e, fee |-> 0, nonce |-> NoNonce, txs |-> e]
  <2>1. PICK z : z = v
    OBVIOUS
  <2>2. z = [at |-> a, kind |-> w.kind, batch |-> w.batch, per |-> 0, gas |-> 0,
             groups |-> e, fee |-> 0, nonce |-> NoNonce, txs |-> e]
    BY <2>1 DEF NewCall
  <2> QED
    BY <2>1, <2>2
<1> HIDE DEF v, a, e
<1>3. Becomes(c, a, w.kind, w.batch, 0, 0, e, 0, NoNonce, e)
  BY <1>1, <1>2, NineWritten
<1>4. a \in {"estimating", "failed"} /\ (a = "estimating" => Accepted(w))
  BY DEF a
<1>5. w.kind \in {"single", "batch", "split"}
  BY BatchAssumption
<1>6. CallOK(use'[c])
  BY <1>3, <1>4, <1>5 DEF Becomes, CallOK, Accepted, ValidBatch
<1>7. GroupsOK(use'[c])
  BY <1>3, <1>4 DEF Becomes, GroupsOK, e
<1>8. TxsOK(use'[c])
  <2>1. use'[c].txs = <<>> /\ DOMAIN use'[c].txs = {} /\ ~use'[c].nonce.held
    BY <1>3 DEF Becomes, e, NoNonce
  <2> QED
    BY <1>3, <1>4, <2>1 DEF Becomes, TxsOK
<1> QED
  BY <1>3, <1>6, <1>7, <1>8, PlanRests DEF Becomes, PlanInv, Begin

LEMMA EstimateSinglePlans ==
    ASSUME Inv, PlanInv, NEW c \in Calls, NEW g \in Estimates, EstimateSingle(c, g)
    PROVE  PlanInv'
<1> DEFINE G == (((g * 120) \div 100) * 120) \div 100
           v == [use[c] EXCEPT !.gas = G, !.at = "pricing"]
<1>1. G \in Nat
  <2>1. 1 \in Nat \ {0}
    OBVIOUS
  <2> QED
    BY <2>1, EstimateIsNatural
<1> HIDE DEF G
<1>2. FormOK /\ UseForm(c) /\ use' = [use EXCEPT ![c] = v]
  BY DEF EstimateSingle, Inv, FormOK, UseForm, G
<1>3. v = [at |-> "pricing", kind |-> use[c].kind, batch |-> use[c].batch,
           per |-> use[c].per, gas |-> G, groups |-> use[c].groups,
           fee |-> use[c].fee, nonce |-> use[c].nonce, txs |-> use[c].txs]
  <2>1. Nine(use[c])
    BY <1>2 DEF UseForm, Nine
  <2> QED
    BY <2>1, GasWritten
<1> HIDE DEF v
<1>4. Becomes(c, "pricing", use[c].kind, use[c].batch, use[c].per, G, use[c].groups,
              use[c].fee, use[c].nonce, use[c].txs)
  BY <1>2, <1>3, NineWritten
<1>5. use[c].fee \in Nat
  BY DEF PlanInv, CallOK
<1> QED
  BY <1>1, <1>4, <1>5, GoesOn DEF EstimateSingle, PlanInv

\* The plan of a batch: its groups are those of the split.
LEMMA PlannedPlans ==
    ASSUME Inv, PlanInv, NEW c \in Calls, NEW per \in Nat, NEW total \in Nat,
           use[c].at = "estimating", use[c].kind # "single",
           use' = [use EXCEPT ![c] = Planned(c, per, total)],
           learned' \in [Tokens -> Nat], cachedFee' = cachedFee
    PROVE  PlanInv'
<1> DEFINE u == use[c]
           gs == PlanGroups(u.batch, per, total)
           back == u.kind = "split" /\ Len(gs) <= 1
<1>1. FormOK /\ UseForm(c) /\ UseOK(c) /\ CallOK(u) /\ GroupsOK(u) /\ TxsOK(u)
  BY DEF Inv, FormOK, PlanInv
<1>2. u.txs = <<>> /\ ~u.nonce.held /\ u.groups = <<>>
  BY <1>1 DEF UseOK, GroupsOK
<1>3. Planned(c, per, total) =
        IF back THEN [u EXCEPT !.kind = "batch"]
        ELSE [u EXCEPT !.per = per, !.gas = total, !.groups = gs, !.at = "waiting"]
  BY Zenon DEF Planned
<1>4. ValidBatch(u.batch) /\ Convertible(u.batch) /\ \E w \in Works : u.batch = w.batch
  BY <1>1 DEF CallOK
<1>5. gs # <<>> => gs = SplitIntoBatches(u.batch, per)
  BY DEF PlanGroups
<1>6. \E R : gs \in Seq(R)
  <2>1. CASE gs = <<>>
    <3>1. gs \in Seq({})
      BY <2>1
    <3> QED
      BY <3>1
  <2>2. CASE gs # <<>>
    <3>1. PICK w \in Works : u.batch = w.batch
      BY <1>4
    <3>2. Validated(Range(w.batch), u.batch, per)
      BY <1>4, <3>1, BatchAssumption DEF Validated, Transfers
    <3>3. Cut(SplitIntoBatches(u.batch, per), Range(w.batch), u.batch, Len(u.batch), per)
      BY <3>2, SplitIsCut
    <3> QED
      BY <1>5, <2>2, <3>3 DEF Cut
  <2> QED
    BY <2>1, <2>2
<1> HIDE DEF gs
<1>7. CASE back
  <2> DEFINE v == [u EXCEPT !.kind = "batch"]
  <2>1. v = [at |-> u.at, kind |-> "batch", batch |-> u.batch, per |-> u.per, gas |-> u.gas,
             groups |-> u.groups, fee |-> u.fee, nonce |-> u.nonce, txs |-> u.txs]
    BY <1>1 DEF UseForm
  <2>2. use' = [use EXCEPT ![c] = v]
    BY <1>3, <1>7
  <2> HIDE DEF v
  <2>3. Becomes(c, u.at, "batch", u.batch, u.per, u.gas, u.groups, u.fee, u.nonce, u.txs)
    BY <1>1, <2>1, <2>2, NineWritten
  <2>4. CallOK(use'[c])
    BY <1>1, <2>3 DEF Becomes, CallOK
  <2>5. GroupsOK(use'[c])
    BY <1>1, <2>3 DEF Becomes, GroupsOK
  <2>6. TxsOK(use'[c])
    BY <1>1, <2>3 DEF Becomes, TxsOK
  <2> QED
    BY <2>3, <2>4, <2>5, <2>6, PlanRests DEF Becomes, PlanInv
<1>8. CASE ~back
  <2> DEFINE v == [u EXCEPT !.per = per, !.gas = total, !.groups = gs, !.at = "waiting"]
  <2>1. v = [at |-> "waiting", kind |-> u.kind, batch |-> u.batch, per |-> per, gas |-> total,
             groups |-> gs, fee |-> u.fee, nonce |-> u.nonce, txs |-> u.txs]
    <3>1. u = [at |-> u.at, kind |-> u.kind, batch |-> u.batch, per |-> u.per, gas |-> u.gas,
               groups |-> u.groups, fee |-> u.fee, nonce |-> u.nonce, txs |-> u.txs]
      BY <1>1 DEF UseForm
    <3>2. PICK x, z : x = u /\ z = v
      OBVIOUS
    <3>3. x = [at |-> x.at, kind |-> x.kind, batch |-> x.batch, per |-> x.per, gas |-> x.gas,
               groups |-> x.groups, fee |-> x.fee, nonce |-> x.nonce, txs |-> x.txs]
      BY <3>1, <3>2
    <3>4. z = [x EXCEPT !.per = per, !.gas = total, !.groups = gs, !.at = "waiting"]
      BY <3>2
    <3>5. z = [at |-> "waiting", kind |-> x.kind, batch |-> x.batch, per |-> per, gas |-> total,
               groups |-> gs, fee |-> x.fee, nonce |-> x.nonce, txs |-> x.txs]
      BY <3>3, <3>4, FourWritten
    <3> QED
      BY <3>2, <3>5
  <2>2. use' = [use EXCEPT ![c] = v]
    BY <1>3, <1>8
  <2> HIDE DEF v
  <2>3. Becomes(c, "waiting", u.kind, u.batch, per, total, gs, u.fee, u.nonce, u.txs)
    BY <1>1, <2>1, <2>2, NineWritten
  <2>4. CallOK(use'[c])
    BY <1>1, <1>4, <2>3 DEF Becomes, CallOK
  <2>5. u.kind = "split" => gs # <<>> /\ Len(gs) > 1
    BY <1>6, <1>8
  <2>6. GroupsOK(use'[c])
    BY <1>1, <1>4, <1>5, <2>3, <2>5 DEF Becomes, GroupsOK
  <2>7. TxsOK(use'[c])
    <3>1. /\ use'[c].txs = <<>> /\ DOMAIN use'[c].txs = {} /\ Len(use'[c].txs) = 0
          /\ ~use'[c].nonce.held
      BY <1>2, <2>3 DEF Becomes
    <3>2. use'[c].kind = "split" => 0 < Len(use'[c].groups)
      BY <1>6, <2>3, <2>5 DEF Becomes
    <3> QED
      BY <2>3, <3>1, <3>2 DEF Becomes, TxsOK
  <2> QED
    BY <2>3, <2>4, <2>6, <2>7, PlanRests DEF Becomes, PlanInv
<1> QED
  BY <1>7, <1>8

LEMMA BatchIsSequence ==
    ASSUME PlanInv, NEW c \in Calls, use[c].at \notin {"new", "failed"}
    PROVE  /\ \E S : use[c].batch \in Seq(S)
           /\ use[c].batch # <<>> /\ Len(use[c].batch) \in Nat \ {0} /\ Convertible(use[c].batch)
<1>1. PICK w \in Works : use[c].batch = w.batch
  BY DEF PlanInv, CallOK
<1>2. w.batch \in Seq(Range(w.batch)) /\ w.batch # <<>>
  BY BatchAssumption
<1>3. Len(w.batch) \in Nat \ {0}
  BY <1>2, EmptySeq
<1> QED
  BY <1>1, <1>2, <1>3 DEF PlanInv, CallOK

LEMMA EstimateBatchPlans ==
    ASSUME Inv, PlanInv, NEW c \in Calls, NEW g \in Estimates, EstimateBatch(c, g)
    PROVE  PlanInv'
<1> DEFINE n == Len(use[c].batch)
           per == GasForNthCall(g \div n, n)
           total == (g * 115) \div 100
<1>1. n \in Nat \ {0}
  BY BatchIsSequence DEF EstimateBatch
<1>2. per \in Nat /\ total \in Nat
  BY <1>1, EstimateIsNatural
<1>3. /\ use' = [use EXCEPT ![c] = Planned(c, per, total)]
      /\ learned' = UpdateTokenGasCosts(use[c].batch, per)
      /\ use[c].at = "estimating" /\ use[c].kind # "single" /\ cachedFee' = cachedFee
  BY DEF EstimateBatch
<1> HIDE DEF per, total, n
<1>4. learned' \in [Tokens -> Nat]
  BY <1>2, <1>3, CostsAreNatural DEF PlanInv
<1> QED
  BY <1>2, <1>3, <1>4, PlannedPlans

LEMMA EstimateFailsPlans ==
    ASSUME Inv, PlanInv, NEW c \in Calls, EstimateFails(c)
    PROVE  PlanInv'
<1> DEFINE u == use[c]
<1>1. /\ FormOK /\ UseForm(c) /\ UseOK(c) /\ CallOK(u) /\ GroupsOK(u) /\ TxsOK(u)
      /\ u.at = "estimating" /\ learned' = learned /\ cachedFee' = cachedFee
  BY DEF Inv, FormOK, PlanInv, EstimateFails
<1>2. CASE u.kind = "single"
  <2> DEFINE v == [u EXCEPT !.at = "failed"]
  <2>1. v = [at |-> "failed", kind |-> u.kind, batch |-> u.batch, per |-> u.per, gas |-> u.gas,
             groups |-> u.groups, fee |-> u.fee, nonce |-> u.nonce, txs |-> u.txs]
    BY <1>1 DEF UseForm
  <2>2. use' = [use EXCEPT ![c] = v]
    BY <1>2 DEF EstimateFails
  <2> HIDE DEF v
  <2>3. Becomes(c, "failed", u.kind, u.batch, u.per, u.gas, u.groups, u.fee, u.nonce, u.txs)
    BY <1>1, <2>1, <2>2, NineWritten
  <2>4. u.txs = <<>>
    BY <1>1 DEF UseOK
  <2>5. CallOK(use'[c])
    BY <1>1, <2>3 DEF Becomes, CallOK
  <2>6. GroupsOK(use'[c])
    BY <1>1, <2>3 DEF Becomes, GroupsOK
  <2>7. TxsOK(use'[c])
    BY <1>1, <2>3, <2>4 DEF Becomes, TxsOK
  <2> QED
    BY <1>1, <2>3, <2>5, <2>6, <2>7, PlanRests DEF Becomes, PlanInv
<1>3. CASE u.kind # "single"
  <2>1. use' = [use EXCEPT ![c] = Planned(c, FallbackPerCall(u.batch), FallbackGas(u.batch))]
    BY <1>3 DEF EstimateFails
  <2>2. learned \in [Tokens -> Nat]
    BY DEF PlanInv
  <2>3. FallbackPerCall(u.batch) \in Nat /\ FallbackGas(u.batch) \in Nat
    BY <1>1, <2>2, BatchIsSequence, FallbackIsNatural
  <2> QED
    BY <1>1, <1>3, <2>1, <2>2, <2>3, PlannedPlans
<1> QED
  BY <1>2, <1>3

LEMMA TakeNoncePlans ==
    ASSUME Inv, PlanInv, NEW c \in Calls, TakeNonce(c)
    PROVE  PlanInv'
<1> DEFINE u == use[c]
           a == IF u.kind = "single" THEN "signing" ELSE "pricing"
           n == Held(nextNonce)
           v == [u EXCEPT !.nonce = n, !.at = a]
<1>1. /\ FormOK /\ UseForm(c) /\ CallOK(u) /\ GroupsOK(u) /\ TxsOK(u)
      /\ u.at = "waiting" /\ learned' = learned /\ cachedFee' = cachedFee
  BY DEF Inv, FormOK, PlanInv, TakeNonce, MayTakeNonce
<1>2. use' = [use EXCEPT ![c] = v]
  BY <1>1 DEF TakeNonce, UseForm
<1> HIDE DEF a, n
<1>3. v = [at |-> a, kind |-> u.kind, batch |-> u.batch, per |-> u.per, gas |-> u.gas,
           groups |-> u.groups, fee |-> u.fee, nonce |-> n, txs |-> u.txs]
  <2>1. Nine(u)
    BY <1>1 DEF UseForm, Nine
  <2> HIDE DEF u
  <2> QED
    BY <2>1, NonceWritten
<1> HIDE DEF v
<1>4. Becomes(c, a, u.kind, u.batch, u.per, u.gas, u.groups, u.fee, n, u.txs)
  BY <1>1, <1>2, <1>3, NineWritten
<1>5. a \in {"signing", "pricing"}
  BY DEF a
<1>6. \A k \in DOMAIN u.txs : u.txs[k].nonce < nextNonce
  <2>1. \A k \in DOMAIN u.txs : u.txs[k].nonce \in 0..(nextNonce - 1)
    BY DEF Inv, PlacesOK, AllOf, NoncesOf
  <2> QED
    BY <2>1 DEF Inv, FormOK
<1>7. CallOK(use'[c])
  BY <1>1, <1>4, <1>5 DEF Becomes, CallOK
<1>8. GroupsOK(use'[c])
  BY <1>1, <1>4, <1>5 DEF Becomes, GroupsOK
<1>9. TxsOK(use'[c])
  <2>1. use'[c].nonce.n = nextNonce
    BY <1>4 DEF Becomes, n, Held
  <2> QED
    BY <1>1, <1>4, <1>5, <1>6, <2>1 DEF Becomes, TxsOK
<1> QED
  BY <1>1, <1>4, <1>7, <1>8, <1>9, PlanRests DEF Becomes, PlanInv

LEMMA PricedPlans ==
    ASSUME Inv, PlanInv, NEW c \in Calls, NEW fee \in Nat, use[c].at \in {"pricing", "fetching"},
           Priced(c, fee), learned' = learned, cachedFee' \in Prices \cup {0}
    PROVE  PlanInv'
<1> DEFINE u == use[c]
           a == IF u.kind = "single" THEN "waiting" ELSE "signing"
           f == (fee * 110) \div 100
           v == [u EXCEPT !.fee = f, !.at = a]
<1>1. FormOK /\ UseForm(c)
  BY DEF Inv, FormOK
<1>2. f \in Nat
  OBVIOUS
<1> HIDE DEF f
<1>3. use' = [use EXCEPT ![c] = v]
  BY <1>1 DEF Priced, UseForm, f
<1> HIDE DEF a
<1>4. v = [at |-> a, kind |-> u.kind, batch |-> u.batch, per |-> u.per, gas |-> u.gas,
           groups |-> u.groups, fee |-> f, nonce |-> u.nonce, txs |-> u.txs]
  <2>1. Nine(u)
    BY <1>1 DEF UseForm, Nine
  <2> HIDE DEF u
  <2> QED
    BY <2>1, FeeWritten
<1> HIDE DEF v
<1>5. Becomes(c, a, u.kind, u.batch, u.per, u.gas, u.groups, f, u.nonce, u.txs)
  BY <1>1, <1>3, <1>4, NineWritten
<1>6. a \in {"waiting", "signing"} /\ u.gas \in Nat
  BY DEF a, PlanInv, CallOK
<1> QED
  BY <1>2, <1>5, <1>6, GoesOn

LEMMA AskPricePlans ==
    ASSUME Inv, PlanInv, NEW c \in Calls, AskPrice(c)
    PROVE  PlanInv'
<1> DEFINE u == use[c]
           v == [u EXCEPT !.at = "fetching"]
<1>1. FormOK /\ UseForm(c) /\ u.gas \in Nat /\ u.fee \in Nat
  BY DEF Inv, FormOK, PlanInv, CallOK
<1>2. use' = [use EXCEPT ![c] = v]
  BY <1>1 DEF AskPrice, UseForm
<1>3. v = [at |-> "fetching", kind |-> u.kind, batch |-> u.batch, per |-> u.per, gas |-> u.gas,
           groups |-> u.groups, fee |-> u.fee, nonce |-> u.nonce, txs |-> u.txs]
  BY <1>1 DEF UseForm
<1> HIDE DEF v
<1>4. Becomes(c, "fetching", u.kind, u.batch, u.per, u.gas, u.groups, u.fee, u.nonce, u.txs)
  BY <1>1, <1>2, <1>3, NineWritten
<1> QED
  BY <1>1, <1>4, GoesOn DEF AskPrice, PlanInv

LEMMA ThrowPlans ==
    ASSUME Inv, PlanInv, NEW c \in Calls, Throw(c), learned' = learned, cachedFee' = cachedFee
    PROVE  PlanInv'
<1> DEFINE u == use[c]
           e == <<>>
           v == [u EXCEPT !.txs = e, !.nonce = NoNonce, !.at = "failed"]
<1>1. FormOK /\ UseForm(c) /\ CallOK(u) /\ GroupsOK(u)
  BY DEF Inv, FormOK, PlanInv
<1>2. use' = [use EXCEPT ![c] = v]
  BY <1>1 DEF Throw, UseForm
<1> HIDE DEF e
<1>3. v = [at |-> "failed", kind |-> u.kind, batch |-> u.batch, per |-> u.per, gas |-> u.gas,
           groups |-> u.groups, fee |-> u.fee, nonce |-> NoNonce, txs |-> e]
  <2>1. Nine(u)
    BY <1>1 DEF UseForm, Nine
  <2> HIDE DEF u
  <2> QED
    BY <2>1, ThreeWritten
<1> HIDE DEF v
<1>4. Becomes(c, "failed", u.kind, u.batch, u.per, u.gas, u.groups, u.fee, NoNonce, e)
  BY <1>1, <1>2, <1>3, NineWritten
<1>5. CallOK(use'[c])
  BY <1>1, <1>4 DEF Becomes, CallOK
<1>6. GroupsOK(use'[c])
  BY <1>1, <1>4 DEF Becomes, GroupsOK
<1>7. TxsOK(use'[c])
  <2>1. use'[c].txs = <<>> /\ DOMAIN use'[c].txs = {} /\ ~use'[c].nonce.held
    BY <1>4 DEF Becomes, e, NoNonce
  <2> QED
    BY <1>4, <2>1 DEF Becomes, TxsOK
<1> QED
  BY <1>4, <1>5, <1>6, <1>7, PlanRests DEF Becomes, PlanInv

\* One transaction more, with a higher nonce
LEMMA TxsAppend ==
    ASSUME NEW R, NEW s \in Seq(R), NEW x, NEW t, t = Append(s, x)
    PROVE  /\ Len(s) \in Nat /\ DOMAIN s = 1..Len(s)
           /\ Len(t) = Len(s) + 1 /\ DOMAIN t = 1..(Len(s) + 1)
           /\ t[Len(s) + 1] = x /\ \A k \in 1..Len(s) : t[k] = s[k]
<1>1. s \in Seq(R \cup {x})
  OBVIOUS
<1> QED
  BY <1>1

LEMMA SignNextPlans ==
    ASSUME Inv, PlanInv, NEW c \in Calls, SignNext(c)
    PROVE  PlanInv'
<1> DEFINE u == use[c]
           L == Len(u.txs)
           x == Content(c)
           t == Append(u.txs, x)
           more == u.kind = "split" /\ L + 1 < Len(u.groups)
           a == IF more THEN "waiting" ELSE "done"
           v == [u EXCEPT !.txs = t, !.nonce = NoNonce, !.at = a]
<1>1. /\ FormOK /\ UseForm(c) /\ UseOK(c) /\ CallOK(u) /\ GroupsOK(u) /\ TxsOK(u)
      /\ u.at = "signing" /\ learned' = learned /\ cachedFee' = cachedFee
  BY DEF Inv, FormOK, PlanInv, SignNext
<1>2. /\ x.nonce = u.nonce.n /\ u.nonce.held
      /\ u.kind # "split" => x.transfers = u.batch
      /\ u.kind = "split" => x.transfers = u.groups[L + 1].transfers
  BY <1>1 DEF Content, UseOK
<1> HIDE DEF x
<1>3. /\ L \in Nat /\ DOMAIN u.txs = 1..L
      /\ Len(t) = L + 1 /\ DOMAIN t = 1..(L + 1)
      /\ t[L + 1] = x /\ \A k \in 1..L : t[k] = u.txs[k]
  <2>1. PICK R : u.txs \in Seq(R)
    BY <1>1 DEF UseForm
  <2> HIDE DEF t, u
  <2> QED
    BY <2>1, TxsAppend DEF t
<1>4. use' = [use EXCEPT ![c] = v]
  BY <1>1 DEF SignNext, UseForm, x
<1> HIDE DEF t, a
<1>5. v = [at |-> a, kind |-> u.kind, batch |-> u.batch, per |-> u.per, gas |-> u.gas,
           groups |-> u.groups, fee |-> u.fee, nonce |-> NoNonce, txs |-> t]
  <2>1. Nine(u)
    BY <1>1 DEF UseForm, Nine
  <2> HIDE DEF u
  <2> QED
    BY <2>1, ThreeWritten
<1> HIDE DEF v
<1>6. Becomes(c, a, u.kind, u.batch, u.per, u.gas, u.groups, u.fee, NoNonce, t)
  BY <1>1, <1>4, <1>5, NineWritten
<1>7. a \in {"waiting", "done"} /\ (a = "waiting" <=> more)
  BY DEF a
<1>8. CallOK(use'[c])
  BY <1>1, <1>6, <1>7 DEF Becomes, CallOK
<1>9. GroupsOK(use'[c])
  BY <1>1, <1>6, <1>7 DEF Becomes, GroupsOK
<1>10. u.kind = "split" => Len(u.groups) \in Nat /\ L < Len(u.groups)
  <2> SUFFICES ASSUME u.kind = "split"
              PROVE  Len(u.groups) \in Nat /\ L < Len(u.groups)
    OBVIOUS
  <2>1. u.groups # <<>> /\ L < Len(u.groups)
    BY <1>1 DEF GroupsOK, TxsOK
  <2>2. PICK S : Cut(u.groups, S, u.batch, Len(u.batch), u.per)
    <3> HIDE DEF u
    <3> QED
      BY <1>1, <2>1, GroupsAreCut
  <2>3. u.groups \in Seq(Groups(S))
    BY <2>2 DEF Cut
  <2> QED
    BY <2>1, <2>3
<1>11. \A j, k \in 1..(L + 1) : j < k => t[j].nonce < t[k].nonce
  <2> SUFFICES ASSUME NEW j \in 1..(L + 1), NEW k \in 1..(L + 1), j < k
              PROVE  t[j].nonce < t[k].nonce
    OBVIOUS
  <2>1. j \in 1..L /\ t[j] = u.txs[j]
    BY <1>3
  <2>2. CASE k = L + 1
    <3>1. u.txs[j].nonce < u.nonce.n
      BY <1>1, <1>2, <1>3, <2>1 DEF TxsOK
    <3> QED
      BY <1>2, <1>3, <2>1, <2>2, <3>1
  <2>3. CASE k # L + 1
    <3>1. k \in 1..L
      BY <1>3, <2>3
    <3> QED
      BY <1>1, <1>3, <2>1, <3>1 DEF TxsOK
  <2> QED
    BY <2>2, <2>3
<1>12. u.kind = "split" => \A k \in 1..(L + 1) : t[k].transfers = u.groups[k].transfers
  <2> SUFFICES ASSUME u.kind = "split", NEW k \in 1..(L + 1)
              PROVE  t[k].transfers = u.groups[k].transfers
    OBVIOUS
  <2>1. CASE k = L + 1
    BY <1>2, <1>3, <2>1
  <2>2. CASE k # L + 1
    <3>1. k \in 1..L
      BY <1>3, <2>2
    <3> QED
      BY <1>1, <1>3, <3>1 DEF TxsOK
  <2> QED
    BY <2>1, <2>2
<1>13. u.kind # "split" => Len(t) = 1 /\ t[1].transfers = u.batch
  <2> SUFFICES ASSUME u.kind # "split"
              PROVE  Len(t) = 1 /\ t[1].transfers = u.batch
    OBVIOUS
  <2>1. u.txs = <<>>
    BY <1>1 DEF UseOK
  <2>2. L = 0
    BY <2>1
  <2> QED
    BY <1>2, <1>3, <2>2
<1>14. /\ more => Len(t) < Len(u.groups)
       /\ u.kind = "split" /\ ~more => Len(t) = Len(u.groups)
  BY <1>3, <1>10
<1>15. TxsOK(use'[c])
  <2>1. /\ use'[c].txs = t /\ use'[c].kind = u.kind /\ use'[c].at = a /\ use'[c].batch = u.batch
        /\ use'[c].groups = u.groups /\ ~use'[c].nonce.held
    BY <1>6 DEF Becomes, NoNonce
  <2> HIDE DEF u, L, more
  <2>2. a = "waiting" => u.kind = "split" /\ Len(t) < Len(u.groups)
    BY <1>7, <1>14 DEF more
  <2>3. a = "done" /\ u.kind = "split" => Len(t) = Len(u.groups)
    BY <1>7, <1>14
  <2> QED
    BY <1>3, <1>7, <1>11, <1>12, <1>13, <2>1, <2>2, <2>3 DEF TxsOK
<1> QED
  BY <1>1, <1>6, <1>8, <1>9, <1>15, PlanRests DEF Becomes, PlanInv

LEMMA PlanInitHolds == BatchInit => PlanInv
<1> SUFFICES ASSUME BatchInit
             PROVE  PlanInv
  OBVIOUS
<1>1. learned \in [Tokens -> Nat] /\ cachedFee \in Prices \cup {0}
  BY DEF BatchInit
<1>2. ASSUME NEW c \in Calls
      PROVE  CallOK(use[c]) /\ GroupsOK(use[c]) /\ TxsOK(use[c])
  <2>1. use[c] = NewCall
    BY DEF BatchInit
  <2>2. /\ use[c].at = "new" /\ use[c].kind = "batch" /\ use[c].batch = <<>>
        /\ use[c].per = 0 /\ use[c].gas = 0 /\ use[c].fee = 0 /\ use[c].groups = <<>>
        /\ use[c].nonce = NoNonce /\ use[c].txs = <<>>
    BY <2>1 DEF NewCall
  <2>3. DOMAIN use[c].txs = {} /\ ~use[c].nonce.held
    BY <2>2 DEF NoNonce
  <2> QED
    BY <2>2, <2>3 DEF CallOK, GroupsOK, TxsOK
<1> QED
  BY <1>1, <1>2 DEF PlanInv

LEMMA PlanUnmoved ==
    ASSUME PlanInv, use' = use, learned' = learned, cachedFee' \in Prices \cup {0}
    PROVE  PlanInv'
BY DEF PlanInv

LEMMA PlanNextHolds == Inv /\ PlanInv /\ [BatchNext]_batchVars => PlanInv'
<1> SUFFICES ASSUME Inv, PlanInv, [BatchNext]_batchVars
             PROVE  PlanInv'
  OBVIOUS
<1>1. CASE UNCHANGED batchVars
  BY <1>1, PlanUnmoved DEF batchVars, PlanInv
<1>2. ASSUME NEW c \in Calls, NEW w \in Works, Begin(c, w)
      PROVE  PlanInv'
  BY <1>2, BeginPlans
<1>3. ASSUME NEW c \in Calls, NEW g \in Estimates, EstimateSingle(c, g) \/ EstimateBatch(c, g)
      PROVE  PlanInv'
  BY <1>3, EstimateSinglePlans, EstimateBatchPlans
<1>4. ASSUME NEW c \in Calls, EstimateFails(c) \/ TakeNonce(c) \/ AskPrice(c) \/ SignNext(c)
      PROVE  PlanInv'
  BY <1>4, EstimateFailsPlans, TakeNoncePlans, AskPricePlans, SignNextPlans
<1>5. ASSUME NEW c \in Calls, UseCachedPrice(c)
      PROVE  PlanInv'
  <2>1. cachedFee \in Nat /\ cachedFee' = cachedFee
    BY <1>5, BatchAssumption DEF PlanInv, UseCachedPrice
  <2> QED
    BY <1>5, <2>1, PricedPlans DEF UseCachedPrice, PlanInv
<1>6. ASSUME NEW c \in Calls, NEW fee \in Prices, FetchPrice(c, fee)
      PROVE  PlanInv'
  <2>1. fee \in Nat
    BY BatchAssumption
  <2> QED
    BY <1>6, <2>1, PricedPlans DEF FetchPrice
<1>7. ASSUME NEW c \in Calls, FailBefore(c) \/ FailAfter(c) \/ FailSplit(c)
      PROVE  PlanInv'
  BY <1>7, ThrowPlans DEF FailBefore, FailAfter, FailSplit
<1>8. CASE ExpirePrice
  BY <1>8, PlanUnmoved DEF ExpirePrice, PlanInv
<1> QED
  BY <1>1, <1>2, <1>3, <1>4, <1>5, <1>6, <1>7, <1>8 DEF BatchNext

----------------------------------------------------------------------------

LEMMA PlanInvariance == BatchSpec => [](Inv /\ PlanInv)
<1>1. BatchInit => Inv /\ PlanInv
  BY InitHolds, PlanInitHolds
<1>2. (Inv /\ PlanInv) /\ [BatchNext]_batchVars => (Inv /\ PlanInv)'
  BY NextHolds, PlanNextHolds
<1> QED
  BY <1>1, <1>2, PTL DEF BatchSpec

\* The variables of the signer keep their types, in particular every cost, gas
\* and fee it computes is a natural number (estimateBatchGas, getGasForNthCall).
THEOREM BatchTypeCorrect == BatchSpec => []BatchTypeOK
<1>1. Inv /\ LossOK /\ PlanInv => BatchTypeOK
  <2> SUFFICES ASSUME Inv, LossOK, PlanInv
              PROVE  BatchTypeOK
    OBVIOUS
  <2>1. nextNonce \in Nat /\ spare \cup lost \cup refused \subseteq 0..(nextNonce - 1)
    BY DEF Inv, FormOK, PlacesOK, LossOK
  <2>2. ASSUME NEW c \in Calls
        PROVE  CallOK(use[c])
    BY DEF PlanInv
  <2> QED
    BY <2>1, <2>2 DEF BatchTypeOK, PlanInv, CallOK
<1> QED
  BY <1>1, PlanInvariance, LossInv, PTL

\* The groups a batch is split into are the batch, cut in order, within the limits
\* of gas and amounts, and cut only where the next call would not fit
\* (splitIntoBatches), for any batch, any costs and any limits.
THEOREM SplitsAreSound == BatchSpec => []SplitSound
<1>1. PlanInv => SplitSound
  <2> SUFFICES ASSUME PlanInv, NEW c \in Calls, use[c].groups # <<>>
              PROVE  LET groups == use[c].groups
                     IN  /\ FlattenSeq([k \in DOMAIN groups |-> groups[k].transfers]) = use[c].batch
                         /\ \A k \in DOMAIN groups :
                              /\ groups[k].transfers # <<>>
                              /\ Len(groups[k].transfers) > 1 => groups[k].gas <= MaxBatchGas
                              /\ \A t \in Tokens : Unlimited(t) \/ TotalOf(groups[k].transfers, t) <= MaxTransfer[t]
                              /\ k < Len(groups) =>
                                   ExceedsGasLimit(groups[k], GasForNthCall(use[c].per, Len(groups[k].transfers)))
    BY DEF SplitSound
  <2> DEFINE u == use[c]
             gs == u.groups
  <2>1. CallOK(u) /\ GroupsOK(u)
    BY DEF PlanInv
  <2>2. PICK S : /\ Transfers(S) /\ Cut(gs, S, u.batch, Len(u.batch), u.per)
                 /\ u.batch \in Seq(S) /\ u.batch # <<>>
    <3> HIDE DEF u
    <3> QED
      BY <2>1, GroupsAreCut DEF u
  <2>3. Prefix(u.batch, Len(u.batch)) = u.batch /\ Len(u.batch) # 0
    BY <2>2, PrefixEnds, EmptySeq
  <2>4. DOMAIN gs = 1..Len(gs) /\ \A k \in 1..Len(gs) : gs[k] \in Groups(S)
    BY <2>2 DEF Cut
  <2>5. FlattenSeq([k \in DOMAIN gs |-> gs[k].transfers]) = u.batch
    BY <2>2, <2>3 DEF Cut, TransfersOf
  <2>6. ValidBatch(u.batch)
    BY <2>1 DEF GroupsOK
  <2>7. ASSUME NEW k \in 1..Len(gs), NEW t \in Tokens
        PROVE  Unlimited(t) \/ TotalOf(gs[k].transfers, t) <= MaxTransfer[t]
    <3>1. TotalOf(gs[k].transfers, t) <= TotalOf(u.batch, t)
      BY <2>2, <2>3 DEF Cut
    <3>2. TotalOf(gs[k].transfers, t) \in Nat /\ TotalOf(u.batch, t) \in Nat
      <4>1. gs[k].transfers \in Seq(S)
        BY <2>4 DEF Groups
      <4>2. u.batch[1] \in S
        BY <2>2, EmptySeq
      <4> QED
        BY <2>2, <4>1, <4>2, TotalAppend
    <3>3. MaxTransfer[t] \in Nat
      BY BatchAssumption
    <3>4. CASE t \in TokensOf(u.batch)
      BY <2>6, <3>1, <3>2, <3>3, <3>4 DEF ValidBatch
    <3>5. CASE t \notin TokensOf(u.batch)
      <4>1. \A n \in 1..Len(u.batch) : AmountOf(u.batch[n], t) = 0
        BY <2>2, <3>5 DEF AmountOf, TokensOf
      <4>2. TotalOf(u.batch, t) = 0
        BY <2>2, <4>1, TotalOfOthers
      <4> QED
        BY <3>1, <3>2, <3>3, <4>2
    <3> QED
      BY <3>4, <3>5
  <2> HIDE DEF gs
  <2>8. ASSUME NEW k \in 1..Len(gs)
        PROVE  /\ gs[k].transfers # <<>>
               /\ Len(gs[k].transfers) > 1 => gs[k].gas <= MaxBatchGas
               /\ k < Len(gs) => ExceedsGasLimit(gs[k], GasForNthCall(u.per, Len(gs[k].transfers)))
    BY <2>2, <2>3 DEF Cut
  <2> QED
    BY <2>4, <2>5, <2>7, <2>8 DEF gs
<1> QED
  BY <1>1, PlanInvariance, PTL

\* A call that ends well returns transactions for every transfer of its batch, once
\* and in order, with rising nonces; one that fails returns none
\* (signBatchTransaction, signBatchTransactionWithSplitting, signTransaction).
THEOREM ReturnsAreComplete == BatchSpec => []ReturnedComplete
<1>1. Inv /\ PlanInv => ReturnedComplete
  <2> SUFFICES ASSUME Inv, PlanInv, NEW c \in Calls
              PROVE  LET txs == use[c].txs
                     IN  /\ use[c].at = "failed" => txs = <<>>
                         /\ use[c].at = "done" =>
                              /\ FlattenSeq([k \in DOMAIN txs |-> txs[k].transfers]) = use[c].batch
                              /\ \A j, k \in DOMAIN txs : j < k => txs[j].nonce < txs[k].nonce
    BY DEF ReturnedComplete
  <2> DEFINE u == use[c]
             txs == u.txs
  <2>1. CallOK(u) /\ GroupsOK(u) /\ TxsOK(u) /\ UseForm(c)
    BY DEF PlanInv, Inv, FormOK
  <2>2. DOMAIN txs = 1..Len(txs)
    BY <2>1 DEF UseForm
  <2>3. CASE u.at = "done" /\ u.kind = "split"
    <3>1. u.groups # <<>> /\ Len(txs) = Len(u.groups)
          /\ \A k \in DOMAIN txs : txs[k].transfers = u.groups[k].transfers
      BY <2>1, <2>3 DEF GroupsOK, TxsOK
    <3>2. PICK S : /\ Cut(u.groups, S, u.batch, Len(u.batch), u.per) /\ u.batch \in Seq(S)
      <4> HIDE DEF u
      <4> QED
        BY <2>1, <3>1, GroupsAreCut
    <3>3. DOMAIN u.groups = DOMAIN txs
      BY <2>2, <3>1, <3>2 DEF Cut
    <3>4. [k \in DOMAIN txs |-> txs[k].transfers] = TransfersOf(u.groups)
      BY <3>1, <3>3 DEF TransfersOf
    <3>5. FlattenSeq(TransfersOf(u.groups)) = u.batch
      BY <3>2, PrefixEnds DEF Cut
    <3> QED
      BY <2>1, <2>3, <3>4, <3>5 DEF TxsOK
  <2>4. CASE u.at = "done" /\ u.kind # "split"
    <3>1. Len(txs) = 1 /\ txs[1].transfers = u.batch
      BY <2>1, <2>4 DEF TxsOK
    <3>2. PICK S : u.batch \in Seq(S)
      BY <2>4, BatchIsSequence
    <3>3. [k \in DOMAIN txs |-> txs[k].transfers] = <<u.batch>>
      BY <2>2, <3>1
    <3>4. FlattenSeq(<<u.batch>>) = u.batch
      <4> HIDE DEF u
      <4> QED
        BY <3>2, FlattenOne
    <3> QED
      BY <2>1, <2>4, <3>3, <3>4 DEF TxsOK
  <2>5. CASE u.at # "done"
    BY <2>1, <2>5 DEF TxsOK
  <2> QED
    BY <2>3, <2>4, <2>5
<1> QED
  BY <1>1, PlanInvariance, PTL

----------------------------------------------------------------------------
(* The pending list: who is inside *)

IsInside(r) == round[r].at \in Inside

\* The runs of processAddressQueue are records of their three parts
RoundForm ==
    /\ DOMAIN round = Rounds
    /\ round = [r \in Rounds |->
                   [at |-> round[r].at, tx |-> round[r].tx, read |-> round[r].read]]

\* Run r is at a place with a transaction and a list, the others stay as they are
RoundAt(r, at, tx, read) ==
    /\ RoundForm'
    /\ round'[r] = [at |-> at, tx |-> tx, read |-> read]
    /\ \A q \in Rounds : q # r => round'[q] = round[q]

LEMMA GotoPlaces ==
    ASSUME RoundForm, NEW r \in Rounds, NEW at, Goto(r, at)
    PROVE  RoundAt(r, at, round[r].tx, round[r].read)
<1> DEFINE old == round[r]
<1>1. old = [at |-> old.at, tx |-> old.tx, read |-> old.read]
  BY DEF RoundForm
<1>2. [old EXCEPT !.at = at] = [at |-> at, tx |-> old.tx, read |-> old.read]
  BY <1>1
<1>3. round' = [round EXCEPT ![r] = [old EXCEPT !.at = at]]
  BY DEF Goto
<1>4. round' = [round EXCEPT ![r] = [at |-> at, tx |-> round[r].tx, read |-> round[r].read]]
  BY <1>2, <1>3
<1> QED
  BY <1>4 DEF RoundForm, RoundAt

LEMMA EndPlaces ==
    ASSUME RoundForm, NEW r \in Rounds, EndRound(r)
    PROVE  RoundAt(r, "idle", {}, <<>>)
BY DEF EndRound, Resting, RoundForm, RoundAt

LEMMA ReadPlaces ==
    ASSUME RoundForm, NEW r \in Rounds, RemoveRead(r)
    PROVE  RoundAt(r, "writing", round[r].tx, list)
<1> DEFINE old == round[r]
           mid == [old EXCEPT !.at = "writing"]
           new == [mid EXCEPT !.read = list]
<1>1. old = [at |-> old.at, tx |-> old.tx, read |-> old.read]
  BY DEF RoundForm
<1>2. mid = [at |-> "writing", tx |-> old.tx, read |-> old.read]
  BY <1>1
<1>3. new = [at |-> "writing", tx |-> old.tx, read |-> list]
  <2> HIDE DEF mid
  <2> QED
    BY <1>2
<1>4. round' = [round EXCEPT ![r] = [at |-> "writing", tx |-> round[r].tx, read |-> list]]
  <2>1. round' = [round EXCEPT ![r] = new]
    BY DEF RemoveRead, RoundForm
  <2> QED
    BY <1>3, <2>1
<1> HIDE DEF new
<1> QED
  BY <1>4 DEF RoundForm, RoundAt

\* Whoever is inside holds the lock, until one expires
InsideLocked == overran \/ \A r \in Rounds : IsInside(r) => addressLock

ListInv == RoundForm /\ overran \in BOOLEAN /\ AddressExclusive /\ InsideLocked

\* Run r goes to a place, the others stay where they are
MovedTo(r, at) ==
    /\ RoundForm'
    /\ \A q \in Rounds : round'[q].at = (IF q = r THEN at ELSE round[q].at)

LEMMA GotoMoves ==
    ASSUME RoundForm, NEW r \in Rounds, NEW at, Goto(r, at)
    PROVE  MovedTo(r, at)
<1>1. RoundAt(r, at, round[r].tx, round[r].read)
  BY GotoPlaces
<1>2. \A q \in Rounds : round'[q].at = (IF q = r THEN at ELSE round[q].at)
  BY <1>1 DEF RoundAt
<1> QED
  BY <1>1, <1>2 DEF RoundAt, MovedTo

LEMMA EndMoves ==
    ASSUME RoundForm, NEW r \in Rounds, EndRound(r)
    PROVE  MovedTo(r, "idle")
BY DEF EndRound, Resting, RoundForm, MovedTo

----------------------------------------------------------------------------
(* The ways in which a step touches the address *)

\* A run comes in through the free lock
Enters(r, at) ==
    /\ MovedTo(r, at) /\ ~addressLock /\ addressLock' /\ UNCHANGED overran

\* A run goes out and frees it
Leaves(r, at) ==
    /\ MovedTo(r, at) /\ IsInside(r) /\ at \notin Inside
    /\ addressLock' = FALSE /\ UNCHANGED overran

LEMMA StaysKeeps ==
    ASSUME ListInv, NEW r \in Rounds, NEW at, MovedTo(r, at), at \in Inside => IsInside(r),
           UNCHANGED <<addressLock, overran>>
    PROVE  ListInv'
<1>1. \A q \in Rounds : round'[q].at \in Inside => round[q].at \in Inside
  BY DEF MovedTo, IsInside
<1>2. AddressExclusive'
  BY <1>1 DEF ListInv, AddressExclusive
<1>3. InsideLocked'
  BY <1>1 DEF ListInv, InsideLocked, IsInside
<1> QED
  BY <1>2, <1>3 DEF ListInv, MovedTo

LEMMA EntersKeeps ==
    ASSUME ListInv, NEW r \in Rounds, NEW at, Enters(r, at)
    PROVE  ListInv'
<1>1. overran \/ \A q \in Rounds : round[q].at \notin Inside
  BY DEF ListInv, InsideLocked, Enters, IsInside
<1>2. overran' \/ \A q \in Rounds : round'[q].at \in Inside => q = r
  BY <1>1 DEF Enters, MovedTo
<1>3. AddressExclusive'
  BY <1>2 DEF AddressExclusive
<1> QED
  BY <1>3 DEF ListInv, InsideLocked, Enters, MovedTo

LEMMA LeavesKeeps ==
    ASSUME ListInv, NEW r \in Rounds, NEW at, Leaves(r, at)
    PROVE  ListInv'
<1>1. overran \/ \A q \in Rounds : round[q].at \in Inside => q = r
  BY DEF ListInv, AddressExclusive, Leaves, IsInside
<1>2. overran' \/ \A q \in Rounds : round'[q].at \notin Inside
  BY <1>1 DEF Leaves, MovedTo
<1> QED
  BY <1>2 DEF ListInv, AddressExclusive, InsideLocked, IsInside, Leaves, MovedTo

----------------------------------------------------------------------------
(* The steps *)

LEMMA ListInitHolds == PendingInit => ListInv
<1> SUFFICES ASSUME PendingInit
             PROVE  ListInv
  OBVIOUS
<1>1. \A r \in Rounds : round[r].at \notin Inside
  BY DEF PendingInit, Resting, Inside
<1>2. RoundForm
  BY DEF PendingInit, Resting, RoundForm
<1>3. AddressExclusive /\ InsideLocked /\ overran \in BOOLEAN
  BY <1>1 DEF AddressExclusive, InsideLocked, IsInside, PendingInit
<1> QED
  BY <1>2, <1>3 DEF ListInv

\* The steps before the lock.
LEMMA LookingSteps ==
    ASSUME ListInv, NEW r \in Rounds, Peek(r) \/ CheckFree(r) \/ CheckSequence(r)
    PROVE  ListInv'
<1> USE DEF ListInv
<1>1. CASE Peek(r)
  <2>1. MovedTo(r, "peeked")
    BY <1>1 DEF Peek, RoundForm, MovedTo
  <2> QED
    BY <1>1, <2>1, StaysKeeps DEF Peek, Inside
<1>2. CASE CheckFree(r)
  <2>1. MovedTo(r, "idle") \/ MovedTo(r, "free")
    BY <1>2, GotoMoves, EndMoves DEF CheckFree
  <2> QED
    BY <1>2, <2>1, StaysKeeps DEF CheckFree, Inside
<1>3. CASE CheckSequence(r)
  <2>1. MovedTo(r, "idle") \/ MovedTo(r, "next")
    BY <1>3, GotoMoves, EndMoves DEF CheckSequence
  <2> QED
    BY <1>3, <2>1, StaysKeeps DEF CheckSequence, Inside
<1> QED
  BY <1>1, <1>2, <1>3

\* startProcessing: in through the free lock, or back.
LEMMA LockStep ==
    ASSUME ListInv, NEW r \in Rounds, LockAddress(r)
    PROVE  ListInv'
<1> USE DEF ListInv
<1>1. CASE addressLock
  <2>1. MovedTo(r, "idle") /\ UNCHANGED <<addressLock, overran>>
    BY <1>1, EndMoves DEF LockAddress
  <2> QED
    BY <2>1, StaysKeeps DEF Inside
<1>2. CASE ~addressLock
  <2>1. MovedTo(r, "locked")
    BY <1>2, GotoMoves DEF LockAddress
  <2>2. Enters(r, "locked")
    BY <1>2, <2>1 DEF LockAddress, Enters
  <2> QED
    BY <2>2, EntersKeeps
<1> QED
  BY <1>1, <1>2

\* What a run does while it holds the address.
LEMMA HoldingSteps ==
    ASSUME ListInv, NEW r \in Rounds,
           \/ CheckSent(r) \/ Track(r) \/ SetLast(r) \/ RemoveRead(r)
           \/ RemoveWrite(r) \/ Unreadable(r)
    PROVE  ListInv'
<1> USE DEF ListInv
<1>1. IsInside(r) /\ UNCHANGED <<addressLock, overran>>
  BY DEF CheckSent, Track, SetLast, RemoveRead, RemoveWrite, Unreadable, WriteList, IsInside,
         Inside
<1>2. \E at : MovedTo(r, at)
  <2>1. CASE RemoveRead(r)
    <3>1. MovedTo(r, "writing")
      <4>1. RoundAt(r, "writing", round[r].tx, list)
        BY <2>1, ReadPlaces
      <4>2. \A q \in Rounds : round'[q].at = (IF q = r THEN "writing" ELSE round[q].at)
        BY <4>1 DEF RoundAt
      <4> QED
        BY <4>1, <4>2 DEF RoundAt, MovedTo
    <3> QED
      BY <3>1
  <2>2. CASE ~RemoveRead(r)
    <3>1. PICK at : Goto(r, at)
      BY <2>2 DEF CheckSent, Track, SetLast, RemoveWrite, Unreadable
    <3> QED
      BY <3>1, GotoMoves
  <2> QED
    BY <2>1, <2>2
<1> QED
  BY <1>1, <1>2, StaysKeeps

\* removeProcessingLock and the cleanup that may follow it.
LEMMA ReleaseSteps ==
    ASSUME ListInv, NEW r \in Rounds, Release(r) \/ Untrack(r)
    PROVE  ListInv'
<1> USE DEF ListInv
<1>1. CASE Release(r)
  <2>1. MovedTo(r, "untracking") \/ MovedTo(r, "idle")
    BY <1>1, GotoMoves, EndMoves DEF Release
  <2>2. Leaves(r, "untracking") \/ Leaves(r, "idle")
    BY <1>1, <2>1 DEF Release, Leaves, IsInside, Inside
  <2> QED
    BY <2>2, LeavesKeeps
<1>2. CASE Untrack(r)
  <2>1. MovedTo(r, "idle")
    BY <1>2, EndMoves DEF Untrack
  <2> QED
    BY <1>2, <2>1, StaysKeeps DEF Untrack, Inside
<1> QED
  BY <1>1, <1>2

\* What happens around the rounds leaves them where they are.
LEMMA OutsideSteps ==
    ASSUME ListInv, UNCHANGED round,
           UNCHANGED <<addressLock, overran>> \/ (overran' = TRUE)
    PROVE  ListInv'
<1>1. RoundForm' /\ overran' \in BOOLEAN
  BY DEF ListInv, RoundForm
<1>2. \A r \in Rounds : round'[r].at = round[r].at
  OBVIOUS
<1>3. AddressExclusive' /\ InsideLocked'
  BY <1>2 DEF ListInv, AddressExclusive, InsideLocked, IsInside
<1> QED
  BY <1>1, <1>3 DEF ListInv

LEMMA ListNextHolds == ListInv /\ [PendingNext]_pendingVars => ListInv'
<1> SUFFICES ASSUME ListInv, [PendingNext]_pendingVars
             PROVE  ListInv'
  OBVIOUS
<1>1. CASE UNCHANGED pendingVars
  BY <1>1, OutsideSteps DEF pendingVars
<1>2. ASSUME NEW a \in Adders, (\E t \in PendingTxs : AddRead(a, t)) \/ AddWrite(a)
      PROVE  ListInv'
  <2>1. UNCHANGED <<round, addressLock, overran>>
    BY <1>2 DEF AddRead, AddWrite
  <2> QED
    BY <2>1, OutsideSteps
<1>3. ASSUME NEW r \in Rounds,
             \/ Peek(r) \/ CheckFree(r) \/ CheckSequence(r) \/ LockAddress(r)
             \/ CheckSent(r) \/ Track(r) \/ SetLast(r) \/ RemoveRead(r)
             \/ RemoveWrite(r) \/ Unreadable(r) \/ Release(r) \/ Untrack(r)
      PROVE  ListInv'
  BY <1>3, LookingSteps, LockStep, HoldingSteps, ReleaseSteps
<1>4. ASSUME NEW t \in PendingTxs, TrackElsewhere(t) \/ SendElsewhere(t)
      PROVE  ListInv'
  <2>1. UNCHANGED <<round, addressLock, overran>>
    BY <1>4 DEF TrackElsewhere, SendElsewhere
  <2> QED
    BY <2>1, OutsideSteps
<1>5. CASE Expire
  BY <1>5, OutsideSteps DEF Expire
<1> QED
  BY <1>1, <1>2, <1>3, <1>4, <1>5 DEF PendingNext

----------------------------------------------------------------------------
(* Its theorem *)

\* No two runs of processAddressQueue, of one worker or of several, are between
\* startProcessing and the release of one address, unless a lock expired.
THEOREM AddressIsExclusive == PendingSpec => []AddressExclusive
<1>1. ListInv => AddressExclusive
  BY DEF ListInv
<1> QED
  BY <1>1, ListInitHolds, ListNextHolds, PTL DEF PendingSpec

----------------------------------------------------------------------------
(* The pending list: which nonces it keeps *)

\* The transactions that may leave the list
Gone == sent \cup (Malformed \cap added)

\* A list that somebody may have read: sorted, of transactions that were added
Possible(known, s) ==
    /\ s \in Seq(PendingTxs) /\ SortedList(s)
    /\ \A i \in 1..Len(s) : s[i] \in known

\* A transaction of the nonce is in the list, or was and may leave it
Kept(gone, s, n) == \E u \in PendingTxs : u.nonce = n /\ (u \in gone \/ Contains(s, u))

AdderForm ==
    adder = [a \in Adders |->
                [at |-> adder[a].at, tx |-> adder[a].tx, read |-> adder[a].read]]

\* What a stale reader saw is kept, so that a reader that does not write (the
\* nonce is there already, of no lower priority) is right even so
AdderOK(a) ==
    /\ adder[a].at \in {"idle", "writing"}
    /\ adder[a].at = "idle" => adder[a].tx = {}
    /\ adder[a].at = "writing" =>
         /\ \E t \in added : adder[a].tx = {t}
         /\ Possible(added, adder[a].read)
         /\ overlapped \/ \A i \in 1..Len(adder[a].read) : Kept(Gone, list, adder[a].read[i].nonce)

\* A round removes only what may leave the list
RoundOK(r) ==
    /\ round[r].at # "idle" => \E t \in added : round[r].tx = {t}
    /\ round[r].at \in {"sent", "removing", "writing"} => round[r].tx \subseteq Gone
    /\ round[r].at = "writing" => Possible(added, round[r].read)

NonceInv ==
    /\ sent \subseteq PendingTxs /\ added \subseteq PendingTxs /\ overlapped \in BOOLEAN
    /\ RoundForm /\ AdderForm
    /\ Possible(added, list)
    /\ \A a \in Adders : AdderOK(a)
    /\ \A r \in Rounds : RoundOK(r)
    /\ NonceKept

----------------------------------------------------------------------------
(* The two updates of a list *)

LEMMA NonceIsNatural ==
    ASSUME NEW s \in Seq(PendingTxs)
    PROVE  /\ Len(s) \in Nat /\ DOMAIN s = 1..Len(s)
           /\ \A i \in 1..Len(s) : s[i] \in PendingTxs /\ s[i].nonce \in Int
BY PendingAssumption

\* Adding a transaction keeps the list possible and every nonce that is in it, and
\* puts in the nonce of the transaction.
LEMMA AddingKeeps ==
    ASSUME NEW s, Possible(added, s), NEW t \in PendingTxs, t \in added
    PROVE  LET w == WithTransaction(s, t)
           IN  /\ Possible(added, w)
               /\ \A i \in 1..Len(s) : \E j \in 1..Len(w) : w[j].nonce = s[i].nonce
               /\ \E j \in 1..Len(w) : w[j].nonce = t.nonce
<1> DEFINE L == Len(s)
           I == {i \in 1..L : s[i].nonce = t.nonce}
           J == {i \in 1..L : s[i].nonce > t.nonce}
           same == IF I # {} THEN Min(I) ELSE 0
           next == IF J # {} THEN Min(J) ELSE 0
           w == WithTransaction(s, t)
<1>1. /\ s \in Seq(PendingTxs) /\ L \in Nat /\ DOMAIN s = 1..L /\ t.nonce \in Int
      /\ \A i \in 1..L : s[i] \in PendingTxs /\ s[i].nonce \in Int /\ s[i] \in added
      /\ \A i, j \in 1..L : i < j => s[i].nonce < s[j].nonce
  BY NonceIsNatural, PendingAssumption DEF Possible, SortedList
<1>2. w = IF same # 0 THEN IF t.priority > s[same].priority THEN [s EXCEPT ![same] = t] ELSE s
          ELSE IF next # 0 THEN InsertAt(s, next, t)
          ELSE Append(s, t)
  BY DEF WithTransaction, SelectInSeq
<1>3. I \subseteq 1..L /\ J \subseteq 1..L
  OBVIOUS
<1>4. /\ same # 0 => same \in I
      /\ same = 0 => I = {}
      /\ next # 0 => next \in J /\ \A i \in J : next <= i
      /\ next = 0 => J = {}
  <2> HIDE DEF I, J
  <2> QED
    BY <1>1, <1>3, FirstOf
<1>5. same # 0 => same \in 1..L /\ s[same].nonce = t.nonce
  BY <1>4
<1>6. same = 0 => \A i \in 1..L : s[i].nonce # t.nonce
  BY <1>4
<1>7. next # 0 => /\ next \in 1..L /\ s[next].nonce > t.nonce
                  /\ \A i \in 1..L : s[i].nonce > t.nonce => next <= i
  BY <1>4
<1>8. next = 0 => \A i \in 1..L : ~(s[i].nonce > t.nonce)
  BY <1>4
<1> HIDE DEF same, next, L, w, I, J
<1>9. CASE same # 0 /\ w = s
  BY <1>1, <1>5, <1>9 DEF Possible, L, w
<1>10. CASE same # 0 /\ w = [s EXCEPT ![same] = t]
  <2>1. w \in Seq(PendingTxs) /\ Len(w) = L
    BY <1>1, <1>5, <1>10 DEF L
  <2>2. \A i \in 1..L : w[i] = (IF i = same THEN t ELSE s[i])
    BY <1>1, <1>10
  <2>3. \A i \in 1..L : w[i].nonce = s[i].nonce /\ w[i] \in added
    BY <1>1, <1>5, <1>10, <2>2
  <2>4. SortedList(w)
    BY <1>1, <2>1, <2>3, NonceIsNatural DEF SortedList
  <2>5. w[same].nonce = t.nonce
    BY <1>5, <1>10, <2>3
  <2> QED
    BY <1>5, <1>10, <2>1, <2>3, <2>4, <2>5 DEF Possible, L, w
<1>11. CASE same = 0 /\ next # 0
  <2> DEFINE k == next
  <2>1. k \in 1..(L + 1) /\ w = InsertAt(s, k, t)
    BY <1>1, <1>2, <1>7, <1>11
  <2> HIDE DEF k
  <2>2. /\ w \in Seq(PendingTxs) /\ Len(w) = L + 1
        /\ \A i \in 1..(k - 1) : w[i] = s[i]
        /\ w[k] = t
        /\ \A i \in k..L : w[i + 1] = s[i]
    BY <1>1, <2>1, InsertFacts DEF L
  <2>3. \A i \in 1..L : (i < k => s[i].nonce < t.nonce) /\ (i >= k => s[i].nonce > t.nonce)
    <3> SUFFICES ASSUME NEW i \in 1..L
                 PROVE  (i < k => s[i].nonce < t.nonce) /\ (i >= k => s[i].nonce > t.nonce)
      OBVIOUS
    <3>1. i < k => s[i].nonce < t.nonce
      BY <1>1, <1>6, <1>7, <1>11 DEF k
    <3>2. i = k => s[i].nonce > t.nonce
      BY <1>7, <1>11 DEF k
    <3>3. i > k => s[k].nonce < s[i].nonce /\ s[k].nonce > t.nonce
      BY <1>1, <1>7, <1>11 DEF k
    <3> QED
      BY <1>1, <1>7, <1>11, <2>1, <3>1, <3>2, <3>3
  <2>4. ASSUME NEW i \in 1..(L + 1)
        PROVE  \/ i < k /\ i \in 1..L /\ w[i] = s[i]
               \/ i = k /\ w[i] = t
               \/ i > k /\ i - 1 \in 1..L /\ i - 1 >= k /\ w[i] = s[i - 1]
    <3>1. CASE i < k
      BY <1>1, <2>1, <2>2, <3>1
    <3>2. CASE i = k
      BY <2>2, <3>2
    <3>3. CASE i > k
      <4>1. i - 1 \in k..L /\ (i - 1) + 1 = i
        BY <1>1, <2>1, <3>3
      <4> QED
        BY <1>1, <2>1, <2>2, <3>3, <4>1
    <3> QED
      BY <1>1, <2>1, <3>1, <3>2, <3>3
  <2>5. \A i \in 1..(L + 1) : w[i] \in added
    BY <1>1, <2>4
  <2>6. ASSUME NEW i \in 1..(L + 1), NEW j \in 1..(L + 1), i < j
        PROVE  w[i].nonce < w[j].nonce
    BY <1>1, <2>1, <2>3, <2>4, <2>6
  <2>7. SortedList(w)
    BY <1>1, <2>2, <2>6, NonceIsNatural DEF SortedList
  <2>8. \A i \in 1..L : \E j \in 1..(L + 1) : w[j] = s[i]
    BY <1>1, <2>1, <2>2
  <2>9. k \in 1..(L + 1) /\ w[k].nonce = t.nonce
    BY <2>1, <2>2
  <2> QED
    BY <2>2, <2>5, <2>7, <2>8, <2>9 DEF Possible, L, w
<1>12. CASE same = 0 /\ next = 0
  <2>1. w = Append(s, t)
    BY <1>2, <1>12
  <2>2. /\ w \in Seq(PendingTxs) /\ Len(w) = L + 1
        /\ w[L + 1] = t
        /\ \A i \in 1..L : w[i] = s[i]
    BY <1>1, <2>1 DEF L
  <2>3. \A i \in 1..L : s[i].nonce < t.nonce
    BY <1>1, <1>6, <1>8, <1>12
  <2>4. \A i \in 1..(L + 1) : (i \in 1..L /\ w[i] = s[i]) \/ (i = L + 1 /\ w[i] = t)
    BY <1>1, <2>2
  <2>5. \A i \in 1..(L + 1) : w[i] \in added
    BY <1>1, <2>4
  <2>6. ASSUME NEW i \in 1..(L + 1), NEW j \in 1..(L + 1), i < j
        PROVE  w[i].nonce < w[j].nonce
    BY <1>1, <2>3, <2>4, <2>6
  <2>7. SortedList(w)
    BY <1>1, <2>2, <2>6, NonceIsNatural DEF SortedList
  <2>8. \A i \in 1..L : \E j \in 1..(L + 1) : w[j] = s[i]
    BY <1>1, <2>2
  <2>9. L + 1 \in 1..(L + 1) /\ w[L + 1].nonce = t.nonce
    BY <1>1, <2>2
  <2> QED
    BY <2>2, <2>5, <2>7, <2>8, <2>9 DEF Possible, L, w
<1> QED
  BY <1>2, <1>9, <1>10, <1>11, <1>12

\* Removing a transaction keeps the list possible and all of another nonce in it.
LEMMA RemovingKeeps ==
    ASSUME NEW s, Possible(added, s), NEW t \in PendingTxs
    PROVE  LET w == Without(s, t)
           IN  /\ Possible(added, w)
               /\ \A i \in 1..Len(s) :
                     s[i].nonce # t.nonce => \E j \in 1..Len(w) : w[j] = s[i]
<1> DEFINE L == Len(s)
           I == {i \in 1..L : s[i].nonce = t.nonce}
           k == IF I # {} THEN Min(I) ELSE 0
           w == Without(s, t)
<1>1. /\ s \in Seq(PendingTxs) /\ L \in Nat /\ DOMAIN s = 1..L
      /\ \A i \in 1..L : s[i] \in PendingTxs /\ s[i].nonce \in Int /\ s[i] \in added
      /\ \A i, j \in 1..L : i < j => s[i].nonce < s[j].nonce
  BY NonceIsNatural DEF Possible, SortedList
<1>2. w = IF \E i \in 1..L : s[i].nonce = t.nonce THEN RemoveAt(s, k) ELSE s
  BY DEF Without, RemoveFirstMatch, SelectInSeq
<1>3. I \subseteq 1..L
  OBVIOUS
<1>4. /\ k # 0 => k \in I
      /\ k = 0 => I = {}
  <2> HIDE DEF I
  <2> QED
    BY <1>1, <1>3, FirstOf
<1>5. k # 0 => k \in 1..L /\ s[k].nonce = t.nonce
  BY <1>4
<1>6. k = 0 => w = s
  BY <1>2, <1>4
<1>7. k # 0 => w = RemoveAt(s, k)
  BY <1>2, <1>5
<1> HIDE DEF k, L, w, I
<1>8. CASE k = 0
  BY <1>1, <1>6, <1>8 DEF Possible, L, w
<1>9. CASE k # 0
  <2>1. /\ w \in Seq(PendingTxs) /\ Len(w) = L - 1
        /\ \A i \in 1..(k - 1) : w[i] = s[i]
        /\ \A i \in k..(L - 1) : w[i] = s[i + 1]
    BY <1>1, <1>5, <1>7, <1>9, RemoveFacts DEF L
  <2>2. ASSUME NEW i \in 1..(L - 1)
        PROVE  \/ i < k /\ i \in 1..L /\ w[i] = s[i]
               \/ i >= k /\ i + 1 \in 1..L /\ w[i] = s[i + 1]
    BY <1>1, <1>5, <1>9, <2>1
  <2>3. \A i \in 1..(L - 1) : w[i] \in added
    BY <1>1, <2>2
  <2>4. ASSUME NEW i \in 1..(L - 1), NEW j \in 1..(L - 1), i < j
        PROVE  w[i].nonce < w[j].nonce
    BY <1>1, <1>5, <1>9, <2>2, <2>4
  <2>5. SortedList(w)
    BY <1>1, <2>1, <2>4, NonceIsNatural DEF SortedList
  <2>6. ASSUME NEW i \in 1..L, s[i].nonce # t.nonce
        PROVE  \E j \in 1..(L - 1) : w[j] = s[i]
    <3>1. CASE i < k
      BY <1>1, <1>5, <1>9, <2>1, <3>1
    <3>2. CASE i > k
      <4>1. i - 1 \in k..(L - 1) /\ (i - 1) + 1 = i /\ i - 1 \in 1..(L - 1)
        BY <1>1, <1>5, <1>9, <3>2
      <4> QED
        BY <2>1, <4>1
    <3> QED
      BY <1>1, <1>5, <1>9, <2>6, <3>1, <3>2
  <2> QED
    BY <2>1, <2>3, <2>5, <2>6 DEF Possible, L, w
<1> QED
  BY <1>8, <1>9

----------------------------------------------------------------------------
(* The runs *)

\* The transaction of a run that has one
LEMMA TxOfRound ==
    ASSUME NonceInv, NEW r \in Rounds, round[r].at # "idle"
    PROVE  TxOf(r) \in added /\ TxOf(r) \in PendingTxs /\ round[r].tx = {TxOf(r)}
<1>1. PICK t \in added : round[r].tx = {t}
  BY DEF NonceInv, RoundOK
<1>2. t \in PendingTxs
  BY DEF NonceInv
<1>3. TxOf(r) = t
  BY <1>1, <1>2 DEF TxOf
<1> QED
  BY <1>1, <1>2, <1>3

----------------------------------------------------------------------------
(* What the steps have in common *)

\* What was added or sent stays so, and a nonce that is kept stays kept, unless an
\* update overlapped with another one
Grows ==
    /\ added \subseteq added' /\ sent \subseteq sent'
    /\ added' \subseteq PendingTxs /\ sent' \subseteq PendingTxs
    /\ overlapped' \in BOOLEAN /\ (overlapped => overlapped')
    /\ Possible(added', list')
    /\ overlapped' \/ \A n : Kept(Gone, list, n) => Kept(Gone', list', n)

LEMMA ListAlone ==
    ASSUME NonceInv, added \subseteq added', sent \subseteq sent',
           added' \subseteq PendingTxs, sent' \subseteq PendingTxs, UNCHANGED <<list, overlapped>>
    PROVE  Grows
<1>1. Possible(added', list')
  BY DEF NonceInv, Possible
<1>2. \A n : Kept(Gone, list, n) => Kept(Gone', list', n)
  BY DEF Kept, Gone
<1> QED
  BY <1>1, <1>2 DEF Grows, NonceInv

LEMMA AddersStay ==
    ASSUME NonceInv, Grows, NEW a \in Adders, adder'[a] = adder[a]
    PROVE  AdderOK(a)'
<1>1. AdderOK(a)
  BY DEF NonceInv
<1>2. CASE adder[a].at = "writing"
  <2>1. \E t \in added' : adder'[a].tx = {t}
    BY <1>1, <1>2 DEF AdderOK, Grows
  <2>2. Possible(added', adder'[a].read)
    BY <1>1, <1>2 DEF AdderOK, Grows, Possible
  <2>3. overlapped' \/ \A i \in 1..Len(adder[a].read) : Kept(Gone', list', adder[a].read[i].nonce)
    <3> SUFFICES ASSUME ~overlapped', NEW i \in 1..Len(adder[a].read)
                 PROVE  Kept(Gone', list', adder[a].read[i].nonce)
      OBVIOUS
    <3> DEFINE n == adder[a].read[i].nonce
    <3>1. Kept(Gone, list, n)
      BY <1>1, <1>2 DEF AdderOK, Grows
    <3>2. \A m : Kept(Gone, list, m) => Kept(Gone', list', m)
      BY DEF Grows
    <3>3. \E u \in PendingTxs : u.nonce = n /\ (u \in Gone' \/ Contains(list', u))
      <4> HIDE DEF n
      <4> QED
        BY <3>1, <3>2 DEF Kept
    <3> QED
      BY <3>3 DEF Kept
  <2> QED
    BY <1>1, <1>2, <2>1, <2>2, <2>3 DEF AdderOK
<1>3. CASE adder[a].at # "writing"
  BY <1>1, <1>3 DEF AdderOK
<1> QED
  BY <1>2, <1>3

LEMMA RoundsStay ==
    ASSUME NonceInv, Grows, NEW r \in Rounds, round'[r] = round[r]
    PROVE  RoundOK(r)'
<1>1. RoundOK(r)
  BY DEF NonceInv
<1>2. Gone \subseteq Gone'
  BY DEF Gone, Grows
<1>3. round[r].at = "writing" => Possible(added', round'[r].read)
  BY <1>1 DEF RoundOK, Grows, Possible
<1> QED
  BY <1>1, <1>2, <1>3 DEF RoundOK, Grows

\* NonceKept, when what is added and what the runs of addTransaction hold stays
LEMMA KeptStays ==
    ASSUME NonceInv, Grows, NEW t \in added, \A a \in Adders : adder'[a] = adder[a]
    PROVE  \/ overlapped'
           \/ \E a \in Adders : t \in adder'[a].tx
           \/ Kept(Gone', list', t.nonce)
<1>1. CASE \E a \in Adders : t \in adder[a].tx
  BY <1>1
<1>2. CASE ~\E a \in Adders : t \in adder[a].tx
  <2>1. overlapped \/ Kept(Gone, list, t.nonce)
    BY <1>2 DEF NonceInv, NonceKept, Kept, Gone
  <2>2. CASE overlapped
    BY <2>2 DEF Grows
  <2>3. CASE Kept(Gone, list, t.nonce)
    <3> DEFINE n == t.nonce
    <3>1. overlapped' \/ \E u \in PendingTxs : u.nonce = n /\ (u \in Gone' \/ Contains(list', u))
      <4> HIDE DEF n
      <4>1. overlapped' \/ (Kept(Gone, list, n) => Kept(Gone', list', n))
        BY DEF Grows
      <4>2. Kept(Gone, list, n)
        BY <2>3 DEF n
      <4> QED
        BY <4>1, <4>2 DEF Kept
    <3> QED
      BY <3>1 DEF Kept
  <2> QED
    BY <2>1, <2>2, <2>3
<1> QED
  BY <1>1, <1>2

\* The steps of a run of processAddressQueue, one by one, come down to this.
LEMMA RoundMoves ==
    ASSUME NonceInv, Grows, UNCHANGED <<added, adder>>,
           NEW r \in Rounds, NEW at, NEW tx, NEW read, RoundAt(r, at, tx, read),
           at # "idle" => \E t \in added : tx = {t},
           at \in {"sent", "removing", "writing"} => tx \subseteq Gone,
           at = "writing" => Possible(added, read)
    PROVE  NonceInv'
<1>1. \A a \in Adders : adder'[a] = adder[a]
  OBVIOUS
<1>2. RoundOK(r)'
  <2>1. Gone \subseteq Gone'
    BY DEF Gone, Grows
  <2>2. /\ round'[r].at = at /\ round'[r].tx = tx /\ round'[r].read = read
    BY DEF RoundAt
  <2>3. at = "writing" => Possible(added', read)
    BY DEF Possible, Grows
  <2>4. Possible(added', round'[r].read) <=> Possible(added', read)
    BY <2>2 DEF Possible
  <2> QED
    BY <2>1, <2>2, <2>3, <2>4 DEF RoundOK
<1>3. \A q \in Rounds : RoundOK(q)'
  <2> SUFFICES ASSUME NEW q \in Rounds
               PROVE  RoundOK(q)'
    OBVIOUS
  <2>1. CASE q = r
    BY <1>2, <2>1
  <2>2. CASE q # r
    BY <2>2, RoundsStay DEF RoundAt
  <2> QED
    BY <2>1, <2>2
<1>4. \A a \in Adders : AdderOK(a)'
  BY <1>1, AddersStay
<1>5. NonceKept'
  BY <1>1, KeptStays DEF NonceKept, Kept, Gone
<1>6. AdderForm'
  BY DEF NonceInv, AdderForm
<1> QED
  BY <1>3, <1>4, <1>5, <1>6 DEF NonceInv, Grows, RoundAt

----------------------------------------------------------------------------
(* The steps, one by one *)

LEMMA AddReadKeeps ==
    ASSUME NonceInv, NEW a \in Adders, NEW t \in PendingTxs, AddRead(a, t)
    PROVE  NonceInv'
<1>1. /\ adder[a].at = "idle"
      /\ adder' = [adder EXCEPT ![a] = [at |-> "writing", tx |-> {t}, read |-> list]]
      /\ added' = added \cup {t}
      /\ UNCHANGED <<list, sent, round, overlapped>>
  BY DEF AddRead
<1>2. Grows
  BY <1>1, ListAlone DEF NonceInv
<1>3. AdderForm' /\ adder'[a] = [at |-> "writing", tx |-> {t}, read |-> list]
      /\ \A b \in Adders : b # a => adder'[b] = adder[b]
  BY <1>1 DEF NonceInv, AdderForm
<1>4. \A r \in Rounds : RoundOK(r)'
  BY <1>1, <1>2, RoundsStay
<1>5. AdderOK(a)'
  <2>1. /\ adder'[a].at = "writing" /\ adder'[a].tx = {t} /\ adder'[a].read = list
    BY <1>3
  <2>2. Possible(added', adder'[a].read)
    BY <1>1, <1>2, <2>1 DEF Grows, Possible
  <2>3. \A i \in 1..Len(list) : Kept(Gone', list', list[i].nonce)
    <3> SUFFICES ASSUME NEW i \in 1..Len(list)
                 PROVE  Kept(Gone', list', list[i].nonce)
      OBVIOUS
    <3>1. list[i] \in PendingTxs /\ Contains(list, list[i])
      BY NonceIsNatural DEF NonceInv, Possible, Contains
    <3> QED
      BY <1>1, <3>1 DEF Kept
  <2>4. \A i \in 1..Len(adder'[a].read) : Kept(Gone', list', adder'[a].read[i].nonce)
    BY <2>1, <2>3 DEF Kept
  <2> QED
    BY <1>1, <2>1, <2>2, <2>4 DEF AdderOK
<1>6. \A b \in Adders : AdderOK(b)'
  BY <1>2, <1>3, <1>5, AddersStay
<1>7. NonceKept'
  <2> SUFFICES ASSUME NEW u \in added'
               PROVE  overlapped' \/ (\E b \in Adders : u \in adder'[b].tx) \/ Kept(Gone', list', u.nonce)
    BY DEF NonceKept, Kept, Gone
  <2>1. CASE u = t
    BY <1>3, <2>1
  <2>2. CASE u # t
    <3>1. u \in added
      BY <1>1, <2>2
    <3>2. overlapped \/ (\E b \in Adders : u \in adder[b].tx) \/ Kept(Gone, list, u.nonce)
      BY <3>1 DEF NonceInv, NonceKept, Kept, Gone
    <3>3. adder[a].tx = {}
      BY <1>1 DEF NonceInv, AdderOK
    <3>4. CASE \E b \in Adders : u \in adder[b].tx
      <4>1. PICK b \in Adders : u \in adder[b].tx
        BY <3>4
      <4> QED
        BY <1>3, <3>3, <4>1
    <3>5. CASE Kept(Gone, list, u.nonce)
      BY <1>1, <3>5 DEF Kept, Gone
    <3> QED
      BY <1>1, <3>2, <3>4, <3>5
  <2> QED
    BY <2>1, <2>2
<1> QED
  BY <1>1, <1>2, <1>3, <1>4, <1>6, <1>7 DEF NonceInv, Grows, RoundForm

LEMMA AddWriteKeeps ==
    ASSUME NonceInv, NEW a \in Adders, AddWrite(a)
    PROVE  NonceInv'
<1>1. /\ adder[a].at = "writing"
      /\ adder' = [adder EXCEPT ![a] = Resting]
      /\ UNCHANGED <<sent, round, added>>
  BY DEF AddWrite
<1>2. PICK t \in added : adder[a].tx = {t}
  BY <1>1 DEF NonceInv, AdderOK
<1> DEFINE s == adder[a].read
           w == WithTransaction(s, t)
<1>3. \/ w = s /\ UNCHANGED <<list, overlapped>>
      \/ list' = w /\ overlapped' = (overlapped \/ (s # list))
  BY <1>1, <1>2 DEF AddWrite, WriteList, Stale
<1>4. t \in PendingTxs /\ Possible(added, s)
      /\ (overlapped \/ \A i \in 1..Len(s) : Kept(Gone, list, s[i].nonce))
  BY <1>1 DEF NonceInv, AdderOK
<1> HIDE DEF s
<1>5. /\ Possible(added, w)
      /\ \A i \in 1..Len(s) : \E j \in 1..Len(w) : w[j].nonce = s[i].nonce
      /\ \E j \in 1..Len(w) : w[j].nonce = t.nonce
  BY <1>4, AddingKeeps
<1> HIDE DEF w
<1>6. w \in Seq(PendingTxs) /\ (\A j \in 1..Len(w) : w[j] \in PendingTxs /\ Contains(w, w[j]))
  BY <1>5, NonceIsNatural DEF Possible, Contains
<1>7. Grows
  <2>1. CASE UNCHANGED <<list, overlapped>>
    BY <1>1, <2>1, ListAlone DEF NonceInv
  <2>2. CASE list' = w /\ overlapped' = (overlapped \/ (s # list))
    <3>1. Possible(added', list')
      BY <1>1, <1>5, <2>2 DEF Possible
    <3>2. ASSUME NEW n, Kept(Gone, list, n), ~overlapped'
          PROVE  Kept(Gone', list', n)
      <4>1. s = list
        BY <2>2, <3>2
      <4>2. PICK u \in PendingTxs : u.nonce = n /\ (u \in Gone \/ Contains(list, u))
        BY <3>2 DEF Kept
      <4>3. CASE u \in Gone
        BY <1>1, <4>2, <4>3 DEF Kept, Gone
      <4>4. CASE Contains(list, u)
        <5>1. PICK i \in 1..Len(s) : s[i] = u
          BY <4>1, <4>4 DEF Contains
        <5>2. PICK j \in 1..Len(w) : w[j].nonce = n
          BY <1>5, <4>2, <5>1
        <5> QED
          BY <1>6, <2>2, <5>2 DEF Kept
      <4> QED
        BY <4>2, <4>3, <4>4
    <3>3. overlapped' \/ \A n : Kept(Gone, list, n) => Kept(Gone', list', n)
      BY <3>2
    <3> QED
      BY <1>1, <2>2, <3>1, <3>3 DEF NonceInv, Grows
  <2> QED
    BY <1>3, <2>1, <2>2
<1>8. AdderForm' /\ adder'[a] = Resting
      /\ \A b \in Adders : b # a => adder'[b] = adder[b]
  BY <1>1 DEF NonceInv, AdderForm, Resting
<1>9. \A r \in Rounds : RoundOK(r)'
  BY <1>1, <1>7, RoundsStay
<1>10. \A b \in Adders : AdderOK(b)'
  <2>1. AdderOK(a)'
    BY <1>8 DEF AdderOK, Resting
  <2> QED
    BY <1>7, <1>8, <2>1, AddersStay
<1>11. overlapped' \/ Kept(Gone', list', t.nonce)
  <2>1. PICK j \in 1..Len(w) : w[j].nonce = t.nonce
    BY <1>5
  <2>2. CASE list' = w
    BY <1>6, <2>1, <2>2 DEF Kept
  <2>3. CASE w = s /\ UNCHANGED <<list, overlapped>>
    BY <1>1, <1>4, <2>1, <2>3 DEF Kept, Gone
  <2> QED
    BY <1>3, <2>2, <2>3
<1>12. NonceKept'
  <2> SUFFICES ASSUME NEW u \in added'
               PROVE  overlapped' \/ (\E b \in Adders : u \in adder'[b].tx) \/ Kept(Gone', list', u.nonce)
    BY DEF NonceKept, Kept, Gone
  <2>1. CASE u = t
    BY <1>11, <2>1
  <2>2. CASE u # t /\ \E b \in Adders : u \in adder[b].tx
    <3>1. PICK b \in Adders : u \in adder[b].tx
      BY <2>2
    <3> QED
      BY <1>2, <1>8, <2>2, <3>1
  <2>3. CASE ~\E b \in Adders : u \in adder[b].tx
    <3> DEFINE n == u.nonce
    <3>1. overlapped \/ Kept(Gone, list, n)
      BY <1>1, <2>3 DEF NonceInv, NonceKept, Kept, Gone
    <3>2. overlapped' \/ \E v \in PendingTxs : v.nonce = n /\ (v \in Gone' \/ Contains(list', v))
      <4> HIDE DEF n
      <4> QED
        BY <1>7, <3>1 DEF Grows, Kept
    <3> QED
      BY <3>2 DEF Kept
  <2> QED
    BY <2>1, <2>2, <2>3
<1> QED
  BY <1>1, <1>7, <1>8, <1>9, <1>10, <1>12 DEF NonceInv, Grows, RoundForm

LEMMA PeekKeeps ==
    ASSUME NonceInv, NEW r \in Rounds, Peek(r)
    PROVE  NonceInv'
<1>1. list # <<>> /\ UNCHANGED <<list, sent, adder, added, overlapped>>
      /\ round' = [round EXCEPT ![r] = [at |-> "peeked", tx |-> {Head(list)}, read |-> <<>>]]
  BY DEF Peek
<1>2. Grows
  BY <1>1, ListAlone DEF NonceInv
<1>3. RoundAt(r, "peeked", {Head(list)}, <<>>)
  BY <1>1 DEF NonceInv, RoundForm, RoundAt
<1>4. Head(list) \in added
  <2>1. list \in Seq(PendingTxs) /\ 1 \in 1..Len(list) /\ Head(list) = list[1]
    BY <1>1 DEF NonceInv, Possible
  <2> QED
    BY <2>1 DEF NonceInv, Possible
<1> QED
  BY <1>1, <1>2, <1>3, <1>4, RoundMoves

\* Steps that only lead a run on, with its transaction, or back.
LEMMA PassingSteps ==
    ASSUME NonceInv, NEW r \in Rounds,
           \/ CheckFree(r) \/ CheckSequence(r) \/ LockAddress(r) \/ CheckSent(r) \/ Track(r)
           \/ SetLast(r) \/ Unreadable(r) \/ Release(r) \/ Untrack(r)
    PROVE  NonceInv'
<1>1. /\ round[r].at # "idle" /\ UNCHANGED <<list, sent, adder, added, overlapped>>
      /\ \/ EndRound(r)
         \/ \E at \in {"free", "next", "locked", "trying", "skipping", "unreadable",
                       "releasing", "untracking"} : Goto(r, at)
         \/ Goto(r, "sent") /\ TxOf(r) \in sent
         \/ Goto(r, "removing") /\ (TxOf(r) \in Malformed \/ round[r].at = "sent")
  <2>1. CASE CheckFree(r) \/ CheckSequence(r) \/ LockAddress(r)
    BY <2>1 DEF CheckFree, CheckSequence, LockAddress
  <2>2. CASE CheckSent(r)
    BY <2>2 DEF CheckSent
  <2>3. CASE Track(r)
    BY <2>3 DEF Track
  <2>4. CASE SetLast(r) \/ Unreadable(r)
    BY <2>4 DEF SetLast, Unreadable
  <2>5. CASE Release(r) \/ Untrack(r)
    BY <2>5 DEF Release, Untrack
  <2> QED
    BY <2>1, <2>2, <2>3, <2>4, <2>5
<1>2. Grows
  BY <1>1, ListAlone DEF NonceInv
<1>3. TxOf(r) \in added /\ round[r].tx = {TxOf(r)}
  BY <1>1, TxOfRound
<1>4. RoundOK(r)
  BY DEF NonceInv
<1>5. CASE EndRound(r)
  <2>1. RoundAt(r, "idle", {}, <<>>)
    BY <1>5, EndPlaces DEF NonceInv
  <2> QED
    BY <1>1, <1>2, <2>1, RoundMoves
<1>6. ASSUME NEW at \in {"free", "next", "locked", "trying", "skipping", "unreadable",
                         "releasing", "untracking"}, Goto(r, at)
      PROVE  NonceInv'
  <2>1. RoundAt(r, at, round[r].tx, round[r].read)
    BY <1>6, GotoPlaces DEF NonceInv
  <2> QED
    BY <1>1, <1>2, <1>3, <2>1, RoundMoves
<1>7. CASE Goto(r, "sent") /\ TxOf(r) \in sent
  <2>1. RoundAt(r, "sent", round[r].tx, round[r].read)
    BY <1>7, GotoPlaces DEF NonceInv
  <2>2. round[r].tx \subseteq Gone
    BY <1>3, <1>7 DEF Gone
  <2> QED
    BY <1>1, <1>2, <1>3, <2>1, <2>2, RoundMoves
<1>8. CASE Goto(r, "removing") /\ (TxOf(r) \in Malformed \/ round[r].at = "sent")
  <2>1. RoundAt(r, "removing", round[r].tx, round[r].read)
    BY <1>8, GotoPlaces DEF NonceInv
  <2>2. round[r].tx \subseteq Gone
    BY <1>3, <1>4, <1>8 DEF Gone, RoundOK
  <2> QED
    BY <1>1, <1>2, <1>3, <2>1, <2>2, RoundMoves
<1> QED
  BY <1>1, <1>5, <1>6, <1>7, <1>8

LEMMA RemoveReadKeeps ==
    ASSUME NonceInv, NEW r \in Rounds, RemoveRead(r)
    PROVE  NonceInv'
<1>1. round[r].at = "removing" /\ UNCHANGED <<list, sent, adder, added, overlapped>>
  BY DEF RemoveRead
<1>2. Grows
  BY <1>1, ListAlone DEF NonceInv
<1>3. RoundAt(r, "writing", round[r].tx, list)
  BY ReadPlaces DEF NonceInv
<1>4. RoundOK(r) /\ Possible(added, list)
  BY DEF NonceInv
<1> QED
  BY <1>1, <1>2, <1>3, <1>4, RoundMoves DEF RoundOK

LEMMA RemoveWriteKeeps ==
    ASSUME NonceInv, NEW r \in Rounds, RemoveWrite(r)
    PROVE  NonceInv'
<1> DEFINE s == round[r].read
           t == TxOf(r)
           w == Without(s, t)
<1>1. /\ round[r].at = "writing" /\ Goto(r, "releasing")
      /\ list' = w /\ overlapped' = (overlapped \/ (s # list))
      /\ UNCHANGED <<sent, adder, added>>
  BY DEF RemoveWrite, WriteList, Stale
<1>2. t \in added /\ t \in PendingTxs /\ round[r].tx = {t}
  BY <1>1, TxOfRound
<1>3. Possible(added, s) /\ t \in Gone
  BY <1>1, <1>2 DEF NonceInv, RoundOK
<1> HIDE DEF s, t
<1>4. /\ Possible(added, w)
      /\ \A i \in 1..Len(s) : s[i].nonce # t.nonce => \E j \in 1..Len(w) : w[j] = s[i]
  BY <1>2, <1>3, RemovingKeeps
<1> HIDE DEF w
<1>5. Grows
  <2>1. Possible(added', list')
    BY <1>1, <1>4 DEF Possible
  <2>2. ASSUME NEW n, Kept(Gone, list, n), ~overlapped'
        PROVE  Kept(Gone', list', n)
    <3>1. s = list
      BY <1>1, <2>2
    <3>2. PICK u \in PendingTxs : u.nonce = n /\ (u \in Gone \/ Contains(list, u))
      BY <2>2 DEF Kept
    <3>3. CASE n = t.nonce
      BY <1>1, <1>2, <1>3, <3>3 DEF Kept, Gone
    <3>4. CASE u \in Gone
      BY <1>1, <3>2, <3>4 DEF Kept, Gone
    <3>5. CASE n # t.nonce /\ Contains(list, u)
      <4>1. PICK i \in 1..Len(s) : s[i] = u
        BY <3>1, <3>5 DEF Contains
      <4>2. PICK j \in 1..Len(w) : w[j] = u
        BY <1>4, <3>2, <3>5, <4>1
      <4> QED
        BY <1>1, <3>2, <4>2 DEF Kept, Contains
    <3> QED
      BY <3>2, <3>3, <3>4, <3>5
  <2>3. overlapped' \/ \A n : Kept(Gone, list, n) => Kept(Gone', list', n)
    BY <2>2
  <2> QED
    BY <1>1, <2>1, <2>3 DEF NonceInv, Grows
<1>6. RoundAt(r, "releasing", round[r].tx, round[r].read)
  BY <1>1, GotoPlaces DEF NonceInv
<1> QED
  BY <1>1, <1>2, <1>5, <1>6, RoundMoves

LEMMA AroundKeeps ==
    ASSUME NonceInv, UNCHANGED <<round, adder, list, added, overlapped>>,
           sent \subseteq sent', sent' \subseteq PendingTxs
    PROVE  NonceInv'
<1>1. Grows
  BY ListAlone DEF NonceInv
<1>2. \A r \in Rounds : RoundOK(r)'
  BY <1>1, RoundsStay
<1>3. \A a \in Adders : AdderOK(a)'
  BY <1>1, AddersStay
<1>4. \A a \in Adders : adder'[a] = adder[a]
  OBVIOUS
<1>5. NonceKept'
  BY <1>1, <1>4, KeptStays DEF NonceKept, Kept, Gone
<1> QED
  BY <1>1, <1>2, <1>3, <1>5 DEF NonceInv, Grows, RoundForm, AdderForm

LEMMA NonceInitHolds == PendingInit => NonceInv
<1> SUFFICES ASSUME PendingInit
             PROVE  NonceInv
  OBVIOUS
<1>1. RoundForm /\ AdderForm /\ \A r \in Rounds : RoundOK(r)
  BY DEF PendingInit, Resting, RoundForm, AdderForm, RoundOK
<1>2. \A a \in Adders : AdderOK(a)
  BY DEF PendingInit, Resting, AdderOK
<1>3. Possible(added, list)
  BY DEF PendingInit, Possible, SortedList
<1> QED
  BY <1>1, <1>2, <1>3 DEF PendingInit, NonceInv, NonceKept

LEMMA NonceNextHolds == NonceInv /\ [PendingNext]_pendingVars => NonceInv'
<1> SUFFICES ASSUME NonceInv, [PendingNext]_pendingVars
             PROVE  NonceInv'
  OBVIOUS
<1>1. CASE UNCHANGED pendingVars
  BY <1>1, AroundKeeps DEF pendingVars, NonceInv
<1>2. ASSUME NEW a \in Adders, (\E t \in PendingTxs : AddRead(a, t)) \/ AddWrite(a)
      PROVE  NonceInv'
  BY <1>2, AddReadKeeps, AddWriteKeeps
<1>3. ASSUME NEW r \in Rounds,
             \/ Peek(r) \/ CheckFree(r) \/ CheckSequence(r) \/ LockAddress(r)
             \/ CheckSent(r) \/ Track(r) \/ SetLast(r) \/ RemoveRead(r)
             \/ RemoveWrite(r) \/ Unreadable(r) \/ Release(r) \/ Untrack(r)
      PROVE  NonceInv'
  BY <1>3, PeekKeeps, PassingSteps, RemoveReadKeeps, RemoveWriteKeeps
<1>4. ASSUME NEW t \in PendingTxs, TrackElsewhere(t) \/ SendElsewhere(t)
      PROVE  NonceInv'
  <2>1. /\ UNCHANGED <<round, adder, list, added, overlapped>>
        /\ sent' = sent \/ sent' = sent \cup {t}
    BY <1>4 DEF TrackElsewhere, SendElsewhere
  <2> QED
    BY <2>1, AroundKeeps DEF NonceInv
<1>5. CASE Expire
  BY <1>5, AroundKeeps DEF Expire, NonceInv
<1> QED
  BY <1>1, <1>2, <1>3, <1>4, <1>5 DEF PendingNext

\* Once addTransaction has put a transaction in the list, one of its nonce stays
\* there until one was broadcast or found malformed, unless two updates of the list
\* overlapped.
THEOREM NoNonceDropsOut == PendingSpec => []NonceKept
<1>1. NonceInv => NonceKept
  BY DEF NonceInv
<1> QED
  BY <1>1, NonceInitHolds, NonceNextHolds, PTL DEF PendingSpec

----------------------------------------------------------------------------
(* The pending list: its types *)

RoundPlaces == Inside \cup {"idle", "peeked", "free", "next", "untracking"}

\* What PendingTypeOK says beyond the invariant
PlainTypes ==
    /\ lastNonce \in {NoLast} \cup {t.nonce : t \in PendingTxs}
    /\ addressLock \in BOOLEAN /\ overran \in BOOLEAN
    /\ elsewhere \subseteq PendingTxs
    /\ \A r \in Rounds :
         /\ round[r].at \in RoundPlaces
         /\ round[r].tx \subseteq PendingTxs /\ round[r].read \in Seq(PendingTxs)

LEMMA RoundTypes ==
    ASSUME PlainTypes, NEW r \in Rounds, NEW at \in RoundPlaces, NEW tx \in SUBSET PendingTxs,
           NEW read \in Seq(PendingTxs), RoundAt(r, at, tx, read)
    PROVE  \A q \in Rounds :
             /\ round'[q].at \in RoundPlaces
             /\ round'[q].tx \subseteq PendingTxs /\ round'[q].read \in Seq(PendingTxs)
<1> SUFFICES ASSUME NEW q \in Rounds
             PROVE  /\ round'[q].at \in RoundPlaces
                    /\ round'[q].tx \subseteq PendingTxs /\ round'[q].read \in Seq(PendingTxs)
  OBVIOUS
<1>1. CASE q = r
  BY <1>1 DEF RoundAt
<1>2. CASE q # r
  BY <1>2 DEF RoundAt, PlainTypes
<1> QED
  BY <1>1, <1>2

\* Where a run goes, and with what
LEMMA RoundGoes ==
    ASSUME NonceInv, PlainTypes, NEW r \in Rounds,
           \/ Peek(r) \/ CheckFree(r) \/ CheckSequence(r) \/ LockAddress(r)
           \/ CheckSent(r) \/ Track(r) \/ SetLast(r) \/ RemoveRead(r)
           \/ RemoveWrite(r) \/ Unreadable(r) \/ Release(r) \/ Untrack(r)
    PROVE  \E at \in RoundPlaces, tx \in SUBSET PendingTxs, read \in Seq(PendingTxs) :
              RoundAt(r, at, tx, read)
<1>1. /\ RoundForm /\ list \in Seq(PendingTxs) /\ <<>> \in Seq(PendingTxs)
      /\ round[r].tx \in SUBSET PendingTxs /\ round[r].read \in Seq(PendingTxs)
  BY DEF NonceInv, Possible, PlainTypes
<1>2. CASE Peek(r)
  <2>1. Head(list) \in PendingTxs
    BY <1>1, <1>2 DEF Peek
  <2>2. RoundAt(r, "peeked", {Head(list)}, <<>>)
    BY <1>1, <1>2 DEF Peek, RoundForm, RoundAt
  <2> QED
    BY <1>1, <2>1, <2>2 DEF RoundPlaces
<1>3. CASE RemoveRead(r)
  BY <1>1, <1>3, ReadPlaces DEF RoundPlaces, Inside
<1>4. CASE EndRound(r)
  BY <1>1, <1>4, EndPlaces DEF RoundPlaces
<1>5. ASSUME NEW at \in RoundPlaces, Goto(r, at)
      PROVE  \E tx \in SUBSET PendingTxs, read \in Seq(PendingTxs) : RoundAt(r, at, tx, read)
  BY <1>1, <1>5, GotoPlaces
<1>6. Peek(r) \/ RemoveRead(r) \/ EndRound(r) \/ \E at \in RoundPlaces : Goto(r, at)
  BY DEF CheckFree, CheckSequence, LockAddress, CheckSent, Track, SetLast, RemoveWrite,
         Unreadable, Release, Untrack, RoundPlaces, Inside
<1> QED
  BY <1>2, <1>3, <1>4, <1>5, <1>6

LEMMA RoundPlain ==
    ASSUME NonceInv, PlainTypes, NEW r \in Rounds,
           \/ Peek(r) \/ CheckFree(r) \/ CheckSequence(r) \/ LockAddress(r)
           \/ CheckSent(r) \/ Track(r) \/ SetLast(r) \/ RemoveRead(r)
           \/ RemoveWrite(r) \/ Unreadable(r) \/ Release(r) \/ Untrack(r)
    PROVE  PlainTypes'
<1>1. \A q \in Rounds :
         /\ round'[q].at \in RoundPlaces
         /\ round'[q].tx \subseteq PendingTxs /\ round'[q].read \in Seq(PendingTxs)
  BY RoundGoes, RoundTypes
<1>2. lastNonce' = lastNonce \/ \E t \in PendingTxs : lastNonce' = t.nonce
  <2>1. CASE SetLast(r)
    <3>1. TxOf(r) \in PendingTxs
      BY <2>1, TxOfRound DEF SetLast
    <3> QED
      BY <2>1, <3>1 DEF SetLast
  <2>2. CASE ~SetLast(r)
    BY <2>2 DEF Peek, CheckFree, CheckSequence, LockAddress, CheckSent, Track, RemoveRead,
                RemoveWrite, Unreadable, Release, Untrack
  <2> QED
    BY <2>1, <2>2
<1>3. addressLock' \in BOOLEAN /\ UNCHANGED <<elsewhere, overran>>
  BY DEF PlainTypes, Peek, CheckFree, CheckSequence, LockAddress, CheckSent, Track, SetLast,
         RemoveRead, RemoveWrite, Unreadable, Release, Untrack
<1> QED
  BY <1>1, <1>2, <1>3 DEF PlainTypes

LEMMA PlainNextHolds ==
    ASSUME NonceInv, PlainTypes, [PendingNext]_pendingVars
    PROVE  PlainTypes'
<1>1. CASE UNCHANGED pendingVars
  BY <1>1 DEF pendingVars, PlainTypes
<1>2. ASSUME NEW a \in Adders, (\E t \in PendingTxs : AddRead(a, t)) \/ AddWrite(a)
      PROVE  PlainTypes'
  BY <1>2 DEF AddRead, AddWrite, PlainTypes
<1>3. ASSUME NEW t \in PendingTxs, TrackElsewhere(t) \/ SendElsewhere(t)
      PROVE  PlainTypes'
  <2>1. UNCHANGED <<round, addressLock, overran>> /\ elsewhere' \subseteq PendingTxs
    BY <1>3 DEF TrackElsewhere, SendElsewhere, PlainTypes
  <2>2. lastNonce' = lastNonce \/ lastNonce' = t.nonce
    BY <1>3 DEF TrackElsewhere, SendElsewhere
  <2> QED
    BY <2>1, <2>2 DEF PlainTypes
<1>4. CASE Expire
  BY <1>4 DEF Expire, PlainTypes
<1> QED
  BY <1>1, <1>2, <1>3, <1>4, RoundPlain DEF PendingNext

\* The list is a sorted sequence of transactions, and the keys, the runs and the
\* additions around it keep their types, however rounds and additions overlap.
THEOREM PendingTypeCorrect == PendingSpec => []PendingTypeOK
<1>1. PendingInit => NonceInv /\ PlainTypes
  <2> SUFFICES ASSUME PendingInit PROVE PlainTypes
    BY NonceInitHolds
  <2>1. /\ lastNonce = NoLast /\ elsewhere = {}
        /\ addressLock \in BOOLEAN /\ overran \in BOOLEAN
    BY DEF PendingInit
  <2>2. \A r \in Rounds : round[r].at = "idle" /\ round[r].tx = {} /\ round[r].read = <<>>
    BY DEF PendingInit, Resting
  <2>3. \A r \in Rounds : /\ round[r].at \in RoundPlaces
                          /\ round[r].tx \subseteq PendingTxs /\ round[r].read \in Seq(PendingTxs)
    <3>1. <<>> \in Seq(PendingTxs) /\ "idle" \in RoundPlaces
      BY DEF RoundPlaces
    <3> QED
      BY Zenon, <2>2, <3>1
  <2>4. elsewhere \subseteq PendingTxs
    BY <2>1
  <2> QED
    BY <2>1, <2>3, <2>4 DEF PlainTypes
<1>2. NonceInv /\ PlainTypes /\ [PendingNext]_pendingVars => (NonceInv /\ PlainTypes)'
  BY NonceNextHolds, PlainNextHolds
<1>3. NonceInv /\ PlainTypes => PendingTypeOK
  BY DEF NonceInv, Possible, PlainTypes, RoundPlaces, AdderOK, PendingTypeOK
<1> QED
  BY <1>1, <1>2, <1>3, PTL DEF PendingSpec

----------------------------------------------------------------------------
(* The broadcast with retries: what is known at each place *)

Ends == {"succeeded", "conflict", "gaveUp"}

\* What the node took is known from the place of the call
ChainKnown ==
    /\ place \in {"record", "recordSigned", "succeeded"} => onChain
    /\ place \in {"recordSigned", "succeeded"} => request = "BROADCASTED"
    /\ place = "succeeded" => signedRow = "BROADCASTED"
    /\ request = "BROADCASTED" => onChain

\* While the database works the row of a batch's transaction is left alone, and
\* what is decided about was written FAILED before
FailureWritten ==
    /\ place \in {"caught", "caughtSigned"} => dbFailed
    /\ place \in {"markSigned", "failSigned"} => kind = "SINGLE"
    /\ kind = "BATCH" /\ place # "succeeded" /\ ~dbFailed => signedRow = "SIGNED"
    /\ place \in {"failSigned", "decide", "conflict", "gaveUp"} /\ ~dbFailed => request = "FAILED"
    /\ place \in {"decide", "conflict", "gaveUp"} /\ kind = "SINGLE" /\ ~dbFailed =>
         signedRow = "FAILED"

\* An attempt is only made while some are left
AttemptsLeft ==
    /\ place \notin Ends => attempt < MaxRetries
    /\ place = "gaveUp" => attempt = MaxRetries \/ "refusal" \in text \/ "outage" \notin text

RetryInv == RetryTypeOK /\ ChainKnown /\ FailureWritten /\ AttemptsLeft

----------------------------------------------------------------------------
(* Errors *)

\* The text of an error of the node is a set of fragments.
LEMMA TextType ==
    ASSUME NEW code, NEW own \in SUBSET Fragments
    PROVE  TextOf(code, own) \subseteq Fragments
BY DEF TextOf, DefaultText, Fragments

\* A failure of the database keeps everything but the place and the text.
LEMMA DbFailsEffect ==
    ASSUME RetryTypeOK, NEW next \in RetryPlaces, DbFails(next)
    PROVE  /\ text' \subseteq Fragments
           /\ dbFailed' = TRUE /\ place' = next
           /\ UNCHANGED <<request, signedRow>>
BY RetryAssumption DEF DbFails

----------------------------------------------------------------------------
(* The steps *)

LEMMA RetryInitHolds == RetryInit => RetryInv
<1> SUFFICES ASSUME RetryInit
             PROVE  RetryInv
  OBVIOUS
<1>1. attempt \in 0..MaxRetries /\ attempt < MaxRetries
  BY RetryAssumption DEF RetryInit
<1>2. RetryTypeOK
  <2>1. {request, signedRow} \subseteq RowStatus /\ {onChain, dbFailed} \subseteq BOOLEAN
    BY DEF RetryInit, RowStatus
  <2> QED
    BY <1>1, <2>1 DEF RetryInit, RetryTypeOK, RetryPlaces
<1>3. ChainKnown /\ FailureWritten /\ AttemptsLeft
  BY <1>1 DEF RetryInit, ChainKnown, FailureWritten, AttemptsLeft
<1> QED
  BY <1>2, <1>3 DEF RetryInv

\* The writes before the send.
LEMMA MarkSteps ==
    ASSUME RetryInv, MarkBroadcasting \/ MarkSignedBroadcasting
    PROVE  RetryInv'
<1>1. CASE MarkBroadcasting /\ ~DbFails("caught")
  BY <1>1 DEF MarkBroadcasting, Done, RetryInv, RetryTypeOK, ChainKnown, FailureWritten,
              AttemptsLeft, RowStatus, RetryPlaces, Ends
<1>2. CASE MarkSignedBroadcasting /\ ~DbFails("caught")
  BY <1>2 DEF MarkSignedBroadcasting, Done, RetryInv, RetryTypeOK, ChainKnown, FailureWritten,
              AttemptsLeft, RowStatus, RetryPlaces, Ends
<1>3. CASE DbFails("caught")
  <2>1. place \in {"mark", "markSigned"} /\ UNCHANGED <<kind, onChain, attempt>>
    BY DEF MarkBroadcasting, MarkSignedBroadcasting
  <2> QED
    BY <1>3, <2>1, DbFailsEffect
    DEF RetryInv, RetryTypeOK, ChainKnown, FailureWritten, AttemptsLeft, RowStatus,
        RetryPlaces, Ends
<1> QED
  BY <1>1, <1>2, <1>3

\* The answer of the node.
LEMMA NodeSteps ==
    ASSUME RetryInv, NodeTakes \/ NodeRefuses
    PROVE  RetryInv'
<1>1. text' \subseteq Fragments
  <2>1. CASE NodeTakes
    BY <2>1 DEF NodeTakes, Done, DefaultText, RetryInv, RetryTypeOK, Fragments
  <2>2. CASE NodeRefuses /\ onChain
    BY <2>2 DEF NodeRefuses, Fragments
  <2>3. CASE NodeRefuses /\ ~onChain
    BY <2>3, TextType, RetryAssumption DEF NodeRefuses
  <2> QED
    BY <2>1, <2>2, <2>3
<1>2. CASE NodeTakes
  BY <1>1, <1>2 DEF NodeTakes, Done, RetryInv, RetryTypeOK, ChainKnown, FailureWritten,
                    AttemptsLeft, RowStatus, RetryPlaces, Ends
<1>3. CASE NodeRefuses
  <2>1. /\ place = "send" /\ place' = "fail"
        /\ UNCHANGED <<kind, request, signedRow, onChain, attempt, dbFailed>>
    BY <1>3 DEF NodeRefuses
  <2> QED
    BY <1>1, <2>1 DEF RetryInv, RetryTypeOK, ChainKnown, FailureWritten,
                      AttemptsLeft, RowStatus, RetryPlaces, Ends
<1> QED
  BY <1>2, <1>3

\* The writes after the node took the transaction.
LEMMA RecordSteps ==
    ASSUME RetryInv, RecordBroadcasted \/ RecordSignedBroadcasted
    PROVE  RetryInv'
<1>1. CASE RecordBroadcasted /\ ~DbFails("caught")
  BY <1>1 DEF RecordBroadcasted, Done, RetryInv, RetryTypeOK, ChainKnown, FailureWritten,
              AttemptsLeft, RowStatus, RetryPlaces, Ends
<1>2. CASE RecordSignedBroadcasted /\ ~DbFails("caught")
  BY <1>2, RetryAssumption
  DEF RecordSignedBroadcasted, RetryInv, RetryTypeOK, ChainKnown, FailureWritten,
      AttemptsLeft, RowStatus, RetryPlaces, Ends
<1>3. CASE DbFails("caught")
  <2>1. place \in {"record", "recordSigned"} /\ UNCHANGED <<kind, onChain>>
    BY DEF RecordBroadcasted, RecordSignedBroadcasted
  <2>2. place' = "caught"
    BY <1>3 DEF DbFails
  <2>3. attempt' = attempt
    BY <2>2 DEF RecordBroadcasted, RecordSignedBroadcasted
  <2> QED
    BY <1>3, <2>1, <2>3, DbFailsEffect
    DEF RetryInv, RetryTypeOK, ChainKnown, FailureWritten, AttemptsLeft, RowStatus,
        RetryPlaces, Ends
<1> QED
  BY <1>1, <1>2, <1>3

\* The writes after a refusal.
LEMMA FailSteps ==
    ASSUME RetryInv, RecordFailed \/ RecordSignedFailed
    PROVE  RetryInv'
<1>1. CASE RecordFailed /\ ~DbFails("caught")
  BY <1>1 DEF RecordFailed, Done, RetryInv, RetryTypeOK, ChainKnown, FailureWritten,
              AttemptsLeft, RowStatus, RetryPlaces, Ends
<1>2. CASE RecordSignedFailed /\ ~DbFails("caught")
  BY <1>2 DEF RecordSignedFailed, Done, RetryInv, RetryTypeOK, ChainKnown, FailureWritten,
              AttemptsLeft, RowStatus, RetryPlaces, Ends
<1>3. CASE DbFails("caught")
  <2>1. place \in {"fail", "failSigned"} /\ UNCHANGED <<kind, onChain, attempt>>
    BY DEF RecordFailed, RecordSignedFailed
  <2> QED
    BY <1>3, <2>1, DbFailsEffect
    DEF RetryInv, RetryTypeOK, ChainKnown, FailureWritten, AttemptsLeft, RowStatus,
        RetryPlaces, Ends
<1> QED
  BY <1>1, <1>2, <1>3

\* The writes of the catch block, after a failure of the database.
LEMMA CatchSteps ==
    ASSUME RetryInv, CatchFailed \/ CatchSignedFailed
    PROVE  RetryInv'
<1>1. CASE CatchFailed
  BY <1>1 DEF CatchFailed, Done, RetryInv, RetryTypeOK, ChainKnown, FailureWritten,
              AttemptsLeft, RowStatus, RetryPlaces, Ends
<1>2. CASE CatchSignedFailed
  BY <1>2 DEF CatchSignedFailed, Done, RetryInv, RetryTypeOK, ChainKnown, FailureWritten,
              AttemptsLeft, RowStatus, RetryPlaces, Ends
<1> QED
  BY <1>1, <1>2

\* The decision: another attempt is made only when one is left.
LEMMA DecideStep ==
    ASSUME RetryInv, AfterFailure
    PROVE  RetryInv'
<1>1. /\ place = "decide" /\ attempt' = attempt + 1
      /\ place' = Decide(text, attempt + 1)
      /\ UNCHANGED <<kind, request, signedRow, onChain, text, dbFailed>>
  BY DEF AfterFailure
<1>2. attempt \in Nat /\ attempt + 1 \in 0..MaxRetries
  BY <1>1, RetryAssumption DEF RetryInv, RetryTypeOK, AttemptsLeft, Ends
<1>3. /\ place' \in {"mark", "conflict", "gaveUp"}
      /\ place' = "mark" => attempt + 1 < MaxRetries
      /\ place' = "gaveUp" =>
           attempt + 1 = MaxRetries \/ "refusal" \in text \/ "outage" \notin text
  BY <1>1, <1>2, RetryAssumption DEF Decide, IsRetryableText
<1> QED
  BY <1>1, <1>2, <1>3
  DEF RetryInv, RetryTypeOK, ChainKnown, FailureWritten, AttemptsLeft, RowStatus,
      RetryPlaces, Ends

LEMMA RetryNextHolds == RetryInv /\ [RetryNext]_retryVars => RetryInv'
<1> SUFFICES ASSUME RetryInv, [RetryNext]_retryVars
             PROVE  RetryInv'
  OBVIOUS
<1>1. CASE UNCHANGED retryVars
  BY <1>1 DEF retryVars, RetryInv, RetryTypeOK, ChainKnown, FailureWritten, AttemptsLeft
<1>2. CASE RetryNext
  BY <1>2, MarkSteps, NodeSteps, RecordSteps, FailSteps, CatchSteps, DecideStep DEF RetryNext
<1> QED
  BY <1>1, <1>2

----------------------------------------------------------------------------
(* The theorems *)

LEMMA RetryInvariance == RetrySpec => []RetryInv
BY RetryInitHolds, RetryNextHolds, PTL DEF RetrySpec

\* The rows, the attempts and the error of broadcastWithRetry keep their types.
THEOREM RetryTypeCorrect == RetrySpec => []RetryTypeOK
<1>1. RetryInv => RetryTypeOK
  BY DEF RetryInv
<1> QED
  BY <1>1, RetryInvariance, PTL

\* What broadcastWithRetry returns agrees with the rows and with the chain, after
\* any number of attempts and whatever the node and the database answer.
THEOREM OutcomeIsTrue == RetrySpec => []OutcomeTrue
<1>1. RetryInv => OutcomeTrue
  BY DEF RetryInv, RetryTypeOK, ChainKnown, FailureWritten, AttemptsLeft, OutcomeTrue
<1> QED
  BY <1>1, RetryInvariance, PTL

----------------------------------------------------------------------------
(* The parts together *)

\* A behaviour of the composition is one of every part: the part in focus moves, and a
\* part out of focus rests.
LEMMA PartsImplement == PartsSpec => Spec /\ BatchSpec /\ PendingSpec /\ RetrySpec
<1>1. PartsInit => Init /\ BatchInit /\ PendingInit /\ RetryInit
  BY DEF PartsInit
<1>2. [PartsNext]_partsVars =>
        [Next]_serviceVars /\ [BatchNext]_batchVars /\ [PendingNext]_pendingVars /\ [RetryNext]_retryVars
  BY Zenon DEF PartsNext, partsVars, Next
<1> QED
  BY <1>1, <1>2, PTL DEF PartsSpec, Spec, BatchSpec, PendingSpec, RetrySpec

\* Every variable of the recovery service, of the signing of batches, of the list of
\* pending transactions and of broadcastWithRetry has its type, for any constants.
THEOREM PartsTypeCorrect == PartsSpec => []PartsTypeOK
<1>1. TypeOK /\ BatchTypeOK /\ PendingTypeOK /\ RetryTypeOK => PartsTypeOK
  BY DEF PartsTypeOK
<1> QED
  BY <1>1, PartsImplement, ServiceTypeCorrect, BatchTypeCorrect, PendingTypeCorrect,
     RetryTypeCorrect, PTL

\* What is proved of each part holds of the composition the run explores, for any
\* constants: a dead message is counted once and ends, only what can be mended goes
\* back, the queue hands out the most urgent message, batches are split and paid
\* soundly and their nonces accounted for, the list keeps its nonces and its lock, and
\* the outcome of a broadcast is true.
THEOREM PartsAreCorrect ==
    PartsSpec => /\ [](CountedOnce /\ EntriesEnd /\ OnlyMendableReturned)
                 /\ TakesMostUrgent
                 /\ [](SplitSound /\ ReturnedComplete /\ NonceAccounted)
                 /\ [](NonceKept /\ AddressExclusive)
                 /\ []OutcomeTrue
<1>1. Spec => [](CountedOnce /\ EntriesEnd /\ OnlyMendableReturned) /\ TakesMostUrgent
  BY DeliveriesCountedOnce, AllEntriesEnd, OnlyMendableGoesBack, MostUrgentIsTaken, PTL
<1>2. BatchSpec => [](SplitSound /\ ReturnedComplete /\ NonceAccounted)
  BY SplitsAreSound, ReturnsAreComplete, NoncesAreAccounted, PTL
<1>3. PendingSpec => [](NonceKept /\ AddressExclusive)
  BY NoNonceDropsOut, AddressIsExclusive, PTL
<1> QED
  BY <1>1, <1>2, <1>3, PartsImplement, OutcomeIsTrue, PTL
=============================================================================
