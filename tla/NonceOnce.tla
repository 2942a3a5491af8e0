----------------------------- MODULE NonceOnce -----------------------------
(***************************************************************************)
(* What the allocation of nonces promises, whoever counts and however the  *)
(* count is kept.  A nonce is free, held by a transaction that is not      *)
(* signed yet, returned to the pool, or used.  A nonce that is given out   *)
(* is above every nonce that is held, returned or used, so the nonces of   *)
(* the wallet grow; a nonce that is used is used for ever, by the one      *)
(* transaction that held it; and what is returned is not held again.       *)
(***************************************************************************)
EXTENDS Naturals

CONSTANT Nonces

VARIABLE place     \* of each nonce

Put(N, from, to) ==
    /\ \A n \in N : place[n] \in from
    /\ place' = [n \in Nonces |-> IF n \in N THEN to ELSE place[n]]

Init == place = [n \in Nonces |-> "free"]

GiveOut(n) ==
    /\ \A m \in Nonces : place[m] # "free" => m < n
    /\ Put({n}, {"free"}, "held")

Use(n) == Put({n}, {"held"}, "used")

Return(n) == Put({n}, {"held"}, "returned")

\* Nonces that will not be used by the service: lost, taken from the pool, or gone with it
Forget(N) == Put(N, {"held", "returned"}, "free")

Next ==
    \/ \E n \in Nonces : GiveOut(n) \/ Use(n) \/ Return(n)
    \/ \E N \in SUBSET Nonces : Forget(N)

Spec == Init /\ [][Next]_place
=============================================================================
