------------------------------ MODULE MCParts ------------------------------
(***************************************************************************)
(* Constants for model checking Parts.                                     *)
(***************************************************************************)
EXTENDS Parts, TLC

CONSTANTS m1, m2, p1, p2, c1, c2, usdt, msq, q1, q2, a1, a2

\* The recovery service: up to two patterns in one text
MCTexts == {{}} \cup {{a, b} : a \in Patterns, b \in Patterns}

\* Batches: one too large for the gas of a batch, one that is so by some estimates
\* only, one with a repeated identifier, one above the maximum of its token
Transfer(i, t, a) == [id |-> i, token |-> t, amount |-> a]

MCMaxTransfer == [t \in Tokens |-> IF t = usdt THEN 4 ELSE 0]

Four == <<Transfer(1, usdt, 2), Transfer(2, msq, 5), Transfer(3, usdt, 2), Transfer(4, msq, 1)>>
Two == <<Transfer(5, usdt, 1), Transfer(6, msq, 1)>>
Repeated == <<Transfer(7, usdt, 1), Transfer(7, msq, 1)>>
TooMuch == <<Transfer(8, usdt, 2), Transfer(9, usdt, 3)>>

MCWorks ==
    [kind : {"split"}, batch : {Four, Two}]
      \cup [kind : {"batch"}, batch : {Four, Repeated, TooMuch}]
      \cup [kind : {"single"}, batch : {<<Transfer(10, usdt, 9)>>}]

\* The list: two transactions of nonce 0, the one of higher priority malformed
MCPendingTxs ==
    {[key |-> "a", nonce |-> 0, priority |-> 0],
     [key |-> "b", nonce |-> 0, priority |-> 1],
     [key |-> "c", nonce |-> 1, priority |-> 0]}

MCMalformed == {t \in MCPendingTxs : t.key = "b"}

\* Retries: up to two fragments in one text
MCNodeTexts == {T \in SUBSET Fragments : \E f, g \in Fragments : T \subseteq {f, g}}

Symmetry == Permutations(Rounds) \cup Permutations(Adders) \cup Permutations(Calls)
=============================================================================
