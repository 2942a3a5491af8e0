--------------------------- MODULE MCSigningWorker ---------------------------
(***************************************************************************)
(* Constants for model checking SigningWorker.                             *)
(***************************************************************************)
EXTENDS SigningWorker, TLC

CONSTANTS r1, r2, i1, i2, usdt

Both == {r1, r2}
One == {r1}
AllUsdt == [r \in Requests |-> usdt]

Symmetry == Permutations(Requests) \cup Permutations(Instances)
=============================================================================
