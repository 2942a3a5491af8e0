-------------------------- MODULE MCWithdrawalApi --------------------------
(***************************************************************************)
(* Constants for model checking WithdrawalApi.                             *)
(***************************************************************************)
EXTENDS WithdrawalApi

CONSTANTS r1, r2, i1, i2, usdt

AllUsdt == [r \in Requests |-> usdt]
=============================================================================
