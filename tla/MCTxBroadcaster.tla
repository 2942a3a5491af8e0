-------------------------- MODULE MCTxBroadcaster --------------------------
(***************************************************************************)
(* The workers that the configurations of TxBroadcaster name.              *)
(***************************************************************************)
EXTENDS TxBroadcaster

CONSTANTS w1, w2, w3
=============================================================================
