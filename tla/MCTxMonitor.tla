----------------------------- MODULE MCTxMonitor -----------------------------
(***************************************************************************)
(* Constants for model checking TxMonitor.                                 *)
(***************************************************************************)
EXTENDS TxMonitor, TLC

CONSTANTS t1, t2, c1, c2

\* Two checks at a time and a result that comes twice; or three sockets, two of which are lost
MCBounds ==
    {[adds |-> 2, checks |-> 2, sockets |-> 2, drops |-> 0],
     [adds |-> 1, checks |-> 1, sockets |-> 3, drops |-> 2]}

Symmetry == Permutations(Checkers)
=============================================================================
