-------------------------- MODULE MCNonceAllocation --------------------------
(***************************************************************************)
(* Constants for model checking NonceAllocation.                           *)
(***************************************************************************)
EXTENDS NonceAllocation, TLC

CONSTANTS i1, i2

\* Either nobody runs at the start, or everybody does
ColdOrRunning == {{}, {i1, i2}}
Cold == {{}}

Symmetry == Permutations(Instances)
=============================================================================
