------------------------------ MODULE SignOnce ------------------------------
(***************************************************************************)
(* What the signing stage promises of each withdrawal request, whatever    *)
(* the number of instances, messages and errors.  A request is open until  *)
(* somebody takes it; whoever holds it may give it back, send one signed   *)
(* transaction for it, or drop it.  Once it is closed it stays closed, so  *)
(* at most one signed transaction pays it.                                 *)
(***************************************************************************)
EXTENDS Naturals

CONSTANT Requests

VARIABLES
    phase,     \* of each request
    sent       \* signed transactions sent for each request

ovars == <<phase, sent>>

Phases == {"open", "held", "closed"}

OnceInit ==
    /\ phase = [r \in Requests |-> "open"]
    /\ sent = [r \in Requests |-> 0]

\* The requests of R, all in one of the phases `from', move to phase `to'
Shift(R, from, to) ==
    /\ \A r \in R : phase[r] \in from
    /\ phase' = [r \in Requests |-> IF r \in R THEN to ELSE phase[r]]

Take(r) == Shift({r}, {"open"}, "held") /\ UNCHANGED sent

GiveBack(r) == Shift({r}, {"held"}, "open") /\ UNCHANGED sent

\* One transaction may pay several requests: a batch
Send(R) ==
    /\ Shift(R, {"held"}, "closed")
    /\ sent' = [r \in Requests |-> IF r \in R THEN sent[r] + 1 ELSE sent[r]]

Drop(R) == Shift(R, {"open", "held"}, "closed") /\ UNCHANGED sent

OnceNext ==
    \/ \E r \in Requests : Take(r) \/ GiveBack(r)
    \/ \E R \in SUBSET Requests : Send(R) \/ Drop(R)

OnceSpec == OnceInit /\ [][OnceNext]_ovars
=============================================================================
