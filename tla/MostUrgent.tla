----------------------------- MODULE MostUrgent -----------------------------
(***************************************************************************)
(* What a priority queue promises, without saying how it is kept: a set of *)
(* messages of which the most urgent ready one is taken.  A message is     *)
(* ready when its retry time, if it has one, has come; among equal         *)
(* priorities the one inserted first is more urgent.                       *)
(***************************************************************************)
EXTENDS Naturals, FiniteSets

CONSTANT Capacity

VARIABLES waiting, now, out

vars == <<waiting, now, out>>

Ready(m) == m.due <= now

MoreUrgent(m, n) ==
    \/ m.prio > n.prio
    \/ m.prio = n.prio /\ m.born < n.born

Insert ==
    /\ Cardinality(waiting) < Capacity
    /\ \E m \in waiting' : m \notin waiting /\ waiting' = waiting \cup {m}
    /\ UNCHANGED <<now, out>>

Take ==
    /\ \E m \in waiting :
           /\ Ready(m) /\ \A n \in waiting : Ready(n) /\ n # m => MoreUrgent(m, n)
           /\ waiting' = waiting \ {m}
           /\ out' = m
    /\ UNCHANGED now

\* One message waits longer, and none becomes more urgent by it
Postpone ==
    /\ \E m \in waiting, n \in waiting' :
           /\ n.id = m.id /\ n.prio = m.prio /\ n.born = m.born /\ n.due >= now
           /\ waiting' = (waiting \ {m}) \cup {n}
    /\ UNCHANGED <<now, out>>

\* Every message of one id leaves, or all leave
Discard ==
    /\ \/ \E m \in waiting : waiting' = {n \in waiting : n.id # m.id}
       \/ waiting' = {}
    /\ UNCHANGED <<now, out>>

Pass == now' > now /\ UNCHANGED <<waiting, out>>

Init == waiting = {} /\ now \in Nat /\ out \in {<<>>}

Next == Insert \/ Take \/ Postpone \/ Discard \/ Pass

Spec == Init /\ [][Next]_vars
=============================================================================
