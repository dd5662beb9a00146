------------------------------ MODULE TripleSet ------------------------------
(***************************************************************************)
(* What a HodDB database promises its writers, with no stores, loops or    *)
(* commits: it is a set of facts, an insert adds a batch in one step, and  *)
(* predicates declared inverse to each other always mirror each other.     *)
(***************************************************************************)
EXTENDS Sequences

CONSTANTS InverseOf, Batches

VARIABLE facts

\* The predicates F declares to be inverse to p, whichever way round.
InversesIn(F, p) ==
    {d[3] : d \in {e \in F : e[2] = InverseOf /\ e[1] = p}} \cup
    {d[1] : d \in {e \in F : e[2] = InverseOf /\ e[3] = p}}

\* F with the facts its inverse declarations imply.
Mirrored(F) ==
    F \cup UNION {{<<t[3], q, t[1]>> : q \in InversesIn(F, t[2])} : t \in F}

Init == facts = {}

Insert(b) == facts' = Mirrored(facts \cup {b[i] : i \in DOMAIN b})

Next == \E b \in Batches : Insert(b)

Spec == Init /\ [][Next]_facts
=============================================================================
