--------------------------- MODULE MCTripleStore ---------------------------
(* Small instances of TripleStore: three nodes, two predicates that are     *)
(* each other's inverse once the batch saying so has been inserted.         *)
EXTENDS TripleStore

CONSTANTS a, b, c, p, q, inverseOf, pPlus, qPlus, inverseOfPlus

MCKey == {a, b, c, p, q, inverseOf, pPlus, qPlus, inverseOfPlus}

\* "p+", "q+" and "inverseOf+"; no batch uses another key as a predicate.
MCPlusKey ==
    [k \in MCKey |-> CASE k = p -> pPlus
                       [] k = q -> qPlus
                       [] k = inverseOf -> inverseOfPlus
                       [] OTHER -> k]

Declare == <<p, inverseOf, q>>

\* Chains, a cycle, a loop, and a declaration of inverses apart from the edges.
MCBatches == {<< <<a, p, b>> >>, << <<b, p, c>> >>, << <<a, p, b>>, <<b, p, a>> >>,
              << <<b, q, b>> >>, << Declare >>}
=============================================================================
