-------------------------- MODULE MCSnapshotCache --------------------------
(* Two inserts into one database and one or two queries beside them.        *)
EXTENDS SnapshotCache

CONSTANTS i1, i2, node, far

\* Both inserts write the graph and predicate entries of node; what the rollup
\* changes at the far end of a path, and what the second pass adds to the
\* inverse predicate, is written without being evicted.
MCWrites ==
    [i \in {i1, i2} |->
        [graph |-> {node}, pred |-> IF i = i1 THEN {node} ELSE {node, far},
         ext |-> IF i = i1 THEN {node, far} ELSE {}]]

\* An entry an insert evicts, and one that both change and only one evicts.
MCReads == {<<"graph", node>>, <<"ext", far>>}
MCEvicts == [i \in {i1, i2} |-> <<node>>]
=============================================================================
