----------------------------- MODULE MCPathQuery -----------------------------
(***************************************************************************)
(* Three entities.  Predicate p has any graph of at most MaxEdges edges    *)
(* and any extended index: present or not for each key, computed from all  *)
(* edges or before the last was added.  Predicate q has one fixed graph    *)
(* and no entries.                                                         *)
(***************************************************************************)
EXTENDS PathQuery

CONSTANTS MaxEdges, k1, k2, k3, p, q

MCKey == {k1, k2, k3}
MCPredicate == {p, q}

Of(pred, pairs) == {<<e[1], pred, e[2]>> : e \in pairs}
QEdges == Of(q, {<<k1, k2>>, <<k2, k3>>})

PGraphs == UNION {kSubset(n, MCKey \X MCKey) : n \in 0..MaxEdges}

MCDatabases ==
    UNION {{[edges |-> Of(p, g) \cup QEdges, old |-> Of(p, o) \cup QEdges,
             indexed |-> i \X {p}] :
                o \in {g} \cup {g \ {e} : e \in g}, i \in SUBSET MCKey} : g \in PGraphs}

Seg(pred, pattern) == [pred |-> pred, pattern |-> pattern]

\* Each pattern alone, before and after a hop over q, p+ twice, and a predicate
\* the database does not know.
MCPaths ==
    {<<Seg(p, m)>> : m \in Pattern}
    \cup {<<Seg(p, m), Seg(q, "single")>> : m \in {"single", "zeroPlus", "onePlus"}}
    \cup {<<Seg(q, "onePlus"), Seg(p, m)>> : m \in {"zeroOne", "zeroPlus", "onePlus"}}
    \cup {<<Seg(p, "zeroPlus"), Seg(q, "single"), Seg(p, "onePlus")>>,
          <<Seg(q, "onePlus"), Seg(Blank, "zeroPlus")>>}

MCQueries ==
    [from : {"subject", "object"}, start : {k1}, path : MCPaths]
    \cup [from : {"neither"}, start : {k1},
          path : {<<Seg(p, "single")>>, <<Seg(p, "onePlus")>>}]

\* A path of three segments over q alone.
LongQueries ==
    [from : {"subject", "object"}, start : {k1, k3},
     path : {<<Seg(q, "zeroOne"), Seg(q, "single"), Seg(q, "single")>>}]
=============================================================================
