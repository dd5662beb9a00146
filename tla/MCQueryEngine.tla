---------------------------- MODULE MCQueryEngine ----------------------------
(* Every query of up to three terms out of eleven that between them have each *)
(* mix of variables and constants, all orders of a triangle with a term to    *)
(* start from, and three queries of four variables, over snapshots in which   *)
(* they have no, one or several solutions and any constant may be unknown.    *)
EXTENDS QueryEngine, TLC

CONSTANTS x, y, z, w, a, b, c, p, q

T(s, r, o) == [s |-> s, p |-> r, o |-> o]

MCTerms == {T(x, p, b), T(a, q, y), T(x, p, y), T(y, q, z), T(x, q, z), T(a, y, b),
            T(x, y, b), T(a, y, z), T(x, y, z), T(a, p, b), T(y, z, x)}

Triangle == <<T(x, p, b), T(x, p, y), T(y, q, z), T(x, q, z)>>

MCQueries == UNION {[1 .. n -> MCTerms] : n \in 0 .. 3}
    \cup {<<T(x, y, b), T(x, z, w), T(w, p, x)>>, <<T(x, y, b), T(x, z, w)>>,
          <<T(y, q, z), T(x, p, y), T(z, p, w)>>}
    \cup {[i \in 1 .. 4 |-> Triangle[f[i]]] : f \in Permutations(1 .. 4)}

TriangleQueries == {Triangle}

MCGraphs == {
    {},
    {<<a, p, b>>},
    {<<a, q, c>>, <<a, p, c>>},
    {<<a, p, b>>, <<a, p, c>>, <<b, q, c>>},
    {<<a, p, b>>, <<a, p, c>>, <<b, q, c>>, <<a, q, c>>, <<a, q, b>>},
    {<<a, p, b>>, <<b, p, a>>, <<b, p, b>>, <<a, q, b>>, <<a, q, p>>},
    {<<a, p, b>>, <<a, p, a>>, <<a, q, b>>, <<b, q, a>>, <<b, p, b>>, <<c, q, b>>}}
=============================================================================
