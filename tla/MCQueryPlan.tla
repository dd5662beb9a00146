----------------------------- MODULE MCQueryPlan -----------------------------
(* Every WHERE clause of up to three terms out of ten that between them have *)
(* each mix of variables and constants, chains, stars and repeated variables.*)
EXTENDS QueryPlan

CONSTANTS x, y, z, k

T(s, p, o) == [s |-> s, p |-> p, o |-> o]

MCTerms == {T(x, k, k), T(k, k, y), T(k, y, k), T(x, k, y), T(y, k, z), T(x, k, x),
            T(x, y, k), T(k, y, z), T(x, y, z), T(k, k, k)}

MCQueries == UNION {[1 .. n -> MCTerms] : n \in 0 .. 3}

\* A room with two things in it, each of them of a type.
T2(s, o) == T(s, k, o)
TreeQueries == {<<T2(x, k), T2(x, y), T2(y, k), T2(x, z), T2(z, k)>>}
=============================================================================
