----------------------------- MODULE MCFrontEnd -----------------------------
(***************************************************************************)
(* A caller that selects beside one that inserts; two databases that       *)
(* expand the prefix alike and one that does not; two branches; rows of    *)
(* two columns, most of which Less does not order; two entries in the      *)
(* cache.  Facts of b1 are read from the entry of their own triples, those *)
(* of b2 also from one that no insert evicts.                              *)
(* MCFrontEndCache.cfg has a third caller and one database: a query that   *)
(* overlaps the insert, and one after it.                                  *)
(***************************************************************************)
EXTENDS FrontEnd, TLC

CONSTANTS c1, c2, c3, d1, d2, d3, b1, b2, k1, k2

x == <<0, 0>>
y == <<0, 1>>
a == <<1, 2>>
b == <<2, 1>>
e == <<2, 3>>
MCURI == {x, y, a, b, e}
MCVariable == {x, y}
MCLeftover == a

MCFull == d1 :> 1 @@ d2 :> 1 @@ d3 :> 2
MCVarsOf == b1 :> {x, y} @@ b2 :> {x, y}
MCUnseen == {<<d2, b2>>}

XY(u, v) == x :> u @@ y :> v
F(br, u, v) == <<br, XY(u, v)>>

MCContents ==
    {d1 :> {F(b1, a, b), F(b1, b, a), F(b2, e, b)} @@ d2 :> D @@ d3 :> {F(b1, b, b)} :
        D \in {{}, {F(b1, a, b), F(b2, b, b)}}}

Select(dbs, branches, count, all) ==
    [insert |-> FALSE, count |-> count, all |-> all,
     union |-> Cardinality(branches) > 1, dbs |-> dbs, branches |-> branches,
     vars |-> <<x, y>>, terms |-> {}]
Insert(dbs, branch, terms) ==
    [insert |-> TRUE, count |-> FALSE, all |-> TRUE, union |-> FALSE,
     dbs |-> dbs, branches |-> {branch}, vars |-> <<x, y>>, terms |-> terms]

Inserts == {Insert({d1, d2}, b2, {F(b1, a, a), F(b2, a, a)})}
MCQueries ==
    c1 :> ({Select({d1, d2}, {b1, b2}, FALSE, FALSE), Select({d1}, {b1, b2}, FALSE, TRUE)}
           \cup {Select({d1, d3}, {b1}, n, TRUE) : n \in BOOLEAN})
    @@ c2 :> Inserts

VariableQueries == c1 :> {Insert({d1, d2}, b2, {F(b1, x, a)})} @@ c2 :> Inserts

MCReads == b1 :> {k1} @@ b2 :> {k1, k2}
MCUnder == [f \in Fact |-> MCReads[f[1]]]
MCOwn == [f \in Fact |-> {k1}]

CacheFull == d1 :> 1
CacheURI == {x, a, b}
CacheVariable == {x}
CacheVarsOf == b1 :> {x} @@ b2 :> {x}
G(br, u) == <<br, x :> u>>
CacheContents == {d1 :> D : D \in {{}, {G(b1, a)}}}
Look(branches) == [Select({d1}, branches, FALSE, FALSE) EXCEPT !.vars = <<x>>]
Add(terms) == [Insert({d1}, b2, terms) EXCEPT !.vars = <<x>>]
CacheQueries ==
    c1 :> {Look({b1}), Look({b2})}
    @@ c2 :> {Add({G(b1, b)}), Add({G(b2, b)})}
    @@ c3 :> {Look({b1, b2})}
=============================================================================
