---------------------------- MODULE Reachability ----------------------------
(***************************************************************************)
(* What a SPARQL property path "p+" means over a finite set of edges: the  *)
(* keys reached from a key by one or more edges.  The set is defined as    *)
(* the least set closed under following edges, with no recursion, so that  *)
(* the provers can reason about it.  This is the reference the traversal   *)
(* code and the extended index of HodDB are measured against.              *)
(***************************************************************************)

\* The keys at either end of an edge.
Ends(edges) == {e[1] : e \in edges} \cup {e[2] : e \in edges}

\* S holds the successors of start, and the successors of its own members.
ClosedFrom(edges, start, S) ==
    \A e \in edges : (e[1] = start \/ e[1] \in S) => e[2] \in S

\* The keys that one or more edges lead to from start.
ReachPlus(edges, start) ==
    {y \in Ends(edges) :
        \A S \in SUBSET Ends(edges) : ClosedFrom(edges, start, S) => y \in S}
=============================================================================
