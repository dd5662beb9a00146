------------------------------ MODULE QueryPlan ------------------------------
(***************************************************************************)
(* How HodDB plans one query (db/dependency.go, db/plan.go): it orders the *)
(* terms of the WHERE clause so that each shares a variable with the one   *)
(* before it, then chooses for each term, in that order, the operation     *)
(* that will resolve it, from what earlier operations have resolved.       *)
(*                                                                         *)
(* A term is [s, p, o]: what is not in Var is a constant.  Only the first  *)
(* step of a path decides, as in the code ("for now just look at first     *)
(* item in path").                                                         *)
(***************************************************************************)
EXTENDS Naturals, Sequences, FiniteSets, SequencesExt

CONSTANTS
    Var,        \* the variables of queries
    Constant,   \* the URIs of queries
    Queries,    \* the WHERE clauses that may be planned
    RESOLVED,   \* qp.vars of a variable an operation resolves by itself
    UNRESOLVED  \* qp.vars of a variable no operation has resolved

Term == [s : Var \cup Constant, p : Var \cup Constant, o : Var \cup Constant]

ASSUME NamesAssumption == Var \cap Constant = {}
ASSUME MarksAssumption == RESOLVED \notin Var /\ UNRESOLVED \notin Var /\ RESOLVED # UNRESOLVED
ASSUME QueriesAssumption == Queries \subseteq Seq(Term)

VARIABLES
    query,      \* q.Where.Terms
    pc,         \* "root", "order", "form", "planned" or "panic"
    terms,      \* dg.terms: what is still to be ordered
    plan,       \* dg.plan
    links,      \* qp.vars
    operations  \* qp.operations: the name of each, with the variable it starts from

vars == <<query, pc, terms, plan, links, operations>>

\* The variables of a term, one position after the other.
TermVars(t) ==
    LET var(x) == IF x \in Var THEN <<x>> ELSE <<>>
    IN var(t.s) \o var(t.p) \o var(t.o)

\* Two terms having more than one variable in common.
SlipOverlaps(t, u) == Cardinality(Range(TermVars(t)) \cap Range(TermVars(u))) > 1

\* overlap(other) > 0
Overlaps(t, u) == Range(TermVars(t)) \cap Range(TermVars(u)) # {}

Init ==
    /\ query \in Queries
    /\ pc = "root"
    /\ terms = query
    /\ plan = <<>>
    /\ links = [v \in Var |-> UNRESOLVED]
    /\ operations = <<>>

-----------------------------------------------------------------------------
(* makeDependencyGraph: the order of the terms.                            *)

\* The first of the terms with the fewest variables, but at least one.
IsRoot(i) ==
    LET count(j) == Len(TermVars(terms[j]))
    IN /\ count(i) > 0
       /\ \A j \in DOMAIN terms : count(j) > 0 => count(i) <= count(j)
       /\ \A j \in 1 .. i - 1 : count(j) # count(i)

Take(i) ==
    /\ plan' = Append(plan, terms[i])
    /\ terms' = RemoveAt(terms, i)

ChooseRoot ==
    /\ pc = "root"
    /\ \E i \in DOMAIN terms : IsRoot(i) /\ Take(i)
    /\ pc' = "order"
    /\ UNCHANGED <<query, links, operations>>

\* No term has a variable: *next is a nil dereference.
NoRoot ==
    /\ pc = "root"
    /\ ~ \E i \in DOMAIN terms : IsRoot(i)
    /\ pc' = "panic"
    /\ UNCHANGED <<query, terms, plan, links, operations>>

\* The first remaining term that overlaps the term chosen last.
Follows(i) ==
    /\ Overlaps(terms[i], Last(plan))
    /\ \A j \in 1 .. i - 1 : ~ Overlaps(terms[j], Last(plan))

\* When no term follows, the outer loop goes round forever: nothing is enabled.
ChooseNext ==
    /\ pc = "order"
    /\ \E i \in DOMAIN terms : Follows(i) /\ Take(i)
    /\ UNCHANGED <<query, pc, links, operations>>

Ordered ==
    /\ pc = "order"
    /\ terms = <<>>
    /\ pc' = "form"
    /\ UNCHANGED <<query, terms, plan, links, operations>>

-----------------------------------------------------------------------------
(* formQueryPlan: an operation for each term of the plan.                  *)

\* The other terms of the query resolving its variables, whatever their order.
SlipHasVar(v) == v \in UNION {Range(TermVars(t)) : t \in Range(plan)}

hasVar(v) == v \in Var /\ links[v] # UNRESOLVED
varIsChild(v) == hasVar(v) /\ links[v] # RESOLVED
varIsTop(v) == hasVar(v) /\ links[v] = RESOLVED

\* What qp.vars becomes.
TopLevel(v) == IF varIsChild(v) THEN links ELSE [links EXCEPT ![v] = RESOLVED]
Link(parent, child) == [links EXCEPT ![child] = parent]

Operation(name, from) == [name |-> name, from |-> from]

\* The operation starts from nothing, from the constants of the term, or from
\* the values some earlier operation found for a variable of it.
NoVar == UNRESOLVED

Three(t) ==
    /\ operations' = Append(operations,
          CASE hasVar(t.s) -> Operation("resolveVarTripleFromSubject", t.s)
            [] ~ hasVar(t.s) /\ hasVar(t.o) -> Operation("resolveVarTripleFromObject", t.o)
            [] ~ hasVar(t.s) /\ ~ hasVar(t.o) /\ hasVar(t.p) ->
                    Operation("resolveVarTripleFromPredicate", t.p)
            [] OTHER -> Operation("resolveVarTripleAll", NoVar))
    /\ links' = links

\* Which end of a restriction is the parent: a child before a top level
\* variable, the subject before the object.
RestrictParent(t) ==
    IF varIsChild(t.s) \/ (~ varIsChild(t.o) /\ varIsTop(t.s)) THEN t.s ELSE t.o

SubjectAndObject(t) ==
    \/ /\ hasVar(t.s) /\ hasVar(t.o)
       /\ LET parent == RestrictParent(t)
          IN links' = Link(parent, IF parent = t.s THEN t.o ELSE t.s)
       /\ operations' = Append(operations, Operation("restrictSubjectObjectByPredicate", RestrictParent(t)))
    \/ /\ ~ hasVar(t.s) /\ hasVar(t.o)
       /\ links' = Link(t.o, t.s)
       /\ operations' = Append(operations, Operation("resolveSubjectFromVarObject", t.o))
    \/ /\ hasVar(t.s) /\ ~ hasVar(t.o)
       /\ links' = Link(t.s, t.o)
       /\ operations' = Append(operations, Operation("resolveObjectFromVarSubject", t.s))
    \/ /\ ~ hasVar(t.s) /\ ~ hasVar(t.o)
       /\ links' = Link(t.s, t.o)
       /\ operations' = Append(operations, Operation("resolveSubjectObjectFromPred", NoVar))

One(t, name, v) ==
    /\ links' = TopLevel(v)
    /\ operations' = Append(operations, Operation(name, NoVar))

Two(t, name, parent, child) ==
    /\ links' = Link(parent, child)
    /\ operations' = Append(operations, Operation(name, NoVar))

\* The default of the switch, an error for a term without a variable, is left
\* out: such a term overlaps nothing and is never the root, so no plan has one.
Choose(t) ==
    LET S == t.s \in Var
        P == t.p \in Var
        O == t.o \in Var
    IN \/ S /\ P /\ O /\ Three(t)
       \/ S /\ ~ P /\ O /\ SubjectAndObject(t)
       \/ S /\ P /\ ~ O /\ Two(t, "resolveSubjectPredFromObject", t.s, t.p)
       \/ ~ S /\ P /\ O /\ Two(t, "resolvePredObjectFromSubject", t.o, t.p)
       \/ S /\ ~ P /\ ~ O /\ One(t, "resolveSubject", t.s)
       \/ ~ S /\ ~ P /\ O /\ One(t, "resolveObject", t.o)
       \/ ~ S /\ P /\ ~ O /\ One(t, "resolvePredicate", t.p)

FormOperation ==
    /\ pc = "form"
    /\ Len(operations) < Len(plan)
    /\ Choose(plan[Len(operations) + 1])
    /\ UNCHANGED <<query, pc, terms, plan>>

Planned ==
    /\ pc = "form"
    /\ Len(operations) = Len(plan)
    /\ pc' = "planned"
    /\ UNCHANGED <<query, terms, plan, links, operations>>

Next == ChooseRoot \/ NoRoot \/ ChooseNext \/ Ordered \/ FormOperation \/ Planned

Spec == Init /\ [][Next]_vars

\* Planning is sequential code of one goroutine: it goes on while it can.
FairSpec == Spec /\ WF_vars(Next)

-----------------------------------------------------------------------------
(* Properties.                                                             *)

Operations == {"resolveSubject", "resolveObject", "resolvePredicate",
    "restrictSubjectObjectByPredicate", "resolveSubjectFromVarObject",
    "resolveObjectFromVarSubject", "resolveSubjectObjectFromPred",
    "resolveSubjectPredFromObject", "resolvePredObjectFromSubject",
    "resolveVarTripleFromSubject", "resolveVarTripleFromObject",
    "resolveVarTripleFromPredicate", "resolveVarTripleAll"}

\* The ranges of the variables; operations are formed only from a whole plan.
TypeOK ==
    /\ query \in Queries
    /\ pc \in {"root", "order", "form", "planned", "panic"}
    /\ terms \in Seq(Term)
    /\ plan \in Seq(Term)
    /\ links \in [Var -> Var \cup {RESOLVED, UNRESOLVED}]
    /\ operations \in Seq([name : Operations, from : Var \cup {NoVar}])
    /\ pc \in {"form", "planned"} => terms = <<>>

Shares(t, u) == \E v \in Var : v \in Range(TermVars(t)) /\ v \in Range(TermVars(u))

Occurrences(t, s) == Cardinality({i \in DOMAIN s : s[i] = t})

\* No term of the query is lost or planned twice while makeDependencyGraph
\* splices dg.terms under the range loop over it, a term written twice included.
TermsKept ==
    \A t \in Range(query) \cup Range(plan) :
        Occurrences(t, plan) + Occurrences(t, terms) = Occurrences(t, query)

\* An operation that starts from the values of a variable comes after one whose
\* term mentions the variable (the marks addTopLevel and addLink leave in
\* qp.vars are never ahead of the operations).
StartsResolved ==
    \A n \in DOMAIN operations :
        operations[n].from # NoVar =>
            \E m \in 1 .. n - 1 : operations[n].from \in Range(TermVars(plan[m]))

\* A query each two terms of which share a variable is planned in the end.
Star(q) == q # <<>> /\ \A i, j \in DOMAIN q : Shares(q[i], q[j])

StarsPlanned == Star(query) ~> pc = "planned"

-----------------------------------------------------------------------------
(* What the tests take for granted and the planner does not do.            *)

\* db_test.go:305, query UIQuerySlow1 "... ?5bbd bf:isLocationOf ?d5e5 . ?d5e5
\* rdf:type brick:Lighting_System . ?d5e5 ?0046 ?c511 . ?5bbd bf:isLocationOf
\* ?0ad0 ...": a query whose terms hang together, one way or another, is planned.
HangsTogether(q) ==
    /\ q # <<>>
    /\ \A A \in SUBSET DOMAIN q :
          A # {} /\ A # DOMAIN q =>
              \E i \in A, j \in DOMAIN q \ A : Shares(q[i], q[j])

PlanningEnds == HangsTogether(query) ~> pc = "planned"

\* db_test.go:340 "INSERT { bldg:abc rdf:type brick:Room2 } WHERE {};": a query
\* without terms is planned like any other, and planning never panics.
NeverPanics == pc # "panic"
=============================================================================
