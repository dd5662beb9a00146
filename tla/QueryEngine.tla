----------------------------- MODULE QueryEngine -----------------------------
(***************************************************************************)
(* How HodDB answers one query (db/operators.go, relation.go, row.go,      *)
(* context.go): after QueryPlan has chosen the operations, the query takes *)
(* a snapshot and runs them one after the other over a relation of rows,   *)
(* remembering for each variable the values found for it.                  *)
(*                                                                         *)
(* A URI and its key are one Constant.  A constant predicate stands for a  *)
(* path of one step.  A row is a function of all variables, Empty (the     *)
(* code's emptyKey) where it has no value.  Rows are a set: a row twice in *)
(* the relation is one row of the answer.                                  *)
(***************************************************************************)
EXTENDS QueryPlan, Functions

CONSTANTS
    Graphs,     \* what the snapshot may hold: sets of <<subject, predicate, object>>
    Empty       \* the value of a variable a row has no value for

ASSUME GraphsAssumption == Graphs \subseteq SUBSET (Constant \X Constant \X Constant)
ASSUME EmptyAssumption == Empty \notin Constant

\* The model has no rows for a term that names a variable twice (?x p ?x).
ASSUME SimpleAssumption ==
    \A q \in Queries : \A t \in Range(q) : Cardinality(Range(TermVars(t))) = Len(TermVars(t))

VARIABLES
    run,            \* "waiting", "running", "answered", "failed", "panic" or "scrambled"
    graph,          \* the snapshot
    ran,            \* how many operations have run
    definitions,    \* ctx.definitions: the values of the variables that have some
    joined,         \* ctx.joined
    rows,           \* ctx.rel.rows
    added,          \* the rows ctx.rel.multiindex lists: joins do not maintain it
    answer          \* [vars |-> the selected variables, rows |-> the result rows]

engineVars == <<vars, run, graph, ran, definitions, joined, rows, added, answer>>

Row == [Var -> Constant \cup {Empty}]
NoAnswer == [vars |-> {}, rows |-> {}]

QueryVars(q) == UNION {Range(TermVars(t)) : t \in Range(q)}

EngineInit ==
    /\ Init
    /\ run = "waiting"
    /\ graph = {}
    /\ ran = 0
    /\ definitions = <<>>
    /\ joined = {}
    /\ rows = {}
    /\ added = {}
    /\ answer = NoAnswer

\* newQueryContext takes the snapshot when the plan is complete.
StartRun ==
    /\ pc = "planned" /\ run = "waiting"
    /\ graph' \in Graphs
    /\ run' = "running"
    /\ UNCHANGED <<vars, ran, definitions, joined, rows, added, answer>>

-----------------------------------------------------------------------------
(* The traversal and the values known so far.                              *)

\* Every URI of a triple has a key and a node, the predicate's too.
Known(c) == \E t \in graph : c \in {t[1], t[2], t[3]}

SubjectsOf(p, o) == {t[1] : t \in {u \in graph : u[2] = p /\ u[3] = o}}
ObjectsOf(s, p) == {t[3] : t \in {u \in graph : u[1] = s /\ u[2] = p}}

\* Both edge lists of the subject are searched, so either direction matches.
PredicatesBetween(s, o) ==
    {t[2] : t \in {u \in graph : <<u[1], u[3]>> \in {<<s, o>>, <<o, s>>}}}

defined(v) == v \in DOMAIN definitions

getValuesForVariable(v) == IF defined(v) THEN definitions[v] ELSE {}

\* A variable without values taken for one that admits none.
SlipValidValue(v, k) == k \in getValuesForVariable(v)

validValue(v, k) == defined(v) => k \in definitions[v]

restrictToResolved(v, values) == {k \in values : validValue(v, k)}

\* definitions with v set to values
WithDefinition(defs, v, values) ==
    [u \in DOMAIN defs \cup {v} |-> IF u = v THEN values ELSE defs[u]]

\* A variable keeps the values it has, unless these are none.
defineVariable(defs, v, values) ==
    IF v \in DOMAIN defs /\ defs[v] # {} THEN defs ELSE WithDefinition(defs, v, values)

\* Values recorded only for a variable that has some.
SlipUnionDefinitions(v, values) ==
    IF defined(v) THEN WithDefinition(definitions, v, restrictToResolved(v, values))
    ELSE definitions

\* An intersection, in spite of its name.
unionDefinitions(v, values) ==
    WithDefinition(definitions, v, restrictToResolved(v, values))

-----------------------------------------------------------------------------
(* The relation.                                                           *)

RowOf(v, a) == [u \in Var |-> IF u = v THEN a ELSE Empty]

\* The row of triple e for the variables of term t.
RowOfTriple(t, e) ==
    [u \in Var |-> CASE u = t.s -> e[1]
                     [] u = t.p -> e[2]
                     [] u = t.o -> e[3]
                     [] OTHER -> Empty]

Bound(row) == {v \in Var : row[v] # Empty}

\* Rows put together whether or not they agree.
SlipJoin(other, on, vs) ==
    {[v \in Var |-> IF v \in vs THEN m[2][v] ELSE m[1][v]] : m \in rows \X other}

\* The rows of the relation that agree on one variable with rows of another
\* one over the variables vs: whatever value they had for a variable of vs is
\* overwritten with the other row's.
Join(other, on, vs) ==
    {[v \in Var |-> IF v \in vs THEN m[2][v] ELSE m[1][v]] :
        m \in {n \in rows \X other : n[1][on] = n[2][on]}}

\* Rows appended, except those the index lists already.
Fresh(new, vs) == {r \in new : ~ \E a \in added : \A v \in vs : a[v] = r[v]}

AddValues(new, vs) ==
    /\ rows' = rows \cup Fresh(new, vs)
    /\ added' = added \cup Fresh(new, vs)

JoinWith(other, on, vs) ==
    /\ rows' = Join(other, on, vs)
    /\ UNCHANGED added
-----------------------------------------------------------------------------
(* The operations.                                                         *)

\* Operation `name` is the next to run, on term t.
Running(name, t) ==
    /\ run = "running"
    /\ ran < Len(operations)
    /\ operations[ran + 1].name = name
    /\ t = plan[ran + 1]

\* A run of the operation that returns without an error.
Done ==
    /\ ran' = ran + 1
    /\ UNCHANGED <<vars, run, graph, answer>>

\* The subject and object an operation looks up, and the predicate that
\* resolveSubjectObjectFromPred does.
Needs(t) ==
    IF t.s \in Var /\ t.o \in Var
      THEN IF operations[ran + 1].name = "resolveSubjectObjectFromPred" THEN {t.p} ELSE {}
      ELSE {t.s, t.o} \ Var

\* What the operations mean to do: the term is passed over, the rows remain.
SlipUnknown ==
    /\ run = "running"
    /\ ran < Len(operations)
    /\ \E c \in Needs(plan[ran + 1]) : ~ Known(c)
    /\ Done
    /\ UNCHANGED <<definitions, joined, rows, added>>

\* getHash wraps leveldb.ErrNotFound, so that no operation recognises it: what
\* looks like returning no error for an unknown URI fails the query.
Unknown ==
    /\ run = "running"
    /\ ran < Len(operations)
    /\ \E c \in Needs(plan[ran + 1]) : ~ Known(c)
    /\ run' = "failed"
    /\ UNCHANGED <<vars, graph, ran, definitions, joined, rows, added, answer>>

\* Later values start rows of their own as well.
SlipDefineOrJoin(v, values) ==
    /\ definitions' = unionDefinitions(v, values)
    /\ AddValues({RowOf(v, k) : k \in values}, {v})

\* The first values of a variable start rows of their own, later ones are joined.
DefineOrJoin(v, values) ==
    \/ /\ ~ defined(v)
       /\ definitions' = defineVariable(definitions, v, values)
       /\ AddValues({RowOf(v, k) : k \in values}, {v})
    \/ /\ defined(v)
       /\ definitions' = unionDefinitions(v, values)
       /\ JoinWith({RowOf(v, k) : k \in restrictToResolved(v, values)}, v, {v})

resolveSubject ==
    \E t \in Range(plan) :
        /\ Running("resolveSubject", t)
        /\ Known(t.o)
        /\ DefineOrJoin(t.s, SubjectsOf(t.p, t.o))
        /\ Done /\ UNCHANGED joined

resolveObject ==
    \E t \in Range(plan) :
        /\ Running("resolveObject", t)
        /\ Known(t.s)
        /\ DefineOrJoin(t.o, ObjectsOf(t.s, t.p))
        /\ Done /\ UNCHANGED joined

resolvePredicate ==
    \E t \in Range(plan) :
        /\ Running("resolvePredicate", t)
        /\ Known(t.s) /\ Known(t.o)
        /\ DefineOrJoin(t.p, PredicatesBetween(t.s, t.o))
        /\ Done /\ UNCHANGED joined

\* The rows found by following the path of t from each value of one of its
\* variables, the other end restricted to the values known for it.
Walk(t, from) ==
    LET to == IF from = t.s THEN t.o ELSE t.s
        end(e, v) == IF v = t.s THEN e[1] ELSE e[3]
    IN {RowOfTriple(t, e) : e \in {u \in graph :
            /\ u[2] = t.p
            /\ end(u, from) \in getValuesForVariable(from)
            /\ validValue(to, end(u, to))}}

RestrictFrom(t) ==
    CASE t.s \in joined -> t.s
      [] t.s \notin joined /\ t.o \in joined -> t.o
      [] OTHER -> IF Cardinality(getValuesForVariable(t.s)) < Cardinality(getValuesForVariable(t.o))
                    THEN t.s ELSE t.o

\* Joined on one of the two variables: the other's value in the row is lost.
restrictSubjectObjectByPredicate ==
    \E t \in Range(plan) :
        /\ Running("restrictSubjectObjectByPredicate", t)
        /\ JoinWith(Walk(t, RestrictFrom(t)), RestrictFrom(t), {t.s, t.o})
        /\ joined' = joined \cup {t.s, t.o}
        /\ Done /\ UNCHANGED definitions

\* One variable has values, the other gets them.
WalkAndJoin(t, from, to) ==
    LET found == Walk(t, from)
    IN /\ JoinWith(found, from, {from, to})
       /\ joined' = joined \cup {from, to}
       /\ definitions' = unionDefinitions(to, {r[to] : r \in found})

resolveSubjectFromVarObject ==
    \E t \in Range(plan) :
        /\ Running("resolveSubjectFromVarObject", t)
        /\ WalkAndJoin(t, t.o, t.s)
        /\ Done

resolveObjectFromVarSubject ==
    \E t \in Range(plan) :
        /\ Running("resolveObjectFromVarSubject", t)
        /\ WalkAndJoin(t, t.s, t.o)
        /\ Done

\* Both variables are joined, but neither is given values in definitions.
resolveSubjectObjectFromPred ==
    \E t \in Range(plan) :
        /\ Running("resolveSubjectObjectFromPred", t)
        /\ Known(t.p)
        /\ LET found == {RowOfTriple(t, e) : e \in {u \in graph : u[2] = t.p}}
               has(v) == defined(v) \/ v \in joined
           IN \/ has(t.s) /\ JoinWith(found, t.s, {t.s, t.o})
              \/ ~ has(t.s) /\ has(t.o) /\ JoinWith(found, t.o, {t.s, t.o})
              \/ ~ has(t.s) /\ ~ has(t.o) /\ AddValues(found, {t.s, t.o})
        /\ joined' = joined \cup {t.s, t.o}
        /\ Done /\ UNCHANGED definitions

\* Both variables defined, with no values unless they had some; none joined.
resolveSubjectPredFromObject ==
    \E t \in Range(plan) :
        /\ Running("resolveSubjectPredFromObject", t)
        /\ Known(t.o)
        /\ LET found == {RowOfTriple(t, e) : e \in {u \in graph :
                            u[3] = t.o /\ validValue(t.p, u[2]) /\ validValue(t.s, u[1])}}
           IN \/ defined(t.s) /\ JoinWith(found, t.s, {t.s, t.p})
              \/ ~ defined(t.s) /\ defined(t.p) /\ JoinWith(found, t.p, {t.s, t.p})
              \/ ~ defined(t.s) /\ ~ defined(t.p) /\ AddValues(found, {t.s, t.p})
        /\ definitions' = defineVariable(defineVariable(definitions, t.p, {}), t.s, {})
        /\ Done /\ UNCHANGED joined

\* Rows appended also to those of a variable that was defined but not joined.
resolvePredObjectFromSubject ==
    \E t \in Range(plan) :
        /\ Running("resolvePredObjectFromSubject", t)
        /\ Known(t.s)
        /\ LET found == {RowOfTriple(t, e) : e \in {u \in graph :
                            u[1] = t.s /\ validValue(t.p, u[2]) /\ validValue(t.o, u[3])}}
           IN \/ /\ t.p \in joined
                 /\ JoinWith(found, t.p, {t.p, t.o})
                 /\ UNCHANGED definitions
              \/ /\ t.p \notin joined /\ t.o \in joined
                 /\ JoinWith(found, t.o, {t.p, t.o})
                 /\ UNCHANGED definitions
              \/ /\ t.p \notin joined /\ t.o \notin joined
                 /\ AddValues(found, {t.p, t.o})
                 /\ definitions' = defineVariable(defineVariable(definitions, t.p, {}), t.o, {})
        /\ joined' = joined \cup {t.p, t.o}
        /\ Done

\* From the subject or the object: what is known of the other two variables
\* is neither asked for nor recorded.
VarTripleFrom(t, from, end) ==
    /\ defined(from)
    /\ JoinWith({RowOfTriple(t, e) : e \in {u \in graph : u[end] \in definitions[from]}},
                from, {t.s, t.p, t.o})
    /\ joined' = joined \cup {t.s, t.p, t.o}
    /\ Done /\ UNCHANGED definitions

resolveVarTripleFromSubject ==
    \E t \in Range(plan) :
        Running("resolveVarTripleFromSubject", t) /\ VarTripleFrom(t, t.s, 1)

resolveVarTripleFromObject ==
    \E t \in Range(plan) :
        Running("resolveVarTripleFromObject", t) /\ VarTripleFrom(t, t.o, 3)

\* db.predIndex has no entries: with any value the run panics, below.
resolveVarTripleFromPredicate ==
    \E t \in Range(plan) :
        /\ Running("resolveVarTripleFromPredicate", t)
        /\ defined(t.p) /\ definitions[t.p] = {}
        /\ JoinWith({}, t.p, {t.s, t.p, t.o})
        /\ joined' = joined \cup {t.s, t.p, t.o}
        /\ Done /\ UNCHANGED definitions

\* The relation is replaced by one that lists subject, predicate and object in
\* this order, which the context does not know of.  What a further operation of
\* another kind makes of it ("scrambled") is left out of the model.
resolveVarTripleAll ==
    \E t \in Range(plan) :
        /\ Running("resolveVarTripleAll", t)
        /\ rows = {}
        /\ rows' = {RowOfTriple(t, e) : e \in graph}
        /\ added' = rows'
        /\ joined' = joined \cup {t.s, t.p, t.o}
        /\ ran' = ran + 1
        /\ run' = IF operations[Min({ran + 2, Len(operations)})].name = "resolveVarTripleAll"
                    THEN "running" ELSE "scrambled"
        /\ UNCHANGED <<vars, graph, definitions, answer>>

\* A variable the plan takes for resolved has no definition: Iter on a nil
\* keymap.  predIndex[uri] is nil.  And resolveVarTripleAll finds rows.
Panics ==
    /\ \E t \in Range(plan) :
          \/ Running("resolveVarTripleFromSubject", t) /\ ~ defined(t.s)
          \/ Running("resolveVarTripleFromObject", t) /\ ~ defined(t.o)
          \/ Running("resolveVarTripleFromPredicate", t)
                /\ (defined(t.p) => definitions[t.p] # {})
          \/ Running("resolveVarTripleAll", t) /\ rows # {}
    /\ run' = "panic"
    /\ UNCHANGED <<vars, graph, ran, definitions, joined, rows, added, answer>>

-----------------------------------------------------------------------------
(* The answer.                                                             *)

Project(row, vs) == [v \in vs |-> row[v]]

\* Rows without a value for some selected variable are left out (or see ShortRow).
ResultRows(vs) == {Project(r, vs) : r \in {q \in rows : vs \subseteq Bound(q)}}

\* PopulateVars numbers the variables in the order of a Go map, any order, and
\* getResults reads by these numbers the relation of resolveVarTripleAll, whose
\* positions are those of its term.
Misread(t, row, position) ==
    [v \in DOMAIN position |->
        CASE position[v] = 1 -> row[t.s]
          [] position[v] = 2 -> row[t.p]
          [] position[v] = 3 -> row[t.o]
          [] OTHER -> Empty]

getResults ==
    /\ run = "running" /\ ran = Len(operations)
    /\ run' = "answered"
    /\ \E vs \in SUBSET QueryVars(query) \ {{}} :
          \/ /\ Last(operations).name # "resolveVarTripleAll"
             /\ answer' = [vars |-> vs, rows |-> ResultRows(vs)]
          \/ /\ Last(operations).name = "resolveVarTripleAll"
             /\ \E position \in Bijection(QueryVars(query), 1 .. Cardinality(QueryVars(query))) :
                   LET read == {Misread(Last(plan), r, position) : r \in rows}
                   IN answer' = [vars |-> vs, rows |->
                          {Project(r, vs) : r \in {q \in read : \A v \in vs : q[v] # Empty}}]
    /\ UNCHANGED <<vars, graph, ran, definitions, joined, rows, added>>

\* hashRowWithPos slices the row without asking for its length: a row too short
\* to have a place for a selected variable panics, unless its 64 bytes are new
\* rather than a released row's.
ShortRow ==
    /\ run = "running" /\ ran = Len(operations)
    /\ \E r \in rows : ~ QueryVars(query) \subseteq Bound(r)
    /\ run' = "panic"
    /\ UNCHANGED <<vars, graph, ran, definitions, joined, rows, added, answer>>

RunOperation ==
    \/ resolveSubject \/ resolveObject \/ resolvePredicate
    \/ restrictSubjectObjectByPredicate
    \/ resolveSubjectFromVarObject \/ resolveObjectFromVarSubject
    \/ resolveSubjectObjectFromPred
    \/ resolveSubjectPredFromObject \/ resolvePredObjectFromSubject
    \/ resolveVarTripleFromSubject \/ resolveVarTripleFromObject
    \/ resolveVarTripleFromPredicate \/ resolveVarTripleAll

Plans == Next /\ UNCHANGED <<run, graph, ran, definitions, joined, rows, added, answer>>

EngineNext == Plans \/ StartRun \/ RunOperation \/ Unknown \/ Panics \/ getResults \/ ShortRow

EngineSpec == EngineInit /\ [][EngineNext]_engineVars

\* A query is one goroutine, which waits for nobody.
EngineFairSpec == EngineSpec /\ WF_engineVars(EngineNext)

-----------------------------------------------------------------------------
(* Properties.                                                             *)

EngineTypeOK ==
    /\ run \in {"waiting", "running", "answered", "failed", "panic", "scrambled"}
    /\ graph \in SUBSET (Constant \X Constant \X Constant)
    /\ ran \in 0 .. Len(operations)
    /\ DOMAIN definitions \subseteq Var
    /\ \A v \in DOMAIN definitions : definitions[v] \subseteq Constant
    /\ joined \subseteq Var
    /\ rows \subseteq Row /\ added \subseteq Row
    /\ answer.vars \subseteq Var /\ answer.rows \subseteq [answer.vars -> Constant]

\* Queries with a term of one variable to start from, constant predicates, and
\* perhaps a last term that explores, ?s ?p ?o or ?s ?p o.  Most queries of
\* db_test.go are of this kind.
Rooted ==
    /\ plan # <<>> /\ Len(TermVars(plan[1])) = 1
    /\ \A i \in DOMAIN plan :
          plan[i].p \in Var => i # 1 /\ i = Len(plan) /\ plan[i].s \in Var

\* The query is a tree of variables: each term has one variable in common with
\* the terms before it (in one connected order of them if in all).
Treelike ==
    \A n \in 2 .. Len(plan) :
        Cardinality(Range(TermVars(plan[n])) \cap QueryVars(SubSeq(plan, 1, n - 1))) = 1

\* What the triples of the snapshot say of a query, with the usual meaning.
Solutions(q) ==
    {f \in [QueryVars(q) -> Constant] :
        LET val(x) == IF x \in Var THEN f[x] ELSE x
        IN \A t \in Range(q) : <<val(t.s), val(t.p), val(t.o)>> \in graph}

SelectedSolutions == {Project(f, answer.vars) : f \in Solutions(query)}

\* Every row has a value for each variable of the operations run so far and for
\* no other: no operation appends rows that others would have to be joined with.
RowsAligned ==
    Rooted /\ run \in {"running", "answered"} =>
        \A r \in rows : Bound(r) = QueryVars(SubSeq(plan, 1, ran))

\* The values in the rows are among those in definitions, which is where the
\* next operation starts from (getValuesForVariable): it misses none.
DefinitionsCoverRows ==
    Rooted /\ ran < Len(operations) => \A r \in rows, v \in Var :
        r[v] # Empty => v \in DOMAIN definitions /\ r[v] \in definitions[v]

\* What joining means for the rows: no operation after the first makes up a row.
\* Each continues a row there was, with the values of a triple of the snapshot that
\* the term matches and that agrees with the row on a variable it had a value for.
\* No row is put together from unrelated ones, whichever variable is joined on.
RowsContinue ==
    [][Rooted /\ ran > 0 /\ ran' = ran + 1 =>
          LET t == plan[ran + 1]
              V == Range(TermVars(t))
          IN \A r \in rows' :
                LET val(x) == IF x \in Var THEN r[x] ELSE x
                IN /\ <<val(t.s), val(t.p), val(t.o)>> \in graph
                   /\ \E a \in rows :
                         /\ \A v \in Var \ V : r[v] = a[v]
                         /\ \E v \in V : a[v] # Empty /\ r[v] = a[v]]_engineVars

\* A variable formQueryPlan has marked as resolved has values when an operation
\* starts from it, and no row is too short for the answer: such a query does not
\* panic, unless it asks for the triples of a predicate an earlier term found.
NothingPanics ==
    Rooted /\ (\A n \in DOMAIN plan : plan[n].p \notin QueryVars(SubSeq(plan, 1, n - 1)))
        => run \notin {"panic", "scrambled"}

\* The answer to such a query has all the rows it should have, even when terms
\* close a cycle of variables.
NothingMissed == Rooted /\ run = "answered" => SelectedSolutions \subseteq answer.rows

\* If the query is a tree, it has no others either (NOTES.md: all triples are AND).
TreesAnswered ==
    Rooted /\ Treelike /\ run = "answered" => answer.rows = SelectedSolutions

-----------------------------------------------------------------------------
(* What the comments say and the code does not do.                         *)

\* NOTES.md:73 "implicitly, all triples in a query are `AND`": every row of an
\* answer satisfies all the terms.
AllTermsHold == run = "answered" => answer.rows \subseteq SelectedSolutions

\* operators.go:831 "This should not happen! Tell Gabe": the operation that takes
\* every triple of the database is the first to put rows into the relation.
TripleAllFirst ==
    \A t \in Range(plan) : Running("resolveVarTripleAll", t) => rows = {}
=============================================================================
