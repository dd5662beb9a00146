--------------------------------- MODULE QueryAst ---------------------------------
(* The query that parsing builds: lang/ast/ast.go.  The attributes on the       *)
(* parser's stack are Go interfaces, and every constructor asserts the type of  *)
(* its arguments; a value here carries the name of its Go type, and a           *)
(* constructor whose assertion fails gives Panic.  A name is the token it was   *)
(* read from: [type, n], n telling the tokens of a text apart.                  *)
EXTENDS Grammar, FiniteSets, SequencesExt

Val(t, v) == [t |-> t, v |-> v]
Nil       == Val("nil", <<>>)
Panic     == Val("panic", <<>>)

\* The URI that the keyword `a` stands for
RdfType == [type |-> "uri", n |-> 0]

IsVariable(uri) == uri.type = "var"

--------------------------------------------------------------------------------
\* Triples, paths and groups

Triple(s, path, o)    == [s |-> s, path |-> path, o |-> o]
PathPattern(pred, pt) == [pred |-> pred, pattern |-> pt]
WhereClause(terms, g) == [terms |-> terms, group |-> g]     \* g: <<>> for a nil pointer

\* A union never changes once it is part of a group, and all that is ever asked of it is
\* what it expands to: a group keeps the term lists its unions expand to, in their order
GraphGroup(terms, us) == [terms |-> terms, unions |-> us]

Expand(grp) ==
    IF grp.unions = <<>>
    THEN <<grp.terms>>
    ELSE [i \in DOMAIN grp.unions |-> grp.terms \o grp.unions[i]]

NewPathPattern(tok) ==
    PathPattern(IF tok.type = "a" THEN RdfType ELSE tok, "PATTERN_SINGLE")

AddPathMod(pp, pattern) == PathPattern(pp.pred, pattern)

PathFromVar(var) == <<PathPattern(var, "PATTERN_SINGLE")>>

GraphGroupUnion(left, right) == GraphGroup(<<>>, Expand(left) \o Expand(right))

\* Triples that replace those of the group instead of following them
ReplaceTriplesOfGraphGroup(left, triples) == GraphGroup(triples, left.unions)

AddTriplesToGraphGroup(left, triples) == GraphGroup(left.terms \o triples, left.unions)

MergeGraphGroups(left, right) ==
    GraphGroup(left.terms \o right.terms, left.unions \o right.unions)

TripleVars(triples) ==
    {x \in UNION {{t.s, t.o} \cup {t.path[i].pred : i \in DOMAIN t.path} : t \in ToSet(triples)} :
        IsVariable(x)}

VarsFromGroup(grp) ==
    TripleVars(grp.terms) \cup UNION {TripleVars(u) : u \in ToSet(grp.unions)}

--------------------------------------------------------------------------------
\* Queries

PopulateVars(q) ==
    TripleVars(q.where.terms) \cup TripleVars(q.insert)
    \cup UNION {VarsFromGroup(g) : g \in ToSet(q.where.group)}

\* The end of every constructor of a query: no FROM means all databases, and SELECT *
\* all the variables.  The variables come out of a Go map, in any order: a set
Filled(q) ==
    LET vars == PopulateVars(q)
        all  == q.from.all \/ q.from.dbs = <<>>
    IN  [q EXCEPT !.from.all = all, !.variables = vars,
                  !.select.vars = IF q.select.all THEN vars ELSE @]

NoFrom   == [dbs |-> <<>>, all |-> FALSE]
AllVars  == [vars |-> {}, all |-> TRUE]

NewQuery(select, where, count) ==
    Filled([select |-> select, from |-> NoFrom, count |-> count, insert |-> <<>>,
            where |-> where, variables |-> {}, type |-> {"SELECT"}])

NewInsertQuery(insert, where, count) ==
    Filled([select |-> AllVars, from |-> NoFrom, count |-> count, insert |-> insert,
            where |-> where, variables |-> {}, type |-> {"INSERT"}])

NewQueryMulti(select, from, where, count) ==
    Filled([select |-> select, from |-> from, count |-> count, insert |-> <<>>,
            where |-> where, variables |-> {}, type |-> {}])

NewInsertQueryMulti(insert, from, where, count) ==
    Filled([select |-> AllVars, from |-> from, count |-> count, insert |-> insert,
            where |-> where, variables |-> {}, type |-> {"INSERT"}])

\* The term lists that runQuery evaluates: one per branch of the graph group
Branches(q) ==
    IF q.where.group = <<>>
    THEN <<q.where.terms>>
    ELSE LET groups == Expand(q.where.group[1])
         IN  [i \in DOMAIN groups |-> q.where.terms \o groups[i]]

--------------------------------------------------------------------------------
\* ReduceFunc of each production: the types its ast function asserts, and its result

Signature ==
    [NewQuery |-> <<"SelectClause", "WhereClause">>,
     NewCountQuery |-> <<"SelectClause", "WhereClause">>,
     NewInsertQuery |-> <<"InsertClause", "WhereClause">>,
     NewQueryMulti |-> <<"SelectClause", "FromClause", "WhereClause">>,
     NewCountQueryMulti |-> <<"SelectClause", "FromClause", "WhereClause">>,
     NewInsertQueryMulti |-> <<"InsertClause", "FromClause", "WhereClause">>,
     NewAllSelectClause |-> <<>>, NewSelectClause |-> <<"[]string">>,
     NewInsertClause |-> <<"[]Triple">>,
     NewAllFromClause |-> <<>>, NewFromClause |-> <<"[]string">>,
     NewVarList |-> <<"string">>, AppendVar |-> <<"[]string", "string">>,
     NewStringList |-> <<"string">>, AppendString |-> <<"[]string", "string">>,
     ParseString |-> <<"Token">>, ParseQuotedString |-> <<"Token">>,
     NewEmptyWhereClause |-> <<>>, NewWhereClause |-> <<"[]Triple">>,
     NewWhereClauseWithGraphGroup |-> <<"[]Triple", "GraphGroup">>,
     NewWhereClauseGraphGroup |-> <<"GraphGroup">>,
     NewTripleBlock |-> <<"Triple">>, AppendTripleBlock |-> <<"[]Triple", "Triple">>,
     NewTriple |-> <<"URI", "[]PathPattern", "URI">>, NewURI |-> <<"string">>,
     PathFromVar |-> <<"string">>, NewPathSequence |-> <<"PathPattern">>,
     AppendPathSequence |-> <<"[]PathPattern", "PathPattern">>,
     NewPathPattern |-> <<"Token">>, AddPathMod |-> <<"PathPattern", "Pattern">>,
     PATTERN_ZERO_ONE |-> <<>>, PATTERN_ZERO_PLUS |-> <<>>, PATTERN_ONE_PLUS |-> <<>>,
     GraphGroupFromTriples |-> <<"[]Triple">>,
     GraphGroupUnion |-> <<"GraphGroup", "GraphGroup">>,
     AddTriplesToGraphGroup |-> <<"GraphGroup", "[]Triple">>,
     MergeGraphGroups |-> <<"GraphGroup", "GraphGroup">>]

QueryOf(call, x) ==
    CASE call = "NewQuery"            -> NewQuery(x[1], x[2], FALSE)
      [] call = "NewCountQuery"       -> NewQuery(x[1], x[2], TRUE)
      [] call = "NewQueryMulti"       -> NewQueryMulti(x[1], x[2], x[3], FALSE)
      [] call = "NewCountQueryMulti"  -> NewQueryMulti(x[1], x[2], x[3], TRUE)
      [] call = "NewInsertQuery"      -> NewInsertQuery(x[1], x[2], FALSE)
      [] call = "NewInsertQueryMulti" -> NewInsertQueryMulti(x[1], x[2], x[3], FALSE)

ClauseOf(call, x) ==
    CASE call = "NewAllSelectClause" -> Val("SelectClause", AllVars)
      [] call = "NewSelectClause"    -> Val("SelectClause", [vars |-> ToSet(x[1]), all |-> FALSE])
      [] call = "NewInsertClause"    -> Val("InsertClause", x[1])
      [] call = "NewAllFromClause"   -> Val("FromClause", [dbs |-> <<>>, all |-> TRUE])
      [] call = "NewFromClause"      -> Val("FromClause", [dbs |-> x[1], all |-> FALSE])
      [] call = "NewEmptyWhereClause" -> Val("WhereClause", WhereClause(<<>>, <<>>))
      [] call = "NewWhereClause"      -> Val("WhereClause", WhereClause(x[1], <<>>))
      [] call = "NewWhereClauseWithGraphGroup" -> Val("WhereClause", WhereClause(x[1], <<x[2]>>))
      [] call = "NewWhereClauseGraphGroup"     -> Val("WhereClause", WhereClause(<<>>, <<x[1]>>))

GroupOf(call, x) ==
    CASE call = "GraphGroupFromTriples"  -> GraphGroup(x[1], <<>>)
      [] call = "GraphGroupUnion"        -> GraphGroupUnion(x[1], x[2])
      [] call = "AddTriplesToGraphGroup" -> AddTriplesToGraphGroup(x[1], x[2])
      [] call = "MergeGraphGroups"       -> MergeGraphGroups(x[1], x[2])

TermOf(call, x) ==
    CASE call \in {"ParseString", "ParseQuotedString"} -> Val("string", x[1])
      [] call = "NewURI"             -> Val("URI", x[1])
      [] call \in {"NewVarList", "NewStringList"} -> Val("[]string", <<x[1]>>)
      [] call \in {"AppendVar", "AppendString"}   -> Val("[]string", Append(x[1], x[2]))
      [] call = "NewTriple"          -> Val("Triple", Triple(x[1], x[2], x[3]))
      [] call = "NewTripleBlock"     -> Val("[]Triple", <<x[1]>>)
      [] call = "AppendTripleBlock"  -> Val("[]Triple", Append(x[1], x[2]))
      [] call = "NewPathPattern"     -> Val("PathPattern", NewPathPattern(x[1]))
      [] call = "AddPathMod"         -> Val("PathPattern", AddPathMod(x[1], x[2]))
      [] call = "PathFromVar"        -> Val("[]PathPattern", PathFromVar(x[1]))
      [] call = "NewPathSequence"    -> Val("[]PathPattern", <<x[1]>>)
      [] call = "AppendPathSequence" -> Val("[]PathPattern", Append(x[1], x[2]))
      [] OTHER                       -> Val("Pattern", call)

QueryCalls  == {"NewQuery", "NewCountQuery", "NewQueryMulti", "NewCountQueryMulti",
                "NewInsertQuery", "NewInsertQueryMulti"}
ClauseCalls == {"NewAllSelectClause", "NewSelectClause", "NewInsertClause",
                "NewAllFromClause", "NewFromClause", "NewEmptyWhereClause", "NewWhereClause",
                "NewWhereClauseWithGraphGroup", "NewWhereClauseGraphGroup"}
GroupCalls  == {"GraphGroupFromTriples", "GraphGroupUnion", "AddTriplesToGraphGroup",
                "MergeGraphGroups"}

Build(call, x) ==
    CASE call \in QueryCalls  -> Val("Query", QueryOf(call, x))
      [] call \in ClauseCalls -> ClauseOf(call, x)
      [] call \in GroupCalls  -> Val("GraphGroup", GroupOf(call, x))
      [] call \notin QueryCalls \cup ClauseCalls \cup GroupCalls -> TermOf(call, x)

\* X: the attributes of the symbols popped, oldest first
ReduceFunc(p, X) ==
    LET prod == productionsTable[p]
        args == [i \in DOMAIN prod.args |-> X[prod.args[i]]]
    IN  CASE prod.call = "attrib" -> args[1]
          [] prod.call = "nil"    -> Nil
          [] prod.call \notin {"attrib", "nil"} ->
                IF [i \in DOMAIN args |-> args[i].t] = Signature[prod.call]
                THEN Build(prod.call, [i \in DOMAIN args |-> args[i].v])
                ELSE Panic
================================================================================
