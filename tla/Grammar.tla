-------------------------------- MODULE Grammar --------------------------------
(* The grammar of the query language (lang/sparql.bnf) as the generated parser  *)
(* holds it: lang/parser/productionstable.go.  A production has the nonterminal *)
(* it reduces to, the symbols it replaces (NumSymbols of them), and the call    *)
(* ReduceFunc makes: the ast function and the positions of the attributes it is *)
(* given, counted from 1.  "attrib" returns the attribute unchanged.            *)
EXTENDS Integers, Sequences

Prod(id, rhs, call, args) == [id |-> id, rhs |-> rhs, call |-> call, args |-> args]

\* Queries
QueryProductions ==
    <<Prod("S'", <<"QueryUnit">>, "attrib", <<1>>),
      Prod("QueryUnit", <<"SelectQuery", ";">>, "attrib", <<1>>),
      Prod("QueryUnit", <<"CountQuery", ";">>, "attrib", <<1>>),
      Prod("QueryUnit", <<"UpdateQuery", ";">>, "attrib", <<1>>),
      Prod("SelectQuery", <<"SelectClause", "DatasetClause", "WhereClause">>, "NewQueryMulti", <<1, 2, 3>>),
      Prod("SelectQuery", <<"SelectClause", "WhereClause">>, "NewQuery", <<1, 2>>),
      Prod("CountQuery", <<"CountClause", "DatasetClause", "WhereClause">>, "NewCountQueryMulti", <<1, 2, 3>>),
      Prod("CountQuery", <<"CountClause", "WhereClause">>, "NewCountQuery", <<1, 2>>),
      Prod("UpdateQuery", <<"InsertClause", "DatasetClause", "WhereClause">>, "NewInsertQueryMulti", <<1, 2, 3>>),
      Prod("UpdateQuery", <<"InsertClause", "WhereClause">>, "NewInsertQuery", <<1, 2>>)>>

\* SELECT, INSERT, COUNT and FROM clauses
ClauseProductions ==
    <<Prod("SelectClause", <<"SELECT", "*">>, "NewAllSelectClause", <<>>),
      Prod("SelectClause", <<"SELECT", "Varlist">>, "NewSelectClause", <<2>>),
      Prod("InsertClause", <<"INSERT", "{", "TriplesBlock", "}">>, "NewInsertClause", <<3>>),
      Prod("InsertClause", <<"INSERT", "{", "TriplesBlock", ".", "}">>, "NewInsertClause", <<3>>),
      Prod("CountClause", <<"COUNT", "*">>, "NewAllSelectClause", <<>>),
      Prod("CountClause", <<"COUNT", "Varlist">>, "NewSelectClause", <<2>>),
      Prod("Varlist", <<"Var">>, "NewVarList", <<1>>),
      Prod("Varlist", <<"Varlist", "Var">>, "AppendVar", <<1, 2>>),
      Prod("DBlist", <<"String">>, "NewStringList", <<1>>),
      Prod("DBlist", <<"DBlist", "String">>, "AppendString", <<1, 2>>),
      Prod("String", <<"string">>, "ParseString", <<1>>),
      Prod("Var", <<"var">>, "ParseString", <<1>>),
      Prod("DatasetClause", <<"FROM", "DBlist">>, "NewFromClause", <<2>>),
      Prod("DatasetClause", <<"FROM", "*">>, "NewAllFromClause", <<>>)>>

\* WHERE clauses and triples
WhereProductions ==
    <<Prod("WhereClause", <<"WHERE", "{", "}">>, "NewEmptyWhereClause", <<>>),
      Prod("WhereClause", <<"WHERE", "{", "TriplesBlock", "}">>, "NewWhereClause", <<3>>),
      Prod("WhereClause", <<"WHERE", "{", "TriplesBlock", ".", "}">>, "NewWhereClause", <<3>>),
      Prod("WhereClause", <<"WHERE", "{", "TriplesBlock", "RestOfWhereList", "}">>, "NewWhereClauseWithGraphGroup", <<3, 4>>),
      Prod("WhereClause", <<"WHERE", "{", "TriplesBlock", ".", "RestOfWhereList", "}">>, "NewWhereClauseWithGraphGroup", <<3, 5>>),
      Prod("WhereClause", <<"WHERE", "{", "RestOfWhereList", "}">>, "NewWhereClauseGraphGroup", <<3>>),
      Prod("TriplesBlock", <<"Triple">>, "NewTripleBlock", <<1>>),
      Prod("TriplesBlock", <<"TriplesBlock", ".", "Triple">>, "AppendTripleBlock", <<1, 3>>),
      Prod("Triple", <<"VarOrTerm", "Path", "VarOrTerm">>, "NewTriple", <<1, 2, 3>>)>>

\* The terms of a triple and its path
TermProductions ==
    <<Prod("VarOrTerm", <<"Var">>, "NewURI", <<1>>),
      Prod("VarOrTerm", <<"GraphTerm">>, "NewURI", <<1>>),
      Prod("GraphTerm", <<"uri">>, "ParseString", <<1>>),
      Prod("GraphTerm", <<"quotedstring">>, "ParseQuotedString", <<1>>),
      Prod("GraphTerm", <<"url">>, "ParseString", <<1>>),
      Prod("Path", <<"PathSequence">>, "attrib", <<1>>),
      Prod("Path", <<"Path", "|", "PathSequence">>, "attrib", <<1>>),
      Prod("Path", <<"Var">>, "PathFromVar", <<1>>)>>

\* Path expressions
PathProductions ==
    <<Prod("PathSequence", <<"PathElt">>, "NewPathSequence", <<1>>),
      Prod("PathSequence", <<"PathSequence", "/", "PathElt">>, "AppendPathSequence", <<1, 3>>),
      Prod("PathElt", <<"PathPrimary", "PathMod">>, "AddPathMod", <<1, 2>>),
      Prod("PathElt", <<"PathPrimary">>, "attrib", <<1>>),
      Prod("PathPrimary", <<"uri">>, "NewPathPattern", <<1>>),
      Prod("PathPrimary", <<"a">>, "NewPathPattern", <<1>>),
      Prod("PathPrimary", <<"url">>, "NewPathPattern", <<1>>),
      Prod("PathPrimary", <<"(", "Path", ")">>, "attrib", <<2>>),
      Prod("PathMod", <<"?">>, "PATTERN_ZERO_ONE", <<>>),
      Prod("PathMod", <<"*">>, "PATTERN_ZERO_PLUS", <<>>),
      Prod("PathMod", <<"+">>, "PATTERN_ONE_PLUS", <<>>)>>

\* Group patterns
GroupProductions ==
    <<Prod("RestOfWhereList", <<"RestOfWhere">>, "attrib", <<1>>),
      Prod("RestOfWhereList", <<"RestOfWhereList", "RestOfWhere">>, "MergeGraphGroups", <<1, 2>>),
      Prod("RestOfWhere", <<"GraphPatternNotTriples", "Joiner", "TriplesBlock", "Joiner">>, "AddTriplesToGraphGroup", <<1, 3>>),
      Prod("RestOfWhere", <<"GraphPatternNotTriples", "Joiner">>, "attrib", <<1>>),
      Prod("Joiner", <<".">>, "attrib", <<1>>),
      Prod("Joiner", <<>>, "nil", <<>>),
      Prod("GraphPatternNotTriples", <<"GroupGraphPattern">>, "attrib", <<1>>),
      Prod("GraphPatternNotTriples", <<"GraphPatternNotTriples", "UNION", "GroupGraphPattern">>, "GraphGroupUnion", <<1, 3>>),
      Prod("GroupGraphPattern", <<"{", "GroupGraphPatternSub", "Joiner", "}">>, "attrib", <<2>>),
      Prod("GroupGraphPatternSub", <<"TriplesBlock">>, "GraphGroupFromTriples", <<1>>),
      Prod("GroupGraphPatternSub", <<"GraphPatternNotTriples", ".", "TriplesBlock">>, "AddTriplesToGraphGroup", <<1, 3>>),
      Prod("GroupGraphPatternSub", <<"GroupGraphPatternSub", "GraphPatternNotTriples", ".", "TriplesBlock">>, "attrib", <<1>>)>>
--------------------------------------------------------------------------------
productionRows ==
    QueryProductions \o ClauseProductions \o WhereProductions
    \o TermProductions \o PathProductions \o GroupProductions

\* The array, indexed from 0
Productions == 0 .. Len(productionRows) - 1

\* A table whose Path : Var builds a single pattern instead of a sequence
TableWithSingleVarPath ==
    [p \in Productions |->
       IF p = 40 THEN Prod("Path", <<"Var">>, "NewPathPattern", <<1>>) ELSE productionRows[p + 1]]

\* A grammar whose groups end without a Joiner, the tables not being generated again
TableWithoutJoiner ==
    [p \in Productions |->
       IF p = 60 THEN Prod("GroupGraphPattern", <<"{", "GroupGraphPatternSub", "}">>, "attrib", <<2>>)
       ELSE productionRows[p + 1]]

\* A grammar in which a path modifier may be empty
TableWithEmptyModifier ==
    [p \in Productions |->
       IF p = 49 THEN Prod("PathMod", <<>>, "PATTERN_ZERO_ONE", <<>>) ELSE productionRows[p + 1]]

productionsTable == [p \in Productions |-> productionRows[p + 1]]

NonTerminals == {productionsTable[p].id : p \in Productions}
Symbols ==
    UNION {{productionsTable[p].rhs[i] : i \in 1 .. Len(productionsTable[p].rhs)} :
             p \in Productions}
Terminals == Symbols \ NonTerminals
================================================================================
