-------------------------------- MODULE LRTables --------------------------------
(* The tables gocc generated from lang/sparql.bnf, which the parser of the      *)
(* query language is driven by: actionTab (lang/parser/actiontable.go) and      *)
(* gotoTab (lang/parser/gototable.go).  A row holds the entries of one state    *)
(* that are not nil or -1; states are counted from 0 as in the Go arrays, four  *)
(* states to a definition.                                                      *)
EXTENDS Integers, Sequences, TLC

\* The actions of lang/parser/action.go
Shift(n)  == [kind |-> "shift", n |-> n]
Reduce(n) == [kind |-> "reduce", n |-> n]
Accept    == [kind |-> "accept", n |-> 0]

\* One action for each of the tokens in toks
On(toks, act) == [tok \in toks |-> act]

\* A row without entries
NoEntry == <<>>

--------------------------------------------------------------------------------
\* actionTab
Actions0to3 ==
    <<On({"SELECT"}, Shift(8)) @@ On({"INSERT"}, Shift(9)) @@ On({"COUNT"}, Shift(10)),
      On({"$"}, Accept),
      On({";"}, Shift(11)),
      On({";"}, Shift(12))>>

Actions4to7 ==
    <<On({";"}, Shift(13)),
      On({"FROM"}, Shift(16)) @@ On({"WHERE"}, Shift(17)),
      On({"FROM"}, Shift(16)) @@ On({"WHERE"}, Shift(17)),
      On({"FROM"}, Shift(16)) @@ On({"WHERE"}, Shift(17))>>

Actions8to11 ==
    <<On({"*"}, Shift(22)) @@ On({"var"}, Shift(25)),
      On({"{"}, Shift(26)),
      On({"*"}, Shift(27)) @@ On({"var"}, Shift(25)),
      On({"$"}, Reduce(1))>>

Actions12to15 ==
    <<On({"$"}, Reduce(2)),
      On({"$"}, Reduce(3)),
      On({"WHERE"}, Shift(17)),
      On({";"}, Reduce(5))>>

Actions16to19 ==
    <<On({"*"}, Shift(30)) @@ On({"string"}, Shift(33)),
      On({"{"}, Shift(34)),
      On({"WHERE"}, Shift(17)),
      On({";"}, Reduce(7))>>

Actions20to23 ==
    <<On({"WHERE"}, Shift(17)),
      On({";"}, Reduce(9)),
      On({"FROM", "WHERE"}, Reduce(10)),
      On({"var"}, Shift(25)) @@ On({"FROM", "WHERE"}, Reduce(11))>>

Actions24to27 ==
    <<On({"var", "FROM", "WHERE"}, Reduce(16)),
      On({"var", "FROM", "WHERE"}, Reduce(21)),
      On({"var"}, Shift(40)) @@ On({"uri"}, Shift(44)) @@ On({"quotedstring"}, Shift(45))
        @@ On({"url"}, Shift(46)),
      On({"FROM", "WHERE"}, Reduce(14))>>

Actions28to31 ==
    <<On({"var"}, Shift(25)) @@ On({"FROM", "WHERE"}, Reduce(15)),
      On({";"}, Reduce(4)),
      On({"WHERE"}, Reduce(23)),
      On({"string"}, Shift(33)) @@ On({"WHERE"}, Reduce(22))>>

Actions32to35 ==
    <<On({"string", "WHERE"}, Reduce(18)),
      On({"string", "WHERE"}, Reduce(20)),
      On({"{"}, Shift(48)) @@ On({"}"}, Shift(50)) @@ On({"var"}, Shift(40))
        @@ On({"uri"}, Shift(44)) @@ On({"quotedstring"}, Shift(45))
        @@ On({"url"}, Shift(46)),
      On({";"}, Reduce(6))>>

Actions36to39 ==
    <<On({";"}, Reduce(8)),
      On({"var", "FROM", "WHERE"}, Reduce(17)),
      On({"}"}, Shift(57)) @@ On({"."}, Shift(58)),
      On({"var", "uri", "url", "a", "("}, Reduce(33))>>

Actions40to43 ==
    <<On({"var", "uri", "url", "a", "("}, Reduce(21)),
      On({"}", "."}, Reduce(30)),
      On({"var"}, Shift(60)) @@ On({"uri"}, Shift(62)) @@ On({"url"}, Shift(63))
        @@ On({"a"}, Shift(67)) @@ On({"("}, Shift(68)),
      On({"var", "uri", "url", "a", "("}, Reduce(34))>>

Actions44to47 ==
    <<On({"var", "uri", "url", "a", "("}, Reduce(35)),
      On({"var", "uri", "url", "a", "("}, Reduce(36)),
      On({"var", "uri", "url", "a", "("}, Reduce(37)),
      On({"string", "WHERE"}, Reduce(19))>>

Actions48to51 ==
    <<On({"{"}, Shift(69)) @@ On({"var"}, Shift(40)) @@ On({"uri"}, Shift(44))
        @@ On({"quotedstring"}, Shift(45)) @@ On({"url"}, Shift(46)),
      On({"{"}, Shift(48)) @@ On({"}"}, Shift(74)) @@ On({"."}, Shift(75)),
      On({";"}, Reduce(24)),
      On({"{"}, Shift(48)) @@ On({"}"}, Shift(77))>>

Actions52to55 ==
    <<On({"{", "}", "."}, Reduce(30)),
      On({"var"}, Shift(60)) @@ On({"uri"}, Shift(62)) @@ On({"url"}, Shift(63))
        @@ On({"a"}, Shift(67)) @@ On({"("}, Shift(68)),
      On({"{", "}"}, Reduce(52)),
      On({"{", "}", "var", "uri", "quotedstring", "url"}, Reduce(57))
        @@ On({"."}, Shift(80)) @@ On({"UNION"}, Shift(82))>>

Actions56to59 ==
    <<On({"{", "}", ".", "var", "uri", "quotedstring", "url", "UNION"}, Reduce(58)),
      On({"FROM", "WHERE"}, Reduce(12)),
      On({"}"}, Shift(83)) @@ On({"var"}, Shift(40)) @@ On({"uri"}, Shift(44))
        @@ On({"quotedstring"}, Shift(45)) @@ On({"url"}, Shift(46)),
      On({"var", "uri", "quotedstring", "url", "|"}, Reduce(40))>>

Actions60to63 ==
    <<On({"var", "uri", "quotedstring", "url", "|"}, Reduce(21)),
      On({"var"}, Shift(86)) @@ On({"uri"}, Shift(89)) @@ On({"quotedstring"}, Shift(90))
        @@ On({"url"}, Shift(91)) @@ On({"|"}, Shift(92)),
      On({"*", "var", "uri", "quotedstring", "url", "|", "/", "?", "+"}, Reduce(45)),
      On({"*", "var", "uri", "quotedstring", "url", "|", "/", "?", "+"}, Reduce(47))>>

Actions64to67 ==
    <<On({"var", "uri", "quotedstring", "url", "|"}, Reduce(38)) @@ On({"/"}, Shift(93)),
      On({"var", "uri", "quotedstring", "url", "|", "/"}, Reduce(41)),
      On({"*"}, Shift(94))
        @@ On({"var", "uri", "quotedstring", "url", "|", "/"}, Reduce(44))
        @@ On({"?"}, Shift(96)) @@ On({"+"}, Shift(97)),
      On({"*", "var", "uri", "quotedstring", "url", "|", "/", "?", "+"}, Reduce(46))>>

Actions68to71 ==
    <<On({"var"}, Shift(99)) @@ On({"uri"}, Shift(101)) @@ On({"url"}, Shift(102))
        @@ On({"a"}, Shift(106)) @@ On({"("}, Shift(107)),
      On({"{"}, Shift(69)) @@ On({"var"}, Shift(40)) @@ On({"uri"}, Shift(44))
        @@ On({"quotedstring"}, Shift(45)) @@ On({"url"}, Shift(46)),
      On({"{", "}"}, Reduce(61)) @@ On({"."}, Shift(109)),
      On({"."}, Shift(110)) @@ On({"UNION"}, Shift(111))>>

Actions72to75 ==
    <<On({".", "UNION"}, Reduce(58)),
      On({"{"}, Shift(69)) @@ On({"}"}, Reduce(57)) @@ On({"."}, Shift(112)),
      On({";"}, Reduce(25)),
      On({"{"}, Shift(48)) @@ On({"}"}, Shift(115)) @@ On({"var"}, Shift(40))
        @@ On({"uri"}, Shift(44)) @@ On({"quotedstring"}, Shift(45))
        @@ On({"url"}, Shift(46))>>

Actions76to79 ==
    <<On({"{"}, Shift(48)) @@ On({"}"}, Shift(118)),
      On({";"}, Reduce(29)),
      On({"{", "}"}, Reduce(53)),
      On({"var"}, Shift(120)) @@ On({"uri"}, Shift(123)) @@ On({"quotedstring"}, Shift(124))
        @@ On({"url"}, Shift(125)) @@ On({"|"}, Shift(92))>>

Actions80to83 ==
    <<On({"{", "}", "var", "uri", "quotedstring", "url"}, Reduce(56)),
      On({"{", "}"}, Reduce(55)) @@ On({"var"}, Shift(40)) @@ On({"uri"}, Shift(44))
        @@ On({"quotedstring"}, Shift(45)) @@ On({"url"}, Shift(46)),
      On({"{"}, Shift(48)),
      On({"FROM", "WHERE"}, Reduce(13))>>

Actions84to87 ==
    <<On({"}", "."}, Reduce(31)),
      On({"}", "."}, Reduce(33)),
      On({"}", "."}, Reduce(21)),
      On({"}", "."}, Reduce(32))>>

Actions88to91 ==
    <<On({"}", "."}, Reduce(34)),
      On({"}", "."}, Reduce(35)),
      On({"}", "."}, Reduce(36)),
      On({"}", "."}, Reduce(37))>>

Actions92to95 ==
    <<On({"uri"}, Shift(62)) @@ On({"url"}, Shift(63)) @@ On({"a"}, Shift(67))
        @@ On({"("}, Shift(68)),
      On({"uri"}, Shift(62)) @@ On({"url"}, Shift(63)) @@ On({"a"}, Shift(67))
        @@ On({"("}, Shift(68)),
      On({"var", "uri", "quotedstring", "url", "|", "/"}, Reduce(50)),
      On({"var", "uri", "quotedstring", "url", "|", "/"}, Reduce(43))>>

Actions96to99 ==
    <<On({"var", "uri", "quotedstring", "url", "|", "/"}, Reduce(49)),
      On({"var", "uri", "quotedstring", "url", "|", "/"}, Reduce(51)),
      On({"|", ")"}, Reduce(40)),
      On({"|", ")"}, Reduce(21))>>

Actions100to103 ==
    <<On({"|"}, Shift(130)) @@ On({")"}, Shift(131)),
      On({"*", "|", "/", ")", "?", "+"}, Reduce(45)),
      On({"*", "|", "/", ")", "?", "+"}, Reduce(47)),
      On({"|", ")"}, Reduce(38)) @@ On({"/"}, Shift(132))>>

Actions104to107 ==
    <<On({"|", "/", ")"}, Reduce(41)),
      On({"*"}, Shift(133)) @@ On({"|", "/", ")"}, Reduce(44)) @@ On({"?"}, Shift(135))
        @@ On({"+"}, Shift(136)),
      On({"*", "|", "/", ")", "?", "+"}, Reduce(46)),
      On({"var"}, Shift(99)) @@ On({"uri"}, Shift(101)) @@ On({"url"}, Shift(102))
        @@ On({"a"}, Shift(106)) @@ On({"("}, Shift(107))>>

Actions108to111 ==
    <<On({"{"}, Shift(69)) @@ On({"}"}, Reduce(57)) @@ On({"."}, Shift(112)),
      On({"var"}, Shift(40)) @@ On({"uri"}, Shift(44)) @@ On({"quotedstring"}, Shift(45))
        @@ On({"url"}, Shift(46)),
      On({"var"}, Shift(40)) @@ On({"uri"}, Shift(44)) @@ On({"quotedstring"}, Shift(45))
        @@ On({"url"}, Shift(46)),
      On({"{"}, Shift(69))>>

Actions112to115 ==
    <<On({"}"}, Reduce(56)),
      On({"."}, Shift(141)) @@ On({"UNION"}, Shift(111)),
      On({"}"}, Shift(142)),
      On({";"}, Reduce(26))>>

Actions116to119 ==
    <<On({"{"}, Shift(48)) @@ On({"}"}, Shift(143)),
      On({"{", "}", "."}, Reduce(31)),
      On({";"}, Reduce(27)),
      On({"{", "}", "."}, Reduce(33))>>

Actions120to123 ==
    <<On({"{", "}", "."}, Reduce(21)),
      On({"{", "}", "."}, Reduce(32)),
      On({"{", "}", "."}, Reduce(34)),
      On({"{", "}", "."}, Reduce(35))>>

Actions124to127 ==
    <<On({"{", "}", "."}, Reduce(36)),
      On({"{", "}", "."}, Reduce(37)),
      On({"{", "}"}, Reduce(57)) @@ On({"."}, Shift(144)),
      On({"{", "}", ".", "var", "uri", "quotedstring", "url", "UNION"}, Reduce(59))>>

Actions128to131 ==
    <<On({"var", "uri", "quotedstring", "url", "|"}, Reduce(39)) @@ On({"/"}, Shift(93)),
      On({"var", "uri", "quotedstring", "url", "|", "/"}, Reduce(42)),
      On({"uri"}, Shift(101)) @@ On({"url"}, Shift(102)) @@ On({"a"}, Shift(106))
        @@ On({"("}, Shift(107)),
      On({"*", "var", "uri", "quotedstring", "url", "|", "/", "?", "+"}, Reduce(48))>>

Actions132to135 ==
    <<On({"uri"}, Shift(101)) @@ On({"url"}, Shift(102)) @@ On({"a"}, Shift(106))
        @@ On({"("}, Shift(107)),
      On({"|", "/", ")"}, Reduce(50)),
      On({"|", "/", ")"}, Reduce(43)),
      On({"|", "/", ")"}, Reduce(49))>>

Actions136to139 ==
    <<On({"|", "/", ")"}, Reduce(51)),
      On({"|"}, Shift(130)) @@ On({")"}, Shift(148)),
      On({"}"}, Shift(149)),
      On({"{", "}"}, Reduce(62)) @@ On({"."}, Shift(109))>>

Actions140to143 ==
    <<On({".", "UNION"}, Reduce(59)),
      On({"var"}, Shift(40)) @@ On({"uri"}, Shift(44)) @@ On({"quotedstring"}, Shift(45))
        @@ On({"url"}, Shift(46)),
      On({"{", "}", ".", "var", "uri", "quotedstring", "url", "UNION"}, Reduce(60)),
      On({";"}, Reduce(28))>>

Actions144to147 ==
    <<On({"{", "}"}, Reduce(56)) @@ On({"var"}, Shift(40)) @@ On({"uri"}, Shift(44))
        @@ On({"quotedstring"}, Shift(45)) @@ On({"url"}, Shift(46)),
      On({"{", "}"}, Reduce(54)),
      On({"|", ")"}, Reduce(39)) @@ On({"/"}, Shift(132)),
      On({"|", "/", ")"}, Reduce(42))>>

Actions148to150 ==
    <<On({"*", "|", "/", ")", "?", "+"}, Reduce(48)),
      On({".", "UNION"}, Reduce(60)),
      On({"{", "}"}, Reduce(63)) @@ On({"."}, Shift(109))>>

--------------------------------------------------------------------------------
\* gotoTab
Gotos0to3 ==
    <<"QueryUnit" :> 1 @@ "SelectQuery" :> 2 @@ "CountQuery" :> 3 @@ "UpdateQuery" :> 4
        @@ "SelectClause" :> 5 @@ "InsertClause" :> 7 @@ "CountClause" :> 6,
      NoEntry,
      NoEntry,
      NoEntry>>

Gotos4to7 ==
    <<NoEntry,
      "DatasetClause" :> 14 @@ "WhereClause" :> 15,
      "DatasetClause" :> 18 @@ "WhereClause" :> 19,
      "DatasetClause" :> 20 @@ "WhereClause" :> 21>>

Gotos8to11 ==
    <<"Varlist" :> 23 @@ "Var" :> 24,
      NoEntry,
      "Varlist" :> 28 @@ "Var" :> 24,
      NoEntry>>

Gotos12to15 ==
    <<NoEntry,
      NoEntry,
      "WhereClause" :> 29,
      NoEntry>>

Gotos16to19 ==
    <<"DBlist" :> 31 @@ "String" :> 32,
      NoEntry,
      "WhereClause" :> 35,
      NoEntry>>

Gotos20to23 ==
    <<"WhereClause" :> 36,
      NoEntry,
      NoEntry,
      "Var" :> 37>>

Gotos24to27 ==
    <<NoEntry,
      NoEntry,
      "Var" :> 39 @@ "TriplesBlock" :> 38 @@ "Triple" :> 41 @@ "VarOrTerm" :> 42
        @@ "GraphTerm" :> 43,
      NoEntry>>

Gotos28to31 ==
    <<"Var" :> 37,
      NoEntry,
      NoEntry,
      "String" :> 47>>

Gotos32to35 ==
    <<NoEntry,
      NoEntry,
      "Var" :> 39 @@ "TriplesBlock" :> 49 @@ "Triple" :> 52 @@ "VarOrTerm" :> 53
        @@ "GraphTerm" :> 43 @@ "RestOfWhereList" :> 51 @@ "RestOfWhere" :> 54
        @@ "GraphPatternNotTriples" :> 55 @@ "GroupGraphPattern" :> 56,
      NoEntry>>

Gotos36to39 ==
    <<NoEntry,
      NoEntry,
      NoEntry,
      NoEntry>>

Gotos40to43 ==
    <<NoEntry,
      NoEntry,
      "Var" :> 59 @@ "Path" :> 61 @@ "PathSequence" :> 64 @@ "PathElt" :> 65
        @@ "PathPrimary" :> 66,
      NoEntry>>

Gotos44to47 ==
    <<NoEntry,
      NoEntry,
      NoEntry,
      NoEntry>>

Gotos48to51 ==
    <<"Var" :> 39 @@ "TriplesBlock" :> 70 @@ "Triple" :> 52 @@ "VarOrTerm" :> 53
        @@ "GraphTerm" :> 43 @@ "GraphPatternNotTriples" :> 71 @@ "GroupGraphPattern" :> 72
        @@ "GroupGraphPatternSub" :> 73,
      "RestOfWhereList" :> 76 @@ "RestOfWhere" :> 54 @@ "GraphPatternNotTriples" :> 55
        @@ "GroupGraphPattern" :> 56,
      NoEntry,
      "RestOfWhere" :> 78 @@ "GraphPatternNotTriples" :> 55 @@ "GroupGraphPattern" :> 56>>

Gotos52to55 ==
    <<NoEntry,
      "Var" :> 59 @@ "Path" :> 79 @@ "PathSequence" :> 64 @@ "PathElt" :> 65
        @@ "PathPrimary" :> 66,
      NoEntry,
      "Joiner" :> 81>>

Gotos56to59 ==
    <<NoEntry,
      NoEntry,
      "Var" :> 39 @@ "Triple" :> 84 @@ "VarOrTerm" :> 42 @@ "GraphTerm" :> 43,
      NoEntry>>

Gotos60to63 ==
    <<NoEntry,
      "Var" :> 85 @@ "VarOrTerm" :> 87 @@ "GraphTerm" :> 88,
      NoEntry,
      NoEntry>>

Gotos64to67 ==
    <<NoEntry,
      NoEntry,
      "PathMod" :> 95,
      NoEntry>>

Gotos68to71 ==
    <<"Var" :> 98 @@ "Path" :> 100 @@ "PathSequence" :> 103 @@ "PathElt" :> 104
        @@ "PathPrimary" :> 105,
      "Var" :> 39 @@ "TriplesBlock" :> 70 @@ "Triple" :> 52 @@ "VarOrTerm" :> 53
        @@ "GraphTerm" :> 43 @@ "GraphPatternNotTriples" :> 71 @@ "GroupGraphPattern" :> 72
        @@ "GroupGraphPatternSub" :> 108,
      NoEntry,
      NoEntry>>

Gotos72to75 ==
    <<NoEntry,
      "Joiner" :> 114 @@ "GraphPatternNotTriples" :> 113 @@ "GroupGraphPattern" :> 72,
      NoEntry,
      "Var" :> 39 @@ "Triple" :> 117 @@ "VarOrTerm" :> 53 @@ "GraphTerm" :> 43
        @@ "RestOfWhereList" :> 116 @@ "RestOfWhere" :> 54 @@ "GraphPatternNotTriples" :> 55
        @@ "GroupGraphPattern" :> 56>>

Gotos76to79 ==
    <<"RestOfWhere" :> 78 @@ "GraphPatternNotTriples" :> 55 @@ "GroupGraphPattern" :> 56,
      NoEntry,
      NoEntry,
      "Var" :> 119 @@ "VarOrTerm" :> 121 @@ "GraphTerm" :> 122>>

Gotos80to83 ==
    <<NoEntry,
      "Var" :> 39 @@ "TriplesBlock" :> 126 @@ "Triple" :> 52 @@ "VarOrTerm" :> 53
        @@ "GraphTerm" :> 43,
      "GroupGraphPattern" :> 127,
      NoEntry>>

Gotos84to87 ==
    <<NoEntry,
      NoEntry,
      NoEntry,
      NoEntry>>

Gotos88to91 ==
    <<NoEntry,
      NoEntry,
      NoEntry,
      NoEntry>>

Gotos92to95 ==
    <<"PathSequence" :> 128 @@ "PathElt" :> 65 @@ "PathPrimary" :> 66,
      "PathElt" :> 129 @@ "PathPrimary" :> 66,
      NoEntry,
      NoEntry>>

Gotos96to99 ==
    <<NoEntry,
      NoEntry,
      NoEntry,
      NoEntry>>

Gotos100to103 ==
    <<NoEntry,
      NoEntry,
      NoEntry,
      NoEntry>>

Gotos104to107 ==
    <<NoEntry,
      "PathMod" :> 134,
      NoEntry,
      "Var" :> 98 @@ "Path" :> 137 @@ "PathSequence" :> 103 @@ "PathElt" :> 104
        @@ "PathPrimary" :> 105>>

Gotos108to111 ==
    <<"Joiner" :> 138 @@ "GraphPatternNotTriples" :> 113 @@ "GroupGraphPattern" :> 72,
      "Var" :> 39 @@ "Triple" :> 117 @@ "VarOrTerm" :> 53 @@ "GraphTerm" :> 43,
      "Var" :> 39 @@ "TriplesBlock" :> 139 @@ "Triple" :> 52 @@ "VarOrTerm" :> 53
        @@ "GraphTerm" :> 43,
      "GroupGraphPattern" :> 140>>

Gotos112to115 ==
    <<NoEntry,
      NoEntry,
      NoEntry,
      NoEntry>>

Gotos116to119 ==
    <<"RestOfWhere" :> 78 @@ "GraphPatternNotTriples" :> 55 @@ "GroupGraphPattern" :> 56,
      NoEntry,
      NoEntry,
      NoEntry>>

Gotos120to123 ==
    <<NoEntry,
      NoEntry,
      NoEntry,
      NoEntry>>

Gotos124to127 ==
    <<NoEntry,
      NoEntry,
      "Joiner" :> 145,
      NoEntry>>

Gotos128to131 ==
    <<NoEntry,
      NoEntry,
      "PathSequence" :> 146 @@ "PathElt" :> 104 @@ "PathPrimary" :> 105,
      NoEntry>>

Gotos132to135 ==
    <<"PathElt" :> 147 @@ "PathPrimary" :> 105,
      NoEntry,
      NoEntry,
      NoEntry>>

Gotos136to139 ==
    <<NoEntry,
      NoEntry,
      NoEntry,
      NoEntry>>

Gotos140to143 ==
    <<NoEntry,
      "Var" :> 39 @@ "TriplesBlock" :> 150 @@ "Triple" :> 52 @@ "VarOrTerm" :> 53
        @@ "GraphTerm" :> 43,
      NoEntry,
      NoEntry>>

Gotos144to147 ==
    <<"Var" :> 39 @@ "Triple" :> 117 @@ "VarOrTerm" :> 53 @@ "GraphTerm" :> 43,
      NoEntry,
      NoEntry,
      NoEntry>>

Gotos148to150 ==
    <<NoEntry,
      NoEntry,
      NoEntry>>

--------------------------------------------------------------------------------
actionRows ==
    Actions0to3 \o Actions4to7 \o Actions8to11 \o Actions12to15 \o Actions16to19
    \o Actions20to23 \o Actions24to27 \o Actions28to31 \o Actions32to35
    \o Actions36to39 \o Actions40to43 \o Actions44to47 \o Actions48to51
    \o Actions52to55 \o Actions56to59 \o Actions60to63 \o Actions64to67
    \o Actions68to71 \o Actions72to75 \o Actions76to79 \o Actions80to83
    \o Actions84to87 \o Actions88to91 \o Actions92to95 \o Actions96to99
    \o Actions100to103 \o Actions104to107 \o Actions108to111 \o Actions112to115
    \o Actions116to119 \o Actions120to123 \o Actions124to127 \o Actions128to131
    \o Actions132to135 \o Actions136to139 \o Actions140to143 \o Actions144to147
    \o Actions148to150

gotoRows ==
    Gotos0to3 \o Gotos4to7 \o Gotos8to11 \o Gotos12to15 \o Gotos16to19
    \o Gotos20to23 \o Gotos24to27 \o Gotos28to31 \o Gotos32to35 \o Gotos36to39
    \o Gotos40to43 \o Gotos44to47 \o Gotos48to51 \o Gotos52to55 \o Gotos56to59
    \o Gotos60to63 \o Gotos64to67 \o Gotos68to71 \o Gotos72to75 \o Gotos76to79
    \o Gotos80to83 \o Gotos84to87 \o Gotos88to91 \o Gotos92to95 \o Gotos96to99
    \o Gotos100to103 \o Gotos104to107 \o Gotos108to111 \o Gotos112to115
    \o Gotos116to119 \o Gotos120to123 \o Gotos124to127 \o Gotos128to131
    \o Gotos132to135 \o Gotos136to139 \o Gotos140to143 \o Gotos144to147
    \o Gotos148to150

\* The arrays, indexed from 0
States == 0 .. Len(actionRows) - 1
actionTab == [s \in States |-> actionRows[s + 1]]
gotoTab   == [s \in States |-> gotoRows[s + 1]]
================================================================================
