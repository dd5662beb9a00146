------------------------------ MODULE MCQueryParser ------------------------------
(* Texts for the parser.                                                        *)
EXTENDS QueryParser

T == <<"uri", "uri", "uri">>

\* Group patterns: triples, groups and UNIONs in every arrangement the grammar has
Groups ==
    [words |-> {<<"SELECT", "*", "WHERE", "{">>, T, <<"{">>, <<"}">>, <<".">>, <<"UNION">>,
                <<";">>, <<"$">>},
     max |-> 14]

\* Path expressions, in one triple
Paths ==
    [words |-> {<<"COUNT", "*", "WHERE", "{", "uri">>, <<"uri">>, <<"a">>, <<"/">>, <<"|">>,
                <<"(">>, <<")">>, <<"?">>, <<"+">>, <<"*">>, <<"url", "}", ";">>, <<"$">>},
     max |-> 7]

\* The clauses around the pattern
Clauses ==
    [words |-> {<<"SELECT">>, <<"COUNT">>, <<"*">>, <<"var">>, <<"FROM">>, <<"string">>,
                <<"INSERT", "{">>, <<"var", "var", "quotedstring">>, <<".">>, <<"}">>,
                <<"WHERE", "{">>, <<";">>, <<"$">>},
     max |-> 9]

MCKinds == {Groups, Paths, Clauses}

\* Whole groups as words, so that two UNIONs fit into a text
UnionKinds ==
    {[words |-> {<<"SELECT", "*", "WHERE", "{">>, <<"{", "uri", "uri", "uri", "}">>,
                 <<"UNION">>, <<"}", ";">>, <<"$">>},
      max |-> 10]}
================================================================================
