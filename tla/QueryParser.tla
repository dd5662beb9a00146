------------------------------- MODULE QueryParser -------------------------------
(* Parsing a query: lang/parser.go and the driver in lang/parser/parser.go, run *)
(* on the generated tables.  The package holds ONE parser (a stack and the next *)
(* token) that every caller of Parse uses, without a lock; each caller has a    *)
(* scanner of its own.  A text is written word by word, a word being one or     *)
(* more tokens, by whoever sends the query.                                     *)
EXTENDS QueryAst, LRTables

CONSTANTS
    Callers,    \* goroutines that parse
    Kinds,      \* the kinds of text: [words: a set of words, max: how many at most]
    MaxCalls    \* texts per caller

ASSUME QueryParserAssumption ==
    /\ MaxCalls \in Nat
    /\ \A k \in Kinds : k.max \in Nat /\ <<"$">> \in k.words
    /\ \A k \in Kinds : \A w \in k.words : w # <<>> /\ w \in Seq(STRING)

--------------------------------------------------------------------------------
\* What the driver relies on the generated tables for

\* The pushes the tables allow: from a state, of a symbol, to a state
ShiftEdges ==
    UNION {{<<s, tok, actionTab[s][tok].n>> :
              tok \in {x \in DOMAIN actionTab[s] : actionTab[s][x].kind = "shift"}} : s \in States}
GotoEdges == UNION {{<<s, X, gotoTab[s][X]>> : X \in DOMAIN gotoTab[s]} : s \in States}
Edges     == ShiftEdges \cup GotoEdges

\* After[p][d]: the states that are only ever entered, at the end of d pushes of the first d
\* symbols of production p, from a state in which p may begin.  It may begin where there is
\* a goto for what it is reduced to, and production 0 in state 0.
After ==
    [p \in Productions |->
       LET rhs == productionsTable[p].rhs
           f[d \in 0 .. Len(rhs)] ==
             IF d = 0
             THEN IF p = 0 THEN {0} ELSE {s \in States : productionsTable[p].id \in DOMAIN gotoTab[s]}
             ELSE LET before == f[d - 1]
                      ways   == {e \in Edges : e[2] = rhs[d] /\ e[1] \in before}
                  IN  {e[3] : e \in ways} \ {e[3] : e \in Edges \ ways}
       IN  f]

\* The tables are such that looking at the state on top is enough: where they ask for a
\* production to be reduced, or the text to be accepted, every way to that state pushed the
\* production's symbols, and the state below has a goto.  No way leads back to state 0.
ASSUME TablesAssumption ==
    /\ 0 \in States
    /\ \A e \in Edges : e[1] \in States /\ e[3] \in States \ {0}
    /\ \A s \in States : DOMAIN actionTab[s] \cap NonTerminals = {}
    /\ \A p \in Productions : \A d \in 1 .. Len(productionsTable[p].rhs) :
          /\ 0 \notin After[p][d]
          /\ \A e \in Edges : e[3] \in After[p][d] =>
                e[2] = productionsTable[p].rhs[d] /\ e[1] \in After[p][d - 1]
    /\ \A p \in Productions \ {0} : \A s \in After[p][0] :
          s \in States /\ productionsTable[p].id \in DOMAIN gotoTab[s]
    /\ \A s \in States : \A tok \in DOMAIN actionTab[s] :
          LET act == actionTab[s][tok]
          IN  \/ act.kind = "shift"
              \/ /\ act.kind = "reduce"
                 /\ act.n \in Productions \ {0}
                 /\ s \in After[act.n][Len(productionsTable[act.n].rhs)]
              \/ act.kind = "accept" /\ s \in After[0][1]

--------------------------------------------------------------------------------
VARIABLES
    stack,      \* p.stack, shared
    nextToken,  \* p.nextToken, shared
    pc,         \* where each caller is in Parse
    kind,       \* the kind of text it parses
    word,       \* rest of the word its scanner is in
    words,      \* words begun
    text,       \* the tokens its scanner has returned
    local,      \* production and attribute between a pop and the push that follows
    used,       \* the productions it has reduced by
    result,     \* what Parse returned last
    calls       \* texts begun

vars == <<stack, nextToken, pc, kind, word, words, text, local, used, result, calls>>

\* A stack entry: state and attribute are p.stack's.  sym, text and meaning are there for
\* the properties: the grammar symbol pushed, the tokens it covers, and what the grammar
\* takes them to mean: a set of alternatives, each a set of triples, a triple being its text
Entry(state, val, sym, toks, meaning) ==
    [state |-> state, val |-> val, sym |-> sym, text |-> toks, meaning |-> meaning]

True == {{}}

Bottom == Entry(0, Nil, "", <<>>, True)

NoLocal  == [p |-> 0, entry |-> Bottom]
NoResult == [status |-> "none", val |-> Nil, meaning |-> True]

EOF == [type |-> "$", n |-> 0]

Init ==
    /\ stack = <<Bottom>>
    /\ nextToken = EOF
    /\ pc = [g \in Callers |-> "idle"]
    /\ kind = [g \in Callers |-> CHOOSE k \in Kinds : TRUE]
    /\ word = [g \in Callers |-> <<>>]
    /\ words = [g \in Callers |-> 0]
    /\ text = [g \in Callers |-> <<>>]
    /\ local = [g \in Callers |-> NoLocal]
    /\ used = [g \in Callers |-> {}]
    /\ result = [g \in Callers |-> NoResult]
    /\ calls = [g \in Callers |-> 0]

Top(s) == s[Len(s)]

\* A Parse that does not call p.Reset()
BeginWithoutReset(g) ==
    /\ pc[g] = "idle" /\ calls[g] < MaxCalls
    /\ pc' = [pc EXCEPT ![g] = "scan"]
    /\ \E k \in Kinds : kind' = [kind EXCEPT ![g] = k]
    /\ word' = [word EXCEPT ![g] = <<>>]
    /\ words' = [words EXCEPT ![g] = 0]
    /\ text' = [text EXCEPT ![g] = <<>>]
    /\ used' = [used EXCEPT ![g] = {}]
    /\ result' = [result EXCEPT ![g] = NoResult]
    /\ calls' = [calls EXCEPT ![g] = @ + 1]
    /\ UNCHANGED <<stack, nextToken, local>>

\* Parse: p.Reset(), which leaves the stack with state 0
Begin(g) ==
    /\ pc[g] = "idle" /\ calls[g] < MaxCalls
    /\ stack' = <<Bottom>>
    /\ pc' = [pc EXCEPT ![g] = "scan"]
    /\ \E k \in Kinds : kind' = [kind EXCEPT ![g] = k]
    /\ word' = [word EXCEPT ![g] = <<>>]
    /\ words' = [words EXCEPT ![g] = 0]
    /\ text' = [text EXCEPT ![g] = <<>>]
    /\ used' = [used EXCEPT ![g] = {}]
    /\ result' = [result EXCEPT ![g] = NoResult]
    /\ calls' = [calls EXCEPT ![g] = @ + 1]
    /\ UNCHANGED <<nextToken, local>>

\* The words the text may go on with: it ends when it may not grow any more
NextWords(g) ==
    IF word[g] # <<>> THEN {word[g]}
    ELSE IF words[g] < kind[g].max THEN kind[g].words ELSE {<<"$">>}

\* p.nextToken = scanner.Scan()
Scan(g) ==
    /\ pc[g] = "scan"
    /\ \E w \in NextWords(g) :
          LET tok == [type |-> Head(w), n |-> Len(text[g]) + 1]
          IN  /\ nextToken' = tok
              /\ text' = [text EXCEPT ![g] = Append(@, tok)]
              /\ words' = [words EXCEPT ![g] = IF word[g] = <<>> THEN @ + 1 ELSE @]
              /\ word' = [word EXCEPT ![g] = Tail(w)]
    /\ pc' = [pc EXCEPT ![g] = "loop"]
    /\ UNCHANGED <<stack, kind, local, used, result, calls>>

\* actionTab[p.stack.top()].actions[p.nextToken.Type], nil or not; a state of -1, or an
\* empty stack, is an index out of range
InRange   == stack # <<>> /\ Top(stack).state \in States
HasAction == InRange /\ nextToken.type \in DOMAIN actionTab[Top(stack).state]
Action    == actionTab[Top(stack).state][nextToken.type]

Shifts(g) ==
    /\ pc[g] = "loop"
    /\ HasAction /\ Action.kind = "shift"
    /\ stack' = Append(stack, Entry(Action.n, Val("Token", nextToken), nextToken.type,
                                    <<nextToken>>, True))
    /\ pc' = [pc EXCEPT ![g] = "scan"]
    /\ UNCHANGED <<nextToken, kind, word, words, text, local, used, result, calls>>

\* What a production means: all its parts, except that UNION offers its two groups, that a
\* triple is one condition, and that the triples of INSERT are not conditions
Conjunction(m) ==
    LET parts == {i \in DOMAIN m : m[i] # True}
        picks == {c \in [parts -> UNION {m[i] : i \in parts}] : \A i \in parts : c[i] \in m[i]}
    IN  {UNION {c[i] : i \in parts} : c \in picks}

MeaningOf(p, es) ==
    LET id == productionsTable[p].id
        m  == [i \in DOMAIN es |-> es[i].meaning]
    IN  IF id = "Triple" THEN {{FlattenSeq([i \in DOMAIN es |-> es[i].text])}}
        ELSE IF productionsTable[p].call = "GraphGroupUnion" THEN m[1] \cup m[3]
        ELSE IF id = "InsertClause" THEN True
        ELSE Conjunction(m)

\* case reduce: p.stack.popN(prod.NumSymbols) and ReduceFunc
Reduces(g) ==
    /\ pc[g] = "loop"
    /\ HasAction /\ Action.kind = "reduce"
    /\ LET p  == Action.n
           n  == Len(productionsTable[p].rhs)
           lo == Len(stack) - n
           es == SubSeq(stack, lo + 1, Len(stack))
           a  == ReduceFunc(p, [i \in DOMAIN es |-> es[i].val])
       IN  /\ lo >= 0
           /\ a # Panic
           /\ stack' = SubSeq(stack, 1, lo)
           /\ local' = [local EXCEPT ![g] =
                          [p |-> p,
                           entry |-> Entry(0, a, productionsTable[p].id,
                                           FlattenSeq([i \in DOMAIN es |-> es[i].text]),
                                           MeaningOf(p, es))]]
           /\ used' = [used EXCEPT ![g] = @ \cup {p}]
    /\ pc' = [pc EXCEPT ![g] = "push"]
    /\ UNCHANGED <<nextToken, kind, word, words, text, result, calls>>

\* p.stack.push(gotoTab[p.stack.top()][prod.NTType], attrib)
Pushes(g) ==
    /\ pc[g] = "push"
    /\ InRange
    /\ LET row == gotoTab[Top(stack).state]
           id  == productionsTable[local[g].p].id
       IN  stack' = Append(stack, [local[g].entry EXCEPT
                                     !.state = IF id \in DOMAIN row THEN row[id] ELSE -1])
    /\ local' = [local EXCEPT ![g] = NoLocal]
    /\ pc' = [pc EXCEPT ![g] = "loop"]
    /\ UNCHANGED <<nextToken, kind, word, words, text, used, result, calls>>

Returns(g, r) ==
    /\ result' = [result EXCEPT ![g] = r]
    /\ pc' = [pc EXCEPT ![g] = "idle"]
    /\ local' = [local EXCEPT ![g] = NoLocal]
    /\ UNCHANGED <<nextToken, kind, word, words, text, used, calls>>

\* case accept: res = p.stack.popN(1)[0]
Accepts(g) ==
    /\ pc[g] = "loop"
    /\ HasAction /\ Action.kind = "accept"
    /\ stack' = SubSeq(stack, 1, Len(stack) - 1)
    /\ Returns(g, [status |-> "query", val |-> Top(stack).val, meaning |-> Top(stack).meaning])

\* action == nil: no state can recover (canRecover is false in every row, and there is no
\* "error" token), so Error changes nothing and Parse returns newError
Rejects(g) ==
    /\ pc[g] = "loop"
    /\ InRange /\ ~HasAction
    /\ UNCHANGED stack
    /\ Returns(g, [NoResult EXCEPT !.status = "error"])

\* An index out of range, or a type assertion of ReduceFunc that does not hold: the stack
\* has been popped by then
Crashes(g) ==
    /\ \/ /\ pc[g] \in {"loop", "push"}
          /\ ~InRange
          /\ UNCHANGED <<stack, used>>
       \/ /\ pc[g] = "loop"
          /\ HasAction /\ Action.kind = "reduce"
          /\ LET p  == Action.n
                 lo == Len(stack) - Len(productionsTable[p].rhs)
                 es == SubSeq(stack, lo + 1, Len(stack))
             IN  /\ lo < 0 \/ ReduceFunc(p, [i \in DOMAIN es |-> es[i].val]) = Panic
                 /\ stack' = IF lo < 0 THEN stack ELSE SubSeq(stack, 1, lo)
                 /\ used' = [used EXCEPT ![g] = @ \cup {p}]
    /\ result' = [result EXCEPT ![g] = [NoResult EXCEPT !.status = "panic"]]
    /\ pc' = [pc EXCEPT ![g] = "idle"]
    /\ local' = [local EXCEPT ![g] = NoLocal]
    /\ UNCHANGED <<nextToken, kind, word, words, text, calls>>

Next ==
    \E g \in Callers :
        \/ Begin(g) \/ Scan(g) \/ Shifts(g) \/ Reduces(g) \/ Pushes(g)
        \/ Accepts(g) \/ Rejects(g) \/ Crashes(g)

Spec == Init /\ [][Next]_vars

--------------------------------------------------------------------------------
\* Properties of a parser that one caller uses at a time

Spelled(s) == FlattenSeq([i \in DOMAIN s |-> s[i].text])

\* The stack is at all times a parse of what has been read: what its symbols cover is the
\* text up to the lookahead, and a production is only ever reduced when its own symbols lie
\* on top.  So a text is accepted only if the grammar derives it, whatever the parser did
\* before: Parse starts on the stack an earlier call, or a syntax error, left behind.
StackParsesText ==
    \A g \in Callers : pc[g] = "loop" =>
        /\ Append(Spelled(stack), nextToken) = text[g]
        /\ HasAction /\ Action.kind = "reduce" =>
              LET rhs == productionsTable[Action.n].rhs
                  lo  == Len(stack) - Len(rhs)
              IN  lo >= 1 /\ [i \in DOMAIN rhs |-> stack[lo + i].sym] = rhs

\* A name stands for itself, except that `a` is a URI; the other tokens are marks
Mark(m)   == [type |-> m, n |-> 0]
Name(tok) == IF tok.type = "a" THEN RdfType ELSE tok
Names(toks) ==
    [i \in DOMAIN toks |->
       IF toks[i].type \in {"var", "uri", "url", "quotedstring", "a"}
       THEN Name(toks[i]) ELSE Mark(toks[i].type)]

\* The text of a triple of the query: its subject, its steps with "/" between them and
\* their modifiers, its object
Modifier(pattern) ==
    CASE pattern = "PATTERN_SINGLE"    -> <<>>
      [] pattern = "PATTERN_ZERO_ONE"  -> <<Mark("?")>>
      [] pattern = "PATTERN_ONE_PLUS"  -> <<Mark("+")>>
      [] pattern = "PATTERN_ZERO_PLUS" -> <<Mark("*")>>

WrittenStep(pp) == <<pp.pred>> \o Modifier(pp.pattern)
WrittenPath(path) ==
    FlattenSeq([i \in DOMAIN path |->
                  (IF i = 1 THEN <<>> ELSE <<Mark("/")>>) \o WrittenStep(path[i])])
Written(t) == <<t.s>> \o WrittenPath(t.path) \o <<t.o>>

QueryMeaning(q) == {{Written(t) : t \in ToSet(b)} : b \in ToSet(Branches(q))}
TextMeaning(m)  == {{Names(t) : t \in a} : a \in m}

\* Productions whose action loses part of the text: `|`, which keeps the first alternative,
\* a second group inside a group, which is dropped, and two UNIONs that stand side by side,
\* whose alternatives are thrown together
PathAlternative == 39
GroupInGroup    == 63
NextToEachOther == 53
Lossy == {PathAlternative, GroupInGroup, NextToEachOther}

\* A query that Parse returns asks for what its text says: the alternatives that runQuery
\* evaluates one by one are those of the text, each with all of its triples and no other, and
\* every triple has the steps and modifiers it was written with.  Texts that use a production
\* whose action is known to lose something are left out.
QueryMeansText ==
    \A g \in Callers :
        result[g].status = "query" /\ used[g] \cap Lossy = {} =>
            QueryMeaning(result[g].val.v) = TextMeaning(result[g].meaning)

\* A parse panics on no text but one with a path in parentheses: Path is a []PathPattern, and
\* what is built from PathPrimary asserts a PathPattern.
PanicsOnlyOnParentheses ==
    \A g \in Callers : result[g].status = "panic" => 48 \in used[g]

\* NOTES.md, on UNION: "implicitly, all triples in a query are `AND`".  Stated of every query
\* without path alternatives and without groups inside groups.
TriplesAreAnded ==
    \A g \in Callers :
        result[g].status = "query" /\ used[g] \cap {PathAlternative, GroupInGroup} = {} =>
            QueryMeaning(result[g].val.v) = TextMeaning(result[g].meaning)
================================================================================
