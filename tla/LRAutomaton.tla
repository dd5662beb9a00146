------------------------------- MODULE LRAutomaton -------------------------------
(* The automaton behind the tables.  gocc builds a canonical LR(1) parser: a    *)
(* state stands for the set of items that are valid after the symbols read so   *)
(* far.  This module computes the item sets from the productions alone and      *)
(* walks them side by side with the states the generated tables lead to, so     *)
(* that every row can be compared with the items it must stand for.  The tables *)
(* are checked in, and nothing but this comparison notices that they and the    *)
(* grammar (or the calls of productionstable.go) have come apart.               *)
EXTENDS Grammar, LRTables, FiniteSets

CONSTANT
    Rounds      \* iterations after which the fixed points below are reached

ASSUME RoundsAssumption == Rounds \in Nat \ {0}

VARIABLES
    state,      \* number of the parser's state
    items       \* the items valid in it

autoVars == <<state, items>>

Rhs(p) == productionsTable[p].rhs

--------------------------------------------------------------------------------
\* The reference construction

Nullable == {productionsTable[p].id : p \in {q \in Productions : Rhs(q) = <<>>}}

\* The first tokens of a symbol string, given those of each nonterminal in F
FirstOfString(s, F) ==
    UNION {IF s[i] \in NonTerminals THEN F[s[i]] ELSE {s[i]} :
             i \in {k \in 1 .. Len(s) : \A j \in 1 .. k - 1 : s[j] \in Nullable}}

First ==
    LET More(F) == [A \in NonTerminals |->
                      UNION {FirstOfString(Rhs(p), F) :
                               p \in {q \in Productions : productionsTable[q].id = A}}]
        f[n \in 0 .. Rounds] ==
            IF n = 0 THEN [A \in NonTerminals |-> {}] ELSE More(f[n - 1])
    IN  f[Rounds]

AllNullable(s) == \A i \in 1 .. Len(s) : s[i] \in Nullable

Item(p, dot, la) == [p |-> p, dot |-> dot, la |-> la]

\* The symbol after the dot, if there is one
Complete(it)  == it.dot = Len(Rhs(it.p))
AfterDot(it)  == Rhs(it.p)[it.dot + 1]
Incomplete(I) == {it \in I : ~Complete(it)}

\* What may follow the symbol after the dot
Lookaheads(it) ==
    LET rest == SubSeq(Rhs(it.p), it.dot + 2, Len(Rhs(it.p)))
    IN  FirstOfString(rest, First) \cup (IF AllNullable(rest) THEN {it.la} ELSE {})

\* The items that the nonterminals after the dots of I call for
Expected(I) ==
    LET calls == UNION {{<<AfterDot(it), la>> : la \in Lookaheads(it)} : it \in Incomplete(I)}
    IN  UNION {{Item(p, 0, c[2]) : p \in {q \in Productions : productionsTable[q].id = c[1]}} :
                 c \in calls}

Closure(I) ==
    LET f[n \in 0 .. Rounds] ==
            IF n = 0 THEN I ELSE LET J == f[n - 1] IN J \cup Expected(J)
    IN  f[Rounds]

\* The items after one more symbol
Advance(I, X) ==
    Closure({Item(it.p, it.dot + 1, it.la) : it \in {j \in Incomplete(I) : AfterDot(j) = X}})

--------------------------------------------------------------------------------
\* The walk: one step for every symbol the parser may push

\* The state the tables lead to: a shift for a token, a goto for a nonterminal
Leads(s, X) ==
    IF X \in NonTerminals
    THEN X \in DOMAIN gotoTab[s]
    ELSE X \in DOMAIN actionTab[s] /\ actionTab[s][X].kind = "shift"

Target(s, X) == IF X \in NonTerminals THEN gotoTab[s][X] ELSE actionTab[s][X].n

Init ==
    /\ state = 0
    /\ items = Closure({Item(0, 0, "$")})

PushToken ==
    \E X \in Terminals :
        /\ Leads(state, X)
        /\ state' = Target(state, X)
        /\ items' = Advance(items, X)

PushNonTerminal ==
    \E X \in NonTerminals :
        /\ Leads(state, X)
        /\ state' = Target(state, X)
        /\ items' = Advance(items, X)

Next == PushToken \/ PushNonTerminal

Spec == Init /\ [][Next]_autoVars

--------------------------------------------------------------------------------
\* Properties

ShiftTokens == {AfterDot(it) : it \in Incomplete(items)} \ NonTerminals
ReduceOn(t) == {it.p : it \in {j \in items : Complete(j) /\ j.la = t}}
ReduceTokens == {it.la : it \in {j \in items : Complete(j)}}

\* Every row of the tables is the row the grammar calls for: in the state that the
\* tables reach after some symbols, a token has an action exactly when the items valid
\* after those symbols allow it, the action shifts if one of them goes on with the token,
\* and otherwise reduces a production that is complete before it (production 0 being
\* acceptance), and the gotos are those of the nonterminals that may come next.
RowsFollowGrammar ==
    /\ DOMAIN actionTab[state] = ShiftTokens \cup ReduceTokens
    /\ \A t \in DOMAIN actionTab[state] :
          LET act == actionTab[state][t]
          IN  IF t \in ShiftTokens THEN act.kind = "shift"
              ELSE IF 0 \in ReduceOn(t) THEN act = Accept
              ELSE act.kind = "reduce" /\ act.n \in ReduceOn(t)
    /\ DOMAIN gotoTab[state] = {AfterDot(it) : it \in Incomplete(items)} \cap NonTerminals

\* The grammar leaves the parser a choice in one place only.  Two productions never wait
\* to be reduced on the same token, and where a token could be shifted as well as reduced
\* on it is the full stop after the triples of a group, which the generated parser takes to
\* announce another triple: the Joiner of GroupGraphPattern is lost there.
OnlyTheDotIsAmbiguous ==
    /\ \A t \in ReduceTokens : Cardinality(ReduceOn(t)) = 1
    /\ \A t \in ShiftTokens \cap ReduceTokens :
          /\ t = "."
          /\ \A p \in ReduceOn(t) : productionsTable[p].id = "GroupGraphPatternSub"
================================================================================
