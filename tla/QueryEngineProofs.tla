-------------------------- MODULE QueryEngineProofs --------------------------
(***************************************************************************)
(* What QueryEngine does for every set of queries, variables and graphs:   *)
(* the plan keeps the terms of the query, each term shares a variable with *)
(* the one before it, and an operation starts from a variable only when an *)
(* earlier one has resolved it; and a Rooted query does not panic and gets *)
(* all the rows it should get, and no others if it is a tree of variables. *)
(***************************************************************************)
EXTENDS QueryEngine, FiniteSetTheorems, SequenceTheorems, TLAPS

\* The variables of a term, and those of the terms of the plan before the nth.
VarsIn(t) == Range(TermVars(t))
Before(n) == {v \in Var : \E m \in 1 .. n - 1 : v \in VarsIn(plan[m])}

-----------------------------------------------------------------------------
(* Terms and sequences of terms.                                           *)

\* The variables of a term, as newQueryTerm lists them.
LEMMA TermVarsAre ==
    ASSUME NEW t \in Term
    PROVE  /\ TermVars(t) \in Seq(Var)
           /\ VarsIn(t) = {t.s, t.p, t.o} \cap Var
           /\ Len(TermVars(t)) = (IF t.s \in Var THEN 1 ELSE 0) + (IF t.p \in Var THEN 1 ELSE 0)
                                 + (IF t.o \in Var THEN 1 ELSE 0)
           /\ Len(TermVars(t)) > 0 <=> VarsIn(t) # {}
           /\ Len(TermVars(t)) = 1 <=>
                 \/ t.s \in Var /\ t.p \notin Var /\ t.o \notin Var
                 \/ t.s \notin Var /\ t.p \in Var /\ t.o \notin Var
                 \/ t.s \notin Var /\ t.p \notin Var /\ t.o \in Var
<1> DEFINE a == IF t.s \in Var THEN <<t.s>> ELSE <<>>
           b == IF t.p \in Var THEN <<t.p>> ELSE <<>>
           c == IF t.o \in Var THEN <<t.o>> ELSE <<>>
           u == a \o b \o c
<1>1. TermVars(t) = u
  BY DEF TermVars
<1>2. a \in Seq(Var) /\ b \in Seq(Var) /\ c \in Seq(Var)
  OBVIOUS
<1>3. Range(a) = {t.s} \cap Var /\ Range(b) = {t.p} \cap Var /\ Range(c) = {t.o} \cap Var
  BY DEF Range
<1>4. /\ Len(a) = (IF t.s \in Var THEN 1 ELSE 0)
      /\ Len(b) = (IF t.p \in Var THEN 1 ELSE 0)
      /\ Len(c) = (IF t.o \in Var THEN 1 ELSE 0)
  OBVIOUS
<1> HIDE DEF a, b, c
<1>5. u \in Seq(Var) /\ Len(u) = Len(a) + Len(b) + Len(c)
  BY <1>2
<1>6. Range(u) = Range(a) \cup Range(b) \cup Range(c)
  <2> DEFINE ab == a \o b
  <2>1. ab \in Seq(Var)
    BY <1>2
  <2>2. Range(ab) = Range(a) \cup Range(b)
    BY <1>2, RangeConcatenation
  <2>3. u = ab \o c
    OBVIOUS
  <2> HIDE DEF ab, u
  <2>4. Range(ab \o c) = Range(ab) \cup Range(c)
    BY <1>2, <2>1, RangeConcatenation
  <2> QED
    BY <2>2, <2>3, <2>4
<1> HIDE DEF u
<1> QED
  BY <1>1, <1>3, <1>4, <1>5, <1>6 DEF VarsIn

\* RemoveAt closes the gap and keeps the order (the append of removeTerm).
LEMMA RemovedAt ==
    ASSUME NEW S, NEW s \in Seq(S), NEW i \in 1 .. Len(s)
    PROVE  /\ RemoveAt(s, i) \in Seq(S)
           /\ Len(RemoveAt(s, i)) = Len(s) - 1
           /\ \A j \in 1 .. i - 1 : RemoveAt(s, i)[j] = s[j]
           /\ \A j \in i .. Len(s) - 1 : RemoveAt(s, i)[j] = s[j + 1]
<1> DEFINE front == SubSeq(s, 1, i - 1)
           back == SubSeq(s, i + 1, Len(s))
           u == front \o back
<1>0. RemoveAt(s, i) = u
  BY DEF RemoveAt
<1>1. /\ front \in Seq(S) /\ Len(front) = i - 1 /\ \A j \in 1 .. i - 1 : front[j] = s[j]
  BY SubSeqProperties
<1>2. /\ back \in Seq(S) /\ Len(back) = Len(s) - i
      /\ \A j \in 1 .. Len(s) - i : back[j] = s[i + j]
  BY SubSeqProperties
<1> HIDE DEF front, back
<1>3. u \in Seq(S) /\ Len(u) = Len(s) - 1
      /\ \A j \in 1 .. Len(s) - 1 : u[j] = IF j <= i - 1 THEN front[j] ELSE back[j - (i - 1)]
  <2>1. u \in Seq(S)
    BY <1>1, <1>2, ConcatProperties
  <2>2. Len(u) = Len(front) + Len(back)
    BY <1>1, <1>2, ConcatProperties
  <2>3. \A j \in 1 .. Len(front) + Len(back) :
            u[j] = IF j <= Len(front) THEN front[j] ELSE back[j - Len(front)]
    BY <1>1, <1>2, ConcatProperties
  <2>4. (i - 1) + (Len(s) - i) = Len(s) - 1
    OBVIOUS
  <2> HIDE DEF u
  <2> QED
    BY <1>1, <1>2, <2>1, <2>2, <2>3, <2>4
<1>4. \A j \in i .. Len(s) - 1 : back[j - (i - 1)] = s[j + 1]
  BY <1>2
<1> HIDE DEF u
<1>5. ASSUME NEW j \in 1 .. i - 1
      PROVE  u[j] = s[j]
  <2>1. j \in 1 .. Len(s) - 1 /\ j <= i - 1
    OBVIOUS
  <2>2. u[j] = front[j]
    BY <1>3, <2>1
  <2> QED
    BY <1>1, <2>2
<1>6. ASSUME NEW j \in i .. Len(s) - 1
      PROVE  u[j] = s[j + 1]
  <2>1. j \in 1 .. Len(s) - 1 /\ ~ (j <= i - 1)
    OBVIOUS
  <2>2. u[j] = back[j - (i - 1)]
    BY <1>3, <2>1
  <2> QED
    BY <1>4, <2>2
<1>7. u \in Seq(S) /\ Len(u) = Len(s) - 1
  BY <1>3
<1> QED
  BY <1>0, <1>5, <1>6, <1>7

\* The places of a term in a sequence.
At(t, s) == {i \in DOMAIN s : s[i] = t}

\* How often a term occurs is the number of its places.
LEMMA OccurrencesAre ==
    ASSUME NEW s, NEW t
    PROVE  Occurrences(t, s) = Cardinality(At(t, s))
<1> QED
  BY DEF Occurrences, At

\* A term has finitely many places in a list.
LEMMA AtFinite ==
    ASSUME NEW S, NEW s \in Seq(S), NEW t
    PROVE  IsFiniteSet(At(t, s)) /\ Cardinality(At(t, s)) \in Nat
<1>1. IsFiniteSet(1 .. Len(s))
  BY FS_Interval
<1>2. At(t, s) \in SUBSET (1 .. Len(s))
  BY DEF At
<1> QED
  BY <1>1, <1>2, FS_Subset, FS_CardinalityType

\* Appending adds one place, of the element appended.
LEMMA OccursAppend ==
    ASSUME NEW S, NEW s \in Seq(S), NEW e \in S, NEW t
    PROVE  Occurrences(t, Append(s, e)) = Occurrences(t, s) + IF e = t THEN 1 ELSE 0
<1> DEFINE n == Len(s) + 1
<1>1. n \notin At(t, s) /\ IsFiniteSet(At(t, s)) /\ Cardinality(At(t, s)) \in Nat
  <2>1. n \notin At(t, s)
    BY DEF At
  <2>2. IsFiniteSet(At(t, s))
    BY AtFinite
  <2>3. Cardinality(At(t, s)) \in Nat
    BY AtFinite
  <2> QED
    BY <2>1, <2>2, <2>3
<1>2. At(t, Append(s, e)) = IF e = t THEN At(t, s) \cup {n} ELSE At(t, s)
  BY DEF At
<1>3. Cardinality(At(t, s) \cup {n}) = Cardinality(At(t, s)) + 1
  BY <1>1, FS_AddElement
<1> QED
  <2>1. Occurrences(t, s) = Cardinality(At(t, s))
    BY OccurrencesAre
  <2>2. Occurrences(t, Append(s, e)) = Cardinality(At(t, Append(s, e)))
    BY OccurrencesAre
  <2> QED
    BY <1>1, <1>2, <1>3, <2>1, <2>2

\* Removing takes one place, of the element removed.
LEMMA OccursRemove ==
    ASSUME NEW S, NEW s \in Seq(S), NEW i \in 1 .. Len(s), NEW t
    PROVE  Occurrences(t, s) = Occurrences(t, RemoveAt(s, i)) + IF s[i] = t THEN 1 ELSE 0
<1> DEFINE u == RemoveAt(s, i)
           K == At(t, s) \ {i}
           L == At(t, u)
           g == [j \in K |-> IF j < i THEN j ELSE j - 1]
<1>1. /\ u \in Seq(S) /\ Len(u) = Len(s) - 1
      /\ \A j \in 1 .. i - 1 : u[j] = s[j]
      /\ \A j \in i .. Len(s) - 1 : u[j] = s[j + 1]
  BY RemovedAt
<1> HIDE DEF u
<1>2. DOMAIN u = 1 .. Len(s) - 1 /\ DOMAIN s = 1 .. Len(s) /\ Len(s) \in Nat
  BY <1>1
<1>3. IsFiniteSet(At(t, s)) /\ Cardinality(At(t, s)) \in Nat /\ IsFiniteSet(K)
  <2>1. IsFiniteSet(At(t, s)) /\ Cardinality(At(t, s)) \in Nat
    BY AtFinite
  <2> QED
    BY <2>1, FS_Difference
<1>4. g \in Bijection(K, L)
  <2>1. \A j \in K : j \in 1 .. Len(s) /\ j # i /\ s[j] = t
    BY <1>2 DEF At
  <2>2. \A j \in L : j \in 1 .. Len(s) - 1 /\ u[j] = t
    BY <1>2 DEF At
  <2>3. \A j \in 1 .. Len(s) : j # i /\ s[j] = t => j \in K
    BY <1>2 DEF At
  <2>4. \A j \in 1 .. Len(s) - 1 : u[j] = t => j \in L
    BY <1>2 DEF At
  <2> HIDE DEF K, L
  <2>5. \A j \in K : g[j] \in L
    <3> SUFFICES ASSUME NEW j \in K PROVE g[j] \in L
      OBVIOUS
    <3>1. CASE j < i
      BY <1>1, <1>2, <2>1, <2>4, <3>1
    <3>2. CASE ~ (j < i)
      <4>1. j - 1 \in i .. Len(s) - 1 /\ (j - 1) + 1 = j /\ g[j] = j - 1
        BY <2>1, <3>2
      <4>2. u[j - 1] = t
        BY <1>1, <2>1, <4>1
      <4> QED
        BY <2>4, <4>1, <4>2
    <3> QED
      BY <3>1, <3>2
  <2>6. \A j, k \in K : g[j] = g[k] => j = k
    BY <2>1
  <2>7. \A m \in L : \E j \in K : g[j] = m
    <3> SUFFICES ASSUME NEW m \in L PROVE \E j \in K : g[j] = m
      OBVIOUS
    <3>1. CASE m < i
      <4>1. m \in K
        BY <1>1, <1>2, <2>2, <2>3, <3>1
      <4> QED
        BY <3>1, <4>1
    <3>2. CASE ~ (m < i)
      <4>1. m + 1 \in 1 .. Len(s) /\ m + 1 # i /\ ~ (m + 1 < i) /\ (m + 1) - 1 = m /\ s[m + 1] = u[m]
        BY <1>1, <1>2, <2>2, <3>2
      <4>2. m + 1 \in K
        BY <2>2, <2>3, <4>1
      <4> QED
        BY <4>1, <4>2
    <3> QED
      BY <3>1, <3>2
  <2>8. g \in [K -> L]
    BY <2>5
  <2> HIDE DEF g
  <2> QED
    BY <2>6, <2>7, <2>8 DEF Bijection, Injection, Surjection, IsInjective
<1> HIDE DEF g, L
<1>5. Cardinality(L) = Cardinality(K) /\ Cardinality(K) \in Nat
  <2> HIDE DEF K
  <2>1. Cardinality(K) \in Nat
    BY <1>3, FS_CardinalityType
  <2>2. Cardinality(L) = Cardinality(K)
    BY <1>3, <1>4, FS_Bijection DEF ExistsBijection
  <2> QED
    BY <2>1, <2>2
<1>6. Cardinality(At(t, s)) = Cardinality(K) + IF s[i] = t THEN 1 ELSE 0
  <2>1. CASE s[i] = t
    <3>1. i \in At(t, s)
      BY <1>2, <2>1 DEF At
    <3> QED
      BY <1>3, <2>1, <3>1, FS_RemoveElement
  <2>2. CASE s[i] # t
    <3>1. K = At(t, s)
      BY <2>2 DEF At
    <3> HIDE DEF K
    <3> QED
      BY <1>5, <2>2, <3>1
  <2> QED
    BY <2>1, <2>2
<1> QED
  BY <1>5, <1>6, OccurrencesAre DEF L, u

-----------------------------------------------------------------------------
(* The plan.                                                               *)

KeepsTerms ==
    \A t \in Term : Occurrences(t, plan) + Occurrences(t, terms) = Occurrences(t, query)

StageOK ==
    /\ pc \in {"root", "panic"} => plan = <<>>
    /\ pc \in {"order", "form", "planned"} => plan # <<>> /\ VarsIn(plan[1]) # {}
    /\ pc \in {"root", "order", "panic"} => operations = <<>>
    /\ Len(operations) <= Len(plan)
    /\ pc = "planned" => Len(operations) = Len(plan)

\* Follows, over the whole plan: what a term has to be joined by.
Connected == \A i \in 2 .. Len(plan) : Shares(plan[i - 1], plan[i])

\* The marks in qp.vars are never ahead of the operations...
Marked == \A v \in Var : links[v] # UNRESOLVED => v \in Before(Len(operations) + 1)

\* ...and for Rooted queries not behind them either.
MarkedRooted ==
    Rooted /\ Len(operations) < Len(plan) =>
        \A v \in Before(Len(operations) + 1) : links[v] # UNRESOLVED

\* The operation chosen for the nth term of such a query.
Chosen(n) ==
    LET t == plan[n]
        name == operations[n].name
    IN \/ t.s \in Var /\ t.p \notin Var /\ t.o \notin Var /\ name = "resolveSubject"
       \/ t.s \notin Var /\ t.p \notin Var /\ t.o \in Var /\ name = "resolveObject"
       \/ /\ t.s \in Var /\ t.p \notin Var /\ t.o \in Var
          /\ \/ /\ name = "restrictSubjectObjectByPredicate"
                /\ t.s \in Before(n) /\ t.o \in Before(n)
             \/ name = "resolveSubjectFromVarObject" /\ t.o \in Before(n)
             \/ name = "resolveObjectFromVarSubject" /\ t.s \in Before(n)
       \/ /\ n = Len(plan) /\ t.s \in Var /\ t.p \in Var /\ t.o \notin Var
          /\ name = "resolveSubjectPredFromObject"
       \/ /\ n = Len(plan) /\ t.s \in Var /\ t.p \in Var /\ t.o \in Var
          /\ \/ name = "resolveVarTripleFromSubject" /\ t.s \in Before(n)
             \/ name = "resolveVarTripleFromObject" /\ t.o \in Before(n)
             \/ name = "resolveVarTripleFromPredicate" /\ t.p \in Before(n)

ChosenRooted == Rooted => \A n \in DOMAIN operations : Chosen(n)

PlanInv ==
    /\ TypeOK
    /\ KeepsTerms
    /\ StageOK
    /\ Connected
    /\ Marked
    /\ StartsResolved
    /\ MarkedRooted
    /\ ChosenRooted

\* Before planning every term has still to be ordered.
LEMMA PlanInit == EngineInit => PlanInv
<1> SUFFICES ASSUME EngineInit PROVE PlanInv
  OBVIOUS
<1>0. /\ query \in Queries /\ pc = "root" /\ terms = query /\ plan = <<>> /\ operations = <<>>
      /\ links = [v \in Var |-> UNRESOLVED] /\ query \in Seq(Term)
  BY QueriesAssumption DEF EngineInit, Init
<1>1. TypeOK
  BY <1>0 DEF TypeOK
<1>2. KeepsTerms
  <2> SUFFICES ASSUME NEW t \in Term
               PROVE  Occurrences(t, plan) + Occurrences(t, terms) = Occurrences(t, query)
    BY DEF KeepsTerms
  <2>1. At(t, plan) = {}
    BY <1>0 DEF At
  <2>2. Occurrences(t, plan) = 0
    BY <2>1, OccurrencesAre, FS_EmptySet
  <2>3. Occurrences(t, query) \in Nat
    <3>1. Cardinality(At(t, query)) \in Nat
      BY <1>0, AtFinite
    <3> QED
      BY <3>1, OccurrencesAre
  <2> QED
    BY <1>0, <2>2, <2>3
<1>3. StageOK /\ Connected /\ Marked /\ StartsResolved
  BY <1>0 DEF StageOK, Connected, Marked, StartsResolved
<1>4. MarkedRooted /\ ChosenRooted
  BY <1>0 DEF MarkedRooted, ChosenRooted
<1> QED
  BY <1>1, <1>2, <1>3, <1>4 DEF PlanInv

\* A term moves from those to be ordered to the end of the plan.
LEMMA TakeKeepsTerms ==
    ASSUME TypeOK, KeepsTerms, NEW i \in DOMAIN terms, Take(i), query' = query
    PROVE  /\ KeepsTerms' /\ terms' \in Seq(Term) /\ plan' \in Seq(Term)
           /\ plan' = Append(plan, terms[i]) /\ terms[i] \in Term
<1>1. i \in 1 .. Len(terms) /\ terms \in Seq(Term) /\ plan \in Seq(Term) /\ terms[i] \in Term
      /\ query \in Seq(Term)
  BY QueriesAssumption DEF TypeOK
<1>2. plan' = Append(plan, terms[i]) /\ terms' = RemoveAt(terms, i)
  BY DEF Take
<1>3. terms' \in Seq(Term)
  BY <1>1, <1>2, RemovedAt
<1>4. ASSUME NEW t \in Term
      PROVE  Occurrences(t, plan') + Occurrences(t, terms') = Occurrences(t, query')
  <2>1. Occurrences(t, plan') = Occurrences(t, plan) + IF terms[i] = t THEN 1 ELSE 0
    BY <1>1, <1>2, OccursAppend
  <2>2. Occurrences(t, terms) = Occurrences(t, terms') + IF terms[i] = t THEN 1 ELSE 0
    BY <1>1, <1>2, OccursRemove
  <2>3. Occurrences(t, plan) \in Nat /\ Occurrences(t, terms') \in Nat
    <3>1. Cardinality(At(t, plan)) \in Nat
      BY <1>1, AtFinite
    <3>2. Cardinality(At(t, terms')) \in Nat
      BY <1>3, AtFinite
    <3> QED
      BY <3>1, <3>2, OccurrencesAre
  <2> QED
    BY <2>1, <2>2, <2>3 DEF KeepsTerms
<1> QED
  BY <1>1, <1>2, <1>3, <1>4 DEF KeepsTerms

\* The root term moves from those to be ordered to the plan.
LEMMA ChooseRootPlan ==
    ASSUME PlanInv, ChooseRoot
    PROVE  PlanInv'
<1>0. TypeOK /\ KeepsTerms /\ StageOK
  BY DEF PlanInv
<1>1. /\ pc = "root" /\ pc' = "order" /\ query' = query /\ links' = links
      /\ operations' = operations /\ plan = <<>> /\ operations = <<>>
  BY <1>0 DEF ChooseRoot, StageOK
<1>2. PICK i \in DOMAIN terms : IsRoot(i) /\ Take(i)
  BY DEF ChooseRoot
<1>3. KeepsTerms' /\ terms' \in Seq(Term) /\ plan' \in Seq(Term)
      /\ plan' = Append(plan, terms[i]) /\ terms[i] \in Term
  BY <1>0, <1>1, <1>2, TakeKeepsTerms
<1>4. plan' # <<>> /\ plan'[1] = terms[i] /\ Len(plan') = 1
  BY <1>1, <1>3
<1>5. VarsIn(plan'[1]) # {}
  <2>1. Len(TermVars(terms[i])) > 0
    BY <1>2 DEF IsRoot
  <2> QED
    BY <1>3, <1>4, <2>1, TermVarsAre
<1>6. TypeOK' /\ StageOK'
  BY <1>0, <1>1, <1>3, <1>4, <1>5 DEF TypeOK, StageOK
<1>7. Connected' /\ StartsResolved'
  BY <1>1, <1>4 DEF Connected, StartsResolved
<1>8. Marked'
  <2>1. \A v \in Var : links[v] = UNRESOLVED
    BY <1>0, <1>1 DEF PlanInv, Marked, Before
  <2> QED
    BY <1>1, <2>1 DEF Marked
<1>9. MarkedRooted' /\ ChosenRooted'
  <2>1. Before(Len(operations) + 1)' = {}
    BY <1>1 DEF Before
  <2> QED
    BY <1>1, <2>1 DEF MarkedRooted, ChosenRooted
<1> QED
  BY <1>3, <1>6, <1>7, <1>8, <1>9 DEF PlanInv

\* The next term moves to the plan and shares a variable with those before it.
LEMMA ChooseNextPlan ==
    ASSUME PlanInv, ChooseNext
    PROVE  PlanInv'
<1>0. TypeOK /\ KeepsTerms /\ StageOK /\ Connected
  BY DEF PlanInv
<1>1. /\ pc = "order" /\ pc' = pc /\ query' = query /\ links' = links
      /\ operations' = operations /\ plan # <<>> /\ operations = <<>> /\ VarsIn(plan[1]) # {}
  BY <1>0 DEF ChooseNext, StageOK
<1>2. PICK i \in DOMAIN terms : Follows(i) /\ Take(i)
  BY DEF ChooseNext
<1>3. KeepsTerms' /\ terms' \in Seq(Term) /\ plan' \in Seq(Term)
      /\ plan' = Append(plan, terms[i]) /\ terms[i] \in Term
  BY <1>0, <1>1, <1>2, TakeKeepsTerms
<1>4. /\ Len(plan) \in Nat /\ Len(plan) > 0 /\ Len(plan') = Len(plan) + 1
      /\ \A j \in 1 .. Len(plan) : plan'[j] = plan[j]
      /\ plan'[Len(plan) + 1] = terms[i] /\ plan \in Seq(Term)
  BY <1>0, <1>1, <1>3 DEF TypeOK
<1>5. TypeOK' /\ StageOK'
  <2>1. plan'[1] = plan[1] /\ plan' # <<>>
    BY <1>4
  <2> QED
    BY <1>0, <1>1, <1>3, <1>4, <2>1 DEF TypeOK, StageOK
<1>6. Connected'
  <2> SUFFICES ASSUME NEW j \in 2 .. Len(plan') PROVE Shares(plan'[j - 1], plan'[j])
    BY DEF Connected
  <2>1. CASE j <= Len(plan)
    <3>1. j - 1 \in 1 .. Len(plan) /\ j \in 1 .. Len(plan) /\ j \in 2 .. Len(plan)
      BY <1>4, <2>1
    <3> QED
      BY <1>0, <1>4, <3>1 DEF Connected
  <2>2. CASE j = Len(plan) + 1
    <3>1. j - 1 = Len(plan) /\ plan'[j - 1] = plan[Len(plan)] /\ plan[Len(plan)] \in Term
      BY <1>4, <2>2
    <3>2. Overlaps(terms[i], plan[Len(plan)])
      BY <1>2 DEF Follows, Last
    <3>3. VarsIn(terms[i]) \subseteq Var
      BY <1>3, TermVarsAre
    <3>4. PICK v : v \in VarsIn(terms[i]) /\ v \in VarsIn(plan[Len(plan)])
      BY <3>2 DEF Overlaps, VarsIn
    <3> QED
      BY <1>4, <2>2, <3>1, <3>3, <3>4 DEF Shares, VarsIn
  <2> QED
    BY <1>4, <2>1, <2>2
<1>7. StartsResolved' /\ Marked'
  <2>1. \A v \in Var : links[v] = UNRESOLVED
    BY <1>1 DEF PlanInv, Marked, Before
  <2> QED
    BY <1>1, <2>1 DEF Marked, StartsResolved
<1>8. MarkedRooted' /\ ChosenRooted'
  <2>1. Before(Len(operations) + 1)' = {}
    BY <1>1 DEF Before
  <2> QED
    BY <1>1, <2>1 DEF MarkedRooted, ChosenRooted
<1> QED
  BY <1>3, <1>5, <1>6, <1>7, <1>8 DEF PlanInv

\* What the invariant speaks of stays, but for the stage.
LEMMA StagePlan ==
    ASSUME PlanInv, UNCHANGED <<query, terms, plan, links, operations>>, TypeOK', StageOK'
    PROVE  PlanInv'
<1>1. \A n : Before(n)' = Before(n)
  BY DEF Before
<1>2. Rooted' <=> Rooted
  BY DEF Rooted
<1>3. \A n : Chosen(n)' <=> Chosen(n)
  BY <1>1 DEF Chosen
<1> QED
  BY <1>1, <1>2, <1>3 DEF PlanInv, KeepsTerms, Connected, Marked, StartsResolved, MarkedRooted,
     ChosenRooted

\* What choosing an operation for a term does to the operations and the marks.
LEMMA ChooseDoes ==
    ASSUME TypeOK, NEW t \in Term, Choose(t)
    PROVE  /\ links' \in [Var -> Var \cup {RESOLVED, UNRESOLVED}]
           /\ \A v \in Var : links'[v] # UNRESOLVED => links[v] # UNRESOLVED \/ v \in VarsIn(t)
           /\ \A v \in Var : links[v] # UNRESOLVED => links'[v] # UNRESOLVED
           /\ \E o \in [name : Operations, from : Var \cup {NoVar}] :
                 /\ operations' = Append(operations, o)
                 /\ o.from # NoVar => hasVar(o.from)
<1> DEFINE Goal == /\ links' \in [Var -> Var \cup {RESOLVED, UNRESOLVED}]
                   /\ \A v \in Var : links'[v] # UNRESOLVED => links[v] # UNRESOLVED \/ v \in VarsIn(t)
                   /\ \A v \in Var : links[v] # UNRESOLVED => links'[v] # UNRESOLVED
                   /\ \E o \in [name : Operations, from : Var \cup {NoVar}] :
                         /\ operations' = Append(operations, o)
                         /\ o.from # NoVar => hasVar(o.from)
<1>0. links \in [Var -> Var \cup {RESOLVED, UNRESOLVED}] /\ \A v \in Var : hasVar(v) <=> links[v] # UNRESOLVED
  BY DEF TypeOK, hasVar
<1>1. VarsIn(t) = {t.s, t.p, t.o} \cap Var
  BY TermVarsAre
<1>2. ASSUME NEW parent \in Var, NEW child \in Var \cap {t.s, t.p, t.o}, links' = Link(parent, child)
      PROVE  /\ links' \in [Var -> Var \cup {RESOLVED, UNRESOLVED}]
             /\ \A v \in Var : links'[v] # UNRESOLVED => links[v] # UNRESOLVED \/ v \in VarsIn(t)
             /\ \A v \in Var : links[v] # UNRESOLVED => links'[v] # UNRESOLVED
  BY <1>0, <1>1, <1>2, MarksAssumption DEF Link
<1>3. ASSUME NEW u \in Var \cap {t.s, t.p, t.o}, links' = TopLevel(u)
      PROVE  /\ links' \in [Var -> Var \cup {RESOLVED, UNRESOLVED}]
             /\ \A v \in Var : links'[v] # UNRESOLVED => links[v] # UNRESOLVED \/ v \in VarsIn(t)
             /\ \A v \in Var : links[v] # UNRESOLVED => links'[v] # UNRESOLVED
  BY <1>0, <1>1, <1>3, MarksAssumption DEF TopLevel
<1>4. ASSUME NEW name \in Operations, NEW from \in Var \cup {NoVar}, from # NoVar => hasVar(from),
             operations' = Append(operations, Operation(name, from))
      PROVE  \E o \in [name : Operations, from : Var \cup {NoVar}] :
                 /\ operations' = Append(operations, o)
                 /\ o.from # NoVar => hasVar(o.from)
  <2>1. Operation(name, from) \in [name : Operations, from : Var \cup {NoVar}]
        /\ Operation(name, from).from = from
    BY DEF Operation
  <2> QED
    BY <1>4, <2>1
<1>5. CASE t.s \in Var /\ t.p \in Var /\ t.o \in Var /\ Three(t)
  <2>1. links' = links
    BY <1>5 DEF Three
  <2>2. \E o \in [name : Operations, from : Var \cup {NoVar}] :
            operations' = Append(operations, o) /\ (o.from # NoVar => hasVar(o.from))
    <3>1. CASE hasVar(t.s)
      <4>1. operations' = Append(operations, Operation("resolveVarTripleFromSubject", t.s))
        BY <1>5, <3>1 DEF Three
      <4> QED
        BY <1>4, <1>5, <3>1, <4>1 DEF Operations
    <3>2. CASE ~ hasVar(t.s) /\ hasVar(t.o)
      <4>1. operations' = Append(operations, Operation("resolveVarTripleFromObject", t.o))
        BY <1>5, <3>2 DEF Three
      <4> QED
        BY <1>4, <1>5, <3>2, <4>1 DEF Operations
    <3>3. CASE ~ hasVar(t.s) /\ ~ hasVar(t.o) /\ hasVar(t.p)
      <4>1. operations' = Append(operations, Operation("resolveVarTripleFromPredicate", t.p))
        BY <1>5, <3>3 DEF Three
      <4> QED
        BY <1>4, <1>5, <3>3, <4>1 DEF Operations
    <3>4. CASE ~ hasVar(t.s) /\ ~ hasVar(t.o) /\ ~ hasVar(t.p)
      <4>1. operations' = Append(operations, Operation("resolveVarTripleAll", NoVar))
        BY <1>5, <3>4 DEF Three
      <4> QED
        BY <1>4, <4>1 DEF Operations
    <3> QED
      BY <3>1, <3>2, <3>3, <3>4
  <2> QED
    BY <1>0, <2>1, <2>2
<1>6. CASE t.s \in Var /\ t.o \in Var /\ SubjectAndObject(t)
  <2>1. CASE hasVar(t.s) /\ hasVar(t.o)
    <3> DEFINE parent == RestrictParent(t)
               child == IF parent = t.s THEN t.o ELSE t.s
    <3>1. links' = Link(parent, child)
          /\ operations' = Append(operations, Operation("restrictSubjectObjectByPredicate", parent))
      BY <1>6, <2>1 DEF SubjectAndObject
    <3>2. parent \in {t.s, t.o} /\ child \in {t.s, t.o}
      BY DEF RestrictParent
    <3> HIDE DEF parent, child
    <3>3. parent \in Var /\ hasVar(parent) /\ child \in Var \cap {t.s, t.p, t.o}
      BY <1>6, <2>1, <3>2
    <3>4. "restrictSubjectObjectByPredicate" \in Operations
      BY DEF Operations
    <3> QED
      BY <1>2, <1>4, <3>1, <3>3, <3>4
  <2>2. CASE ~ hasVar(t.s) /\ hasVar(t.o)
    <3>1. links' = Link(t.o, t.s)
          /\ operations' = Append(operations, Operation("resolveSubjectFromVarObject", t.o))
      BY <1>6, <2>2 DEF SubjectAndObject
    <3>2. "resolveSubjectFromVarObject" \in Operations
      BY DEF Operations
    <3> QED
      BY <1>2, <1>4, <1>6, <2>2, <3>1, <3>2
  <2>3. CASE hasVar(t.s) /\ ~ hasVar(t.o)
    <3>1. links' = Link(t.s, t.o)
          /\ operations' = Append(operations, Operation("resolveObjectFromVarSubject", t.s))
      BY <1>6, <2>3 DEF SubjectAndObject
    <3>2. "resolveObjectFromVarSubject" \in Operations
      BY DEF Operations
    <3> QED
      BY <1>2, <1>4, <1>6, <2>3, <3>1, <3>2
  <2>4. CASE ~ hasVar(t.s) /\ ~ hasVar(t.o)
    <3>1. links' = Link(t.s, t.o)
          /\ operations' = Append(operations, Operation("resolveSubjectObjectFromPred", NoVar))
      BY <1>6, <2>4 DEF SubjectAndObject
    <3>2. "resolveSubjectObjectFromPred" \in Operations
      BY DEF Operations
    <3> QED
      BY <1>2, <1>4, <1>6, <2>4, <3>1, <3>2
  <2> QED
    BY <2>1, <2>2, <2>3, <2>4
<1>7. ASSUME NEW name \in Operations, NEW parent \in Var, NEW child \in Var \cap {t.s, t.p, t.o},
             Two(t, name, parent, child)
      PROVE  Goal
  <2>1. links' = Link(parent, child) /\ operations' = Append(operations, Operation(name, NoVar))
    BY <1>7 DEF Two
  <2> QED
    BY <1>2, <1>4, <2>1
<1>8. ASSUME NEW name \in Operations, NEW u \in Var \cap {t.s, t.p, t.o}, One(t, name, u)
      PROVE  Goal
  <2>1. links' = TopLevel(u) /\ operations' = Append(operations, Operation(name, NoVar))
    BY <1>8 DEF One
  <2> QED
    BY <1>3, <1>4, <2>1
<1>9. {"resolveSubjectPredFromObject", "resolvePredObjectFromSubject", "resolveSubject",
       "resolveObject", "resolvePredicate"} \subseteq Operations
  BY DEF Operations
<1> QED
  BY <1>5, <1>6, <1>7, <1>8, <1>9 DEF Choose

\* Appending to a sequence changes none of its elements.
LEMMA Appended ==
    ASSUME NEW S, NEW s \in Seq(S), NEW e \in S
    PROVE  /\ Append(s, e) \in Seq(S) /\ Len(Append(s, e)) = Len(s) + 1
           /\ DOMAIN Append(s, e) = 1 .. Len(s) + 1 /\ Len(s) \in Nat
           /\ \A i \in 1 .. Len(s) : Append(s, e)[i] = s[i]
           /\ Append(s, e)[Len(s) + 1] = e
<1> QED
  OBVIOUS

\* The operation chosen for a term of a Rooted query, and the marks it leaves.
LEMMA ChosenNow ==
    ASSUME PlanInv, Rooted, NEW n, n = Len(operations) + 1, n \in 1 .. Len(plan),
           Choose(plan[n]), plan' = plan
    PROVE  /\ Chosen(n)'
           /\ n < Len(plan) => \A v \in VarsIn(plan[n]) : links'[v] # UNRESOLVED
<1> DEFINE t == plan[n]
<1>0. /\ TypeOK /\ n \in DOMAIN plan /\ t \in Term /\ n \in Nat
      /\ links \in [Var -> Var \cup {RESOLVED, UNRESOLVED}]
      /\ operations \in Seq([name : Operations, from : Var \cup {NoVar}])
      /\ plan \in Seq(Term)
  BY DEF PlanInv, TypeOK
<1>1. \A v \in Var : hasVar(v) <=> v \in Before(n)
  <2>1. Len(operations) < Len(plan)
    BY <1>0
  <2> QED
    BY <2>1 DEF PlanInv, Marked, MarkedRooted, hasVar
<1>2. Before(n)' = Before(n)
  BY DEF Before
<1>3. VarsIn(t) = {t.s, t.p, t.o} \cap Var
  BY <1>0, TermVarsAre
<1>4. t.p \in Var => n # 1 /\ n = Len(plan) /\ t.s \in Var
  BY <1>0 DEF Rooted
<1>5. n = 1 => t.p \notin Var /\ (t.s \in Var <=> t.o \notin Var)
  <2> SUFFICES ASSUME n = 1 PROVE t.p \notin Var /\ (t.s \in Var <=> t.o \notin Var)
    OBVIOUS
  <2>1. Len(TermVars(t)) = 1
    BY DEF Rooted
  <2> QED
    BY <1>0, <1>4, <2>1, TermVarsAre
<1>6. n # 1 => \E v \in VarsIn(t) : v \in Before(n)
  <2> SUFFICES ASSUME n # 1 PROVE \E v \in VarsIn(t) : v \in Before(n)
    OBVIOUS
  <2>1. n \in 2 .. Len(plan) /\ n - 1 \in 1 .. n - 1
    BY <1>0
  <2>2. PICK v \in Var : v \in VarsIn(plan[n - 1]) /\ v \in VarsIn(t)
    BY <2>1 DEF PlanInv, Connected, Shares, VarsIn
  <2> QED
    BY <2>1, <2>2 DEF Before
<1>7. ASSUME NEW name \in Operations, NEW from \in Var \cup {NoVar},
             operations' = Append(operations, Operation(name, from))
      PROVE  operations'[n].name = name
  <2>1. Operation(name, from) \in [name : Operations, from : Var \cup {NoVar}]
        /\ Operation(name, from).name = name
    BY DEF Operation
  <2>2. operations'[Len(operations) + 1] = Operation(name, from)
    BY <1>0, <1>7, <2>1, Appended
  <2> QED
    BY <2>1, <2>2
<1> HIDE DEF t
<1>8. CASE t.s \in Var /\ t.p \in Var /\ t.o \in Var
  <2>0. Three(t) /\ n = Len(plan)
    BY <1>4, <1>8 DEF Choose, t
  <2>1. CASE hasVar(t.s)
    <3>1. operations' = Append(operations, Operation("resolveVarTripleFromSubject", t.s))
      BY <2>0, <2>1 DEF Three
    <3>2. operations'[n].name = "resolveVarTripleFromSubject"
      BY <1>7, <1>8, <3>1 DEF Operations
    <3> QED
      BY <1>1, <1>2, <1>8, <2>0, <2>1, <3>2 DEF Chosen, t
  <2>2. CASE ~ hasVar(t.s) /\ hasVar(t.o)
    <3>1. operations' = Append(operations, Operation("resolveVarTripleFromObject", t.o))
      BY <2>0, <2>2 DEF Three
    <3>2. operations'[n].name = "resolveVarTripleFromObject"
      BY <1>7, <1>8, <3>1 DEF Operations
    <3> QED
      BY <1>1, <1>2, <1>8, <2>0, <2>2, <3>2 DEF Chosen, t
  <2>3. CASE ~ hasVar(t.s) /\ ~ hasVar(t.o)
    <3>0. hasVar(t.p)
      BY <1>0, <1>1, <1>3, <1>4, <1>6, <1>8, <2>3
    <3>1. operations' = Append(operations, Operation("resolveVarTripleFromPredicate", t.p))
      BY <2>0, <2>3, <3>0 DEF Three
    <3>2. operations'[n].name = "resolveVarTripleFromPredicate"
      BY <1>7, <1>8, <3>1 DEF Operations
    <3> QED
      BY <1>1, <1>2, <1>8, <2>0, <3>0, <3>2 DEF Chosen, t
  <2> QED
    BY <2>1, <2>2, <2>3
<1>9. CASE t.s \in Var /\ t.p \notin Var /\ t.o \in Var
  <2>0. SubjectAndObject(t) /\ VarsIn(t) = {t.s, t.o} /\ (hasVar(t.s) \/ hasVar(t.o))
    <3>1. SubjectAndObject(t)
      BY <1>9 DEF Choose, t
    <3>2. VarsIn(t) = {t.s, t.o}
      BY <1>3, <1>9
    <3> QED
      BY <1>1, <1>5, <1>6, <1>9, <3>1, <3>2
  <2>1. CASE hasVar(t.s) /\ hasVar(t.o)
    <3> DEFINE parent == RestrictParent(t)
               child == IF parent = t.s THEN t.o ELSE t.s
    <3>1. links' = Link(parent, child)
          /\ operations' = Append(operations, Operation("restrictSubjectObjectByPredicate", parent))
      BY <2>0, <2>1 DEF SubjectAndObject
    <3>2. parent \in Var
      BY <1>9 DEF RestrictParent
    <3> HIDE DEF parent, child
    <3>3. operations'[n].name = "restrictSubjectObjectByPredicate"
      BY <1>7, <3>1, <3>2 DEF Operations
    <3>4. links'[t.s] # UNRESOLVED /\ links'[t.o] # UNRESOLVED
      BY <1>0, <1>9, <2>1, <3>1, <3>2, MarksAssumption DEF Link, hasVar
    <3> QED
      BY <1>1, <1>2, <1>9, <2>0, <2>1, <3>3, <3>4 DEF Chosen, t
  <2>2. CASE ~ hasVar(t.s) /\ hasVar(t.o)
    <3>1. links' = Link(t.o, t.s)
          /\ operations' = Append(operations, Operation("resolveSubjectFromVarObject", t.o))
      BY <2>0, <2>2 DEF SubjectAndObject
    <3>2. operations'[n].name = "resolveSubjectFromVarObject"
      BY <1>7, <1>9, <3>1 DEF Operations
    <3>3. links'[t.s] # UNRESOLVED /\ links'[t.o] # UNRESOLVED
      BY <1>0, <1>9, <2>2, <3>1, MarksAssumption DEF Link, hasVar
    <3> QED
      BY <1>1, <1>2, <1>9, <2>0, <2>2, <3>2, <3>3 DEF Chosen, t
  <2>3. CASE hasVar(t.s) /\ ~ hasVar(t.o)
    <3>1. links' = Link(t.s, t.o)
          /\ operations' = Append(operations, Operation("resolveObjectFromVarSubject", t.s))
      BY <2>0, <2>3 DEF SubjectAndObject
    <3>2. operations'[n].name = "resolveObjectFromVarSubject"
      BY <1>7, <1>9, <3>1 DEF Operations
    <3>3. links'[t.s] # UNRESOLVED /\ links'[t.o] # UNRESOLVED
      BY <1>0, <1>9, <2>3, <3>1, MarksAssumption DEF Link, hasVar
    <3> QED
      BY <1>1, <1>2, <1>9, <2>0, <2>3, <3>2, <3>3 DEF Chosen, t
  <2> QED
    BY <2>0, <2>1, <2>2, <2>3
<1>10. CASE t.s \in Var /\ t.p \in Var /\ t.o \notin Var
  <2>1. Two(t, "resolveSubjectPredFromObject", t.s, t.p) /\ n = Len(plan)
    BY <1>4, <1>10 DEF Choose, t
  <2>2. operations' = Append(operations, Operation("resolveSubjectPredFromObject", NoVar))
    BY <2>1 DEF Two
  <2>3. operations'[n].name = "resolveSubjectPredFromObject"
    BY <1>7, <2>2 DEF Operations
  <2> QED
    BY <1>10, <2>1, <2>3 DEF Chosen, t
<1>11. ASSUME NEW u \in Var, links' = TopLevel(u)
       PROVE  links'[u] # UNRESOLVED
  BY <1>0, <1>11, MarksAssumption DEF TopLevel, varIsChild, hasVar
<1>12. CASE t.s \in Var /\ t.p \notin Var /\ t.o \notin Var
  <2>1. One(t, "resolveSubject", t.s)
    BY <1>12 DEF Choose, t
  <2>2. links' = TopLevel(t.s) /\ operations' = Append(operations, Operation("resolveSubject", NoVar))
    BY <2>1 DEF One
  <2>3. operations'[n].name = "resolveSubject" /\ links'[t.s] # UNRESOLVED
    BY <1>7, <1>11, <1>12, <2>2 DEF Operations
  <2>4. VarsIn(t) = {t.s}
    BY <1>3, <1>12
  <2> QED
    BY <1>12, <2>3, <2>4 DEF Chosen, t
<1>13. CASE t.s \notin Var /\ t.p \notin Var /\ t.o \in Var
  <2>1. One(t, "resolveObject", t.o)
    BY <1>13 DEF Choose, t
  <2>2. links' = TopLevel(t.o) /\ operations' = Append(operations, Operation("resolveObject", NoVar))
    BY <2>1 DEF One
  <2>3. operations'[n].name = "resolveObject" /\ links'[t.o] # UNRESOLVED
    BY <1>7, <1>11, <1>13, <2>2 DEF Operations
  <2>4. VarsIn(t) = {t.o}
    BY <1>3, <1>13
  <2> QED
    BY <1>13, <2>3, <2>4 DEF Chosen, t
<1>14. ~ (t.s \notin Var /\ t.p \notin Var /\ t.o \notin Var)
  BY <1>3, <1>5, <1>6
<1> QED
  BY <1>4, <1>8, <1>9, <1>10, <1>12, <1>13, <1>14

\* formQueryPlan chooses a term's operation by what is resolved before it.
LEMMA FormOperationPlan ==
    ASSUME PlanInv, FormOperation
    PROVE  PlanInv'
<1> DEFINE n == Len(operations) + 1
           t == plan[n]
<1>0. /\ TypeOK /\ KeepsTerms /\ StageOK /\ Connected
      /\ pc = "form" /\ UNCHANGED <<query, pc, terms, plan>>
      /\ Len(operations) < Len(plan) /\ Choose(t)
      /\ operations \in Seq([name : Operations, from : Var \cup {NoVar}])
      /\ plan \in Seq(Term)
  BY DEF PlanInv, FormOperation, TypeOK
<1>1. n \in 1 .. Len(plan) /\ t \in Term /\ Len(operations) \in Nat /\ n \in Nat
  BY <1>0
<1>2. /\ links' \in [Var -> Var \cup {RESOLVED, UNRESOLVED}]
      /\ \A v \in Var : links'[v] # UNRESOLVED => links[v] # UNRESOLVED \/ v \in VarsIn(t)
      /\ \A v \in Var : links[v] # UNRESOLVED => links'[v] # UNRESOLVED
  BY <1>0, <1>1, ChooseDoes
<1>3. PICK o \in [name : Operations, from : Var \cup {NoVar}] :
          /\ operations' = Append(operations, o)
          /\ o.from # NoVar => hasVar(o.from)
  BY <1>0, <1>1, ChooseDoes
<1>4. /\ operations' \in Seq([name : Operations, from : Var \cup {NoVar}])
      /\ Len(operations') = n /\ DOMAIN operations' = 1 .. n
      /\ \A i \in 1 .. Len(operations) : operations'[i] = operations[i]
      /\ operations'[n] = o
  BY <1>0, <1>3, Appended
<1>5. \A i : Before(i)' = Before(i)
  BY <1>0 DEF Before
<1>6. \A v \in Var : v \in Before(n + 1) <=> v \in Before(n) \/ v \in VarsIn(t)
  <2>1. \A m : m \in 1 .. (n + 1) - 1 <=> m \in 1 .. n - 1 \/ m = n
    BY <1>1
  <2> HIDE DEF n, t
  <2> QED
    BY <2>1 DEF Before, t
<1>7. (Rooted' <=> Rooted) /\ (Connected' <=> Connected) /\ (KeepsTerms' <=> KeepsTerms)
  BY <1>0 DEF Rooted, Connected, KeepsTerms
<1> HIDE DEF n, t
<1>8. TypeOK' /\ StageOK'
  BY <1>0, <1>1, <1>2, <1>4 DEF TypeOK, StageOK
<1>9. Marked'
  <2>1. \A v \in Var : links'[v] # UNRESOLVED => v \in Before(n + 1)
    BY <1>2, <1>6 DEF PlanInv, Marked, n
  <2> QED
    BY <1>4, <1>5, <2>1 DEF Marked
<1>10. StartsResolved'
  <2> SUFFICES ASSUME NEW i \in 1 .. n, operations'[i].from # NoVar
               PROVE  \E m \in 1 .. i - 1 : operations'[i].from \in Range(TermVars(plan'[m]))
    BY <1>4 DEF StartsResolved
  <2>1. CASE i # n
    <3>1. i \in 1 .. Len(operations) /\ i \in DOMAIN operations
      BY <1>0, <1>1, <2>1 DEF n
    <3> QED
      BY <1>0, <1>4, <3>1 DEF PlanInv, StartsResolved
  <2>2. CASE i = n
    <3>1. hasVar(o.from)
      BY <1>3, <1>4, <2>2
    <3>2. o.from \in Before(n)
      BY <3>1 DEF PlanInv, Marked, hasVar, n
    <3> QED
      BY <1>0, <1>4, <2>2, <3>2 DEF Before, VarsIn
  <2> QED
    BY <2>1, <2>2
<1>11. MarkedRooted'
  <2> SUFFICES ASSUME Rooted, n < Len(plan), NEW v \in Before(n + 1)
               PROVE  links'[v] # UNRESOLVED
    BY <1>0, <1>4, <1>5, <1>7 DEF MarkedRooted
  <2>1. v \in Var
    BY DEF Before
  <2>2. CASE v \in Before(n)
    BY <1>0, <1>2, <2>1, <2>2 DEF PlanInv, MarkedRooted, n
  <2>3. CASE v \in VarsIn(t)
    BY <1>0, <1>1, <2>3, ChosenNow DEF n, t
  <2> QED
    BY <1>6, <2>1, <2>2, <2>3
<1>12. ChosenRooted'
  <2> SUFFICES ASSUME Rooted, NEW i \in 1 .. n PROVE Chosen(i)'
    BY <1>4, <1>7 DEF ChosenRooted
  <2>1. CASE i # n
    <3>1. i \in 1 .. Len(operations) /\ i \in DOMAIN operations
      BY <1>0, <1>1, <2>1 DEF n
    <3>2. Chosen(i)
      BY <3>1 DEF PlanInv, ChosenRooted
    <3> QED
      BY <1>0, <1>4, <1>5, <3>1, <3>2 DEF Chosen
  <2>2. CASE i = n
    BY <1>0, <1>1, <2>2, ChosenNow DEF n, t
  <2> QED
    BY <2>1, <2>2
<1> QED
  BY <1>0, <1>7, <1>8, <1>9, <1>10, <1>11, <1>12 DEF PlanInv

\* Every step of planning, and none of execution, changes the plan.
LEMMA PlanNext == PlanInv /\ [EngineNext]_engineVars => PlanInv'
<1> SUFFICES ASSUME PlanInv, [EngineNext]_engineVars PROVE PlanInv'
  OBVIOUS
<1>0. TypeOK /\ StageOK
  BY DEF PlanInv
<1>1. CASE vars' = vars
  <2>1. UNCHANGED <<query, pc, terms, plan, links, operations>>
    BY <1>1 DEF vars
  <2>2. TypeOK' /\ StageOK'
    BY <1>0, <2>1 DEF TypeOK, StageOK
  <2> QED
    BY <2>1, <2>2, StagePlan
<1>2. CASE Next
  <2>1. CASE NoRoot
    <3>1. TypeOK' /\ StageOK' /\ UNCHANGED <<query, terms, plan, links, operations>>
      BY <1>0, <2>1 DEF NoRoot, TypeOK, StageOK
    <3> QED
      BY <3>1, StagePlan
  <2>2. CASE Ordered
    <3>1. TypeOK' /\ StageOK' /\ UNCHANGED <<query, terms, plan, links, operations>>
      BY <1>0, <2>2 DEF Ordered, TypeOK, StageOK
    <3> QED
      BY <3>1, StagePlan
  <2>3. CASE Planned
    <3>1. TypeOK' /\ StageOK' /\ UNCHANGED <<query, terms, plan, links, operations>>
      BY <1>0, <2>3 DEF Planned, TypeOK, StageOK
    <3> QED
      BY <3>1, StagePlan
  <2> QED
    BY <1>2, <2>1, <2>2, <2>3, ChooseRootPlan, ChooseNextPlan, FormOperationPlan DEF Next
<1>3. EngineNext => Next \/ vars' = vars
  <2>1. RunOperation => vars' = vars
    BY DEF RunOperation, Done, resolveSubject, resolveObject, resolvePredicate,
           restrictSubjectObjectByPredicate, resolveSubjectFromVarObject,
           resolveObjectFromVarSubject, resolveSubjectObjectFromPred,
           resolveSubjectPredFromObject, resolvePredObjectFromSubject,
           resolveVarTripleFromSubject, resolveVarTripleFromObject, VarTripleFrom,
           resolveVarTripleFromPredicate, resolveVarTripleAll
  <2>2. StartRun \/ Unknown \/ Panics \/ getResults \/ ShortRow => vars' = vars
    BY DEF StartRun, Unknown, Panics, getResults, ShortRow
  <2> QED
    BY <2>1, <2>2 DEF EngineNext, Plans
<1>4. UNCHANGED engineVars => vars' = vars
  BY DEF engineVars
<1> QED
  BY <1>1, <1>2, <1>3, <1>4

\* The planner's invariant (makeDependencyGraph, formQueryPlan): terms moved and
\* never lost, marks that keep pace with the operations chosen.
THEOREM PlanInvariant == EngineSpec => []PlanInv
<1> QED
  BY PlanInit, PlanNext, PTL DEF EngineSpec

\* Every term of the query is planned once for each time it is written, however
\* makeDependencyGraph splices dg.terms.
THEOREM AlwaysKeepsTerms == EngineSpec => []TermsKept
<1>1. PlanInv => TermsKept
  <2> SUFFICES ASSUME PlanInv, NEW t \in Range(query) \cup Range(plan)
               PROVE  Occurrences(t, plan) + Occurrences(t, terms) = Occurrences(t, query)
    BY DEF TermsKept
  <2>1. query \in Seq(Term) /\ plan \in Seq(Term)
    BY QueriesAssumption DEF PlanInv, TypeOK
  <2>2. t \in Term
    BY <2>1, RangeOfSeq
  <2> QED
    BY <2>2 DEF PlanInv, KeepsTerms
<1> QED
  BY <1>1, PlanInvariant, PTL

\* formQueryPlan chooses no operation that starts from a variable before one that
\* resolves the variable.
THEOREM AlwaysStartsResolved == EngineSpec => []StartsResolved
<1>1. PlanInv => StartsResolved
  BY DEF PlanInv
<1> QED
  BY <1>1, PlanInvariant, PTL

-----------------------------------------------------------------------------
(* The rows of a Rooted query.                                             *)

\* Assignment f makes term t true in the snapshot.
Val(f, x) == IF x \in Var THEN f[x] ELSE x
Holds(f, t) == <<Val(f, t.s), Val(f, t.p), Val(f, t.o)>> \in graph

RunOK ==
    /\ run # "waiting" => pc = "planned"
    /\ run = "waiting" => ran = 0
    /\ ran \in 0 .. Len(operations)
    /\ graph \subseteq Constant \X Constant \X Constant
    /\ ran = 0 => rows = {} /\ added = {} /\ DOMAIN definitions = {}

\* Rows have a value for each variable of the terms done...
RowsBound ==
    \A r \in rows : Bound(r) = Before(ran + 1) /\ \A v \in Before(ran + 1) : r[v] \in Constant

\* ...which is one of those in definitions...
RowsDefined ==
    ran < Len(operations) =>
        /\ DOMAIN definitions = Before(ran + 1)
        /\ \A r \in rows : \A v \in Before(ran + 1) : r[v] \in definitions[v]

\* ...every solution has its row...
RowsComplete ==
    ran > 0 => \A f \in Solutions(query) : \E r \in rows : \A v \in Before(ran + 1) : r[v] = f[v]

\* ...and the rows of a tree satisfy the terms done.
RowsSound == Treelike => \A r \in rows : \A m \in 1 .. ran : Holds(r, plan[m])

RowsOK == RowsBound /\ RowsDefined /\ RowsComplete /\ RowsSound

AnswerOK ==
    run = "answered" =>
        /\ SelectedSolutions \subseteq answer.rows
        /\ Treelike => answer.rows \subseteq SelectedSolutions

EngineInv ==
    /\ PlanInv
    /\ RunOK
    /\ Rooted => RowsOK /\ AnswerOK

\* A term that names no variable twice.
Distinct(t) ==
    /\ t.s \in Var => t.s # t.p /\ t.s # t.o
    /\ t.p \in Var => t.p # t.o

\* A term whose variables are as many as their mentions has no repeated one.
LEMMA SimpleIsDistinct ==
    ASSUME NEW t \in Term, Cardinality(VarsIn(t)) = Len(TermVars(t))
    PROVE  Distinct(t)
<1>1. VarsIn(t) = {t.s, t.p, t.o} \cap Var
  BY TermVarsAre
<1>2. Len(TermVars(t)) = (IF t.s \in Var THEN 1 ELSE 0) + (IF t.p \in Var THEN 1 ELSE 0)
                         + (IF t.o \in Var THEN 1 ELSE 0)
  BY TermVarsAre
<1>3. \A a : IsFiniteSet({a}) /\ Cardinality({a}) = 1
  BY FS_Singleton
<1>4. ASSUME NEW a, NEW b
      PROVE  Cardinality({a} \cup {b}) <= 2
  <2> DEFINE S == {a}
  <2>1. IsFiniteSet(S) /\ Cardinality(S) = 1
    BY <1>3
  <2> HIDE DEF S
  <2>2. Cardinality(S \cup {b}) = IF b \in S THEN Cardinality(S) ELSE Cardinality(S) + 1
    BY <2>1, FS_AddElement
  <2>3. Cardinality(S \cup {b}) <= 2
    BY <2>1, <2>2
  <2> QED
    BY <2>3 DEF S
<1>5. ASSUME NEW a \in Var, NEW b, VarsIn(t) = {a, b} \cap Var
      PROVE  Cardinality(VarsIn(t)) <= IF b \in Var THEN 2 ELSE 1
  <2>1. CASE b \in Var
    <3> DEFINE S == {a} \cup {b}
    <3>1. VarsIn(t) = S
      BY <1>5, <2>1
    <3>2. Cardinality(S) <= 2
      BY <1>4
    <3> HIDE DEF S
    <3> QED
      BY <2>1, <3>1, <3>2
  <2>2. CASE b \notin Var
    <3> DEFINE S == {a}
    <3>1. VarsIn(t) = S
      BY <1>5, <2>2
    <3>2. Cardinality(S) = 1
      BY <1>3
    <3> HIDE DEF S
    <3>3. Cardinality(VarsIn(t)) = 1
      BY <3>1, <3>2
    <3>4. (IF b \in Var THEN 2 ELSE 1) = 1 /\ 1 <= 1
      BY <2>2
    <3> QED
      BY <3>3, <3>4
  <2> QED
    BY <2>1, <2>2
<1>6. ~ (t.s \in Var /\ t.s = t.p)
  <2> SUFFICES ASSUME t.s \in Var, t.s = t.p PROVE FALSE
    OBVIOUS
  <2>1. VarsIn(t) = {t.s, t.o} \cap Var
    BY <1>1
  <2> QED
    BY <1>2, <1>5, <2>1
<1>7. ~ (t.s \in Var /\ t.s = t.o)
  <2> SUFFICES ASSUME t.s \in Var, t.s = t.o PROVE FALSE
    OBVIOUS
  <2>1. VarsIn(t) = {t.s, t.p} \cap Var
    BY <1>1
  <2> QED
    BY <1>2, <1>5, <2>1
<1>8. ~ (t.p \in Var /\ t.p = t.o)
  <2> SUFFICES ASSUME t.p \in Var, t.p = t.o PROVE FALSE
    OBVIOUS
  <2>1. VarsIn(t) = {t.p, t.s} \cap Var
    BY <1>1
  <2> QED
    BY <1>2, <1>5, <2>1
<1> QED
  BY <1>6, <1>7, <1>8 DEF Distinct

\* The plan has the terms of the query, all of them once the order is complete.
LEMMA PlanTerms ==
    ASSUME PlanInv
    PROVE  /\ \A t \in Range(plan) : t \in Range(query) /\ t \in Term /\ Distinct(t)
           /\ pc \in {"form", "planned"} => Range(plan) = Range(query)
<1>0. /\ plan \in Seq(Term) /\ terms \in Seq(Term) /\ query \in Seq(Term) /\ query \in Queries
      /\ pc \in {"form", "planned"} => terms = <<>>
  BY QueriesAssumption DEF PlanInv, TypeOK
<1>1. ASSUME NEW s \in Seq(Term), NEW t
      PROVE  Occurrences(t, s) \in Nat /\ (Occurrences(t, s) = 0 <=> t \notin Range(s))
  <2>1. Occurrences(t, s) = Cardinality(At(t, s))
    BY OccurrencesAre
  <2>2. IsFiniteSet(At(t, s))
    BY AtFinite
  <2>3. Cardinality(At(t, s)) \in Nat /\ (Cardinality(At(t, s)) = 0 <=> At(t, s) = {})
    BY <2>2, FS_EmptySet, FS_CardinalityType
  <2>4. At(t, s) = {} <=> t \notin Range(s)
    BY DEF At, Range
  <2> QED
    BY <2>1, <2>3, <2>4
<1>2. ASSUME NEW t \in Term
      PROVE  Occurrences(t, plan) + Occurrences(t, terms) = Occurrences(t, query)
  BY DEF PlanInv, KeepsTerms
<1>3. ASSUME NEW t \in Range(plan)
      PROVE  t \in Range(query) /\ t \in Term /\ Distinct(t)
  <2>1. t \in Term
    BY <1>0, RangeOfSeq
  <2>2. t \in Range(query)
    <3>1. Occurrences(t, plan) \in Nat /\ Occurrences(t, plan) # 0
      BY <1>0, <1>1
    <3>2. Occurrences(t, terms) \in Nat
      BY <1>0, <1>1
    <3>3. Occurrences(t, query) # 0
      BY <1>2, <2>1, <3>1, <3>2
    <3> QED
      BY <1>0, <1>1, <3>3
  <2>3. Cardinality(VarsIn(t)) = Len(TermVars(t))
    BY <1>0, <2>2, SimpleAssumption DEF VarsIn
  <2> QED
    BY <2>1, <2>2, <2>3, SimpleIsDistinct
<1>4. ASSUME pc \in {"form", "planned"}, NEW t \in Range(query)
      PROVE  t \in Range(plan)
  <2>1. t \in Term
    BY <1>0, RangeOfSeq
  <2>2. Occurrences(t, query) # 0
    BY <1>0, <1>1
  <2>3. Range(terms) = {}
    BY <1>0, <1>4 DEF Range
  <2>4. Occurrences(t, terms) = 0
    BY <1>0, <1>1, <2>3
  <2>5. Occurrences(t, plan) \in Nat
    BY <1>0, <1>1
  <2>6. Occurrences(t, plan) # 0
    BY <1>2, <2>1, <2>2, <2>4, <2>5
  <2> QED
    BY <1>0, <1>1, <2>6
<1> QED
  BY <1>3, <1>4

\* The variables of the first k terms of the plan, in the properties' words.
LEMMA BeforeAre ==
    ASSUME PlanInv, NEW k \in 0 .. Len(plan)
    PROVE  QueryVars(SubSeq(plan, 1, k)) = Before(k + 1)
<1> DEFINE s == SubSeq(plan, 1, k)
<1>0. plan \in Seq(Term) /\ Len(plan) \in Nat
  BY DEF PlanInv, TypeOK
<1>1. s \in Seq(Term) /\ Len(s) = k /\ \A i \in 1 .. k : s[i] = plan[i]
  BY <1>0, SubSeqProperties
<1>2. DOMAIN s = 1 .. k
  BY <1>1
<1>3. \A i \in 1 .. k : VarsIn(s[i]) \subseteq Var
  BY <1>1, TermVarsAre
<1> HIDE DEF s
<1>4. \A v : v \in QueryVars(s) <=> \E i \in 1 .. k : v \in VarsIn(s[i])
  <2>1. \A x : x \in Range(s) <=> \E i \in 1 .. k : x = s[i]
    BY <1>2 DEF Range
  <2>2. \A v : v \in QueryVars(s) <=> \E x \in Range(s) : v \in VarsIn(x)
    BY DEF QueryVars, VarsIn
  <2> QED
    BY <2>1, <2>2
<1>5. (k + 1) - 1 = k
  OBVIOUS
<1>6. \A v : v \in Before(k + 1) <=> \E i \in 1 .. k : v \in VarsIn(s[i])
  BY <1>1, <1>3, <1>5 DEF Before
<1> QED
  BY <1>4, <1>6 DEF s

\* The triples a term speaks of, and the one an assignment makes of it.
Matching(t) == {e \in graph : /\ t.s \in Var \/ e[1] = t.s
                              /\ t.p \in Var \/ e[2] = t.p
                              /\ t.o \in Var \/ e[3] = t.o}
Ground(f, t) == <<Val(f, t.s), Val(f, t.p), Val(f, t.o)>>

\* The row of a triple has its values at the variables of the term.
LEMMA TripleRow ==
    ASSUME graph \subseteq Constant \X Constant \X Constant,
           NEW t \in Term, Distinct(t), NEW e \in Matching(t)
    PROVE  /\ \A v \in VarsIn(t) : v \in Var /\ RowOfTriple(t, e)[v] \in Constant
           /\ \A v \in Var \ VarsIn(t) : RowOfTriple(t, e)[v] = Empty
           /\ Val(RowOfTriple(t, e), t.s) = e[1]
           /\ Val(RowOfTriple(t, e), t.p) = e[2]
           /\ Val(RowOfTriple(t, e), t.o) = e[3]
           /\ e = <<e[1], e[2], e[3]>>
<1> DEFINE r == RowOfTriple(t, e)
<1>0. VarsIn(t) = {t.s, t.p, t.o} \cap Var
  BY TermVarsAre
<1>1. e \in Constant \X Constant \X Constant /\ e \in graph
  BY DEF Matching
<1>2. e[1] \in Constant /\ e[2] \in Constant /\ e[3] \in Constant /\ e = <<e[1], e[2], e[3]>>
  <2>1. PICK a \in Constant, b \in Constant, c \in Constant : e = <<a, b, c>>
    BY <1>1
  <2> QED
    BY <2>1
<1>3. t.s \in Var => r[t.s] = e[1]
  BY DEF RowOfTriple, Distinct
<1>4. t.p \in Var => r[t.p] = e[2]
  BY DEF RowOfTriple, Distinct
<1>5. t.o \in Var => r[t.o] = e[3]
  BY DEF RowOfTriple, Distinct
<1>6. \A v \in Var \ VarsIn(t) : r[v] = Empty
  BY <1>0 DEF RowOfTriple
<1>7. /\ t.s \notin Var => e[1] = t.s
      /\ t.p \notin Var => e[2] = t.p
      /\ t.o \notin Var => e[3] = t.o
  BY DEF Matching
<1> HIDE DEF r
<1>8. Val(r, t.s) = e[1] /\ Val(r, t.p) = e[2] /\ Val(r, t.o) = e[3]
  BY <1>3, <1>4, <1>5, <1>7 DEF Val
<1> QED
  BY <1>0, <1>2, <1>3, <1>4, <1>5, <1>6, <1>8 DEF r

\* What the solutions of the query are.
LEMMA SolutionsAre ==
    \A f : f \in Solutions(query) <=>
        /\ f \in [QueryVars(query) -> Constant]
        /\ \A t \in Range(query) : Holds(f, t)
<1> QED
  BY DEF Solutions, Holds, Val

\* A solution makes a triple of each term of the plan, whose row has its values.
LEMMA SolutionRow ==
    ASSUME PlanInv, RunOK, NEW f \in Solutions(query), NEW t \in Range(plan)
    PROVE  /\ Ground(f, t) \in Matching(t)
           /\ \A v \in VarsIn(t) : RowOfTriple(t, Ground(f, t))[v] = f[v]
           /\ t.s \in Var => Ground(f, t)[1] = f[t.s]
           /\ t.p \in Var => Ground(f, t)[2] = f[t.p]
           /\ t.o \in Var => Ground(f, t)[3] = f[t.o]
<1>1. t \in Range(query) /\ t \in Term /\ Distinct(t)
  BY PlanTerms
<1>2. VarsIn(t) = {t.s, t.p, t.o} \cap Var
  BY <1>1, TermVarsAre
<1>3. /\ Ground(f, t)[1] = Val(f, t.s) /\ Ground(f, t)[2] = Val(f, t.p)
      /\ Ground(f, t)[3] = Val(f, t.o)
  BY DEF Ground
<1>4. Ground(f, t) \in graph
  BY <1>1, SolutionsAre DEF Holds, Ground
<1>5. Ground(f, t) \in Matching(t)
  BY <1>3, <1>4 DEF Matching, Val
<1>6. graph \subseteq Constant \X Constant \X Constant
  BY DEF RunOK
<1> DEFINE r == RowOfTriple(t, Ground(f, t))
<1>7. Val(r, t.s) = Val(f, t.s)
  BY <1>1, <1>3, <1>5, <1>6, TripleRow
<1>8. Val(r, t.p) = Val(f, t.p)
  BY <1>1, <1>3, <1>5, <1>6, TripleRow
<1>9. Val(r, t.o) = Val(f, t.o)
  BY <1>1, <1>3, <1>5, <1>6, TripleRow
<1> HIDE DEF r
<1>10. \A v \in VarsIn(t) : r[v] = f[v]
  BY <1>2, <1>7, <1>8, <1>9 DEF Val
<1> QED
  BY <1>3, <1>5, <1>10 DEF r, Val

\* The rows of a join: a row and a triple that agree on the join's variable.
LEMMA Joined ==
    ASSUME NEW other, NEW on, NEW vs, NEW r
    PROVE  r \in Join(other, on, vs) <=>
              \E a \in rows, o \in other :
                  a[on] = o[on] /\ r = [v \in Var |-> IF v \in vs THEN o[v] ELSE a[v]]
<1> DEFINE pairs == {n \in rows \X other : n[1][on] = n[2][on]}
           row(a, o) == [v \in Var |-> IF v \in vs THEN o[v] ELSE a[v]]
<1>1. r \in Join(other, on, vs) <=> \E m \in pairs : r = row(m[1], m[2])
  BY DEF Join
<1>2. ASSUME NEW m \in pairs
      PROVE  /\ m[1] \in rows /\ m[2] \in other /\ m[1][on] = m[2][on]
  OBVIOUS
<1>3. ASSUME NEW a \in rows, NEW o \in other, a[on] = o[on]
      PROVE  <<a, o>> \in pairs /\ <<a, o>>[1] = a /\ <<a, o>>[2] = o
  BY <1>3
<1> HIDE DEF pairs, row
<1>4. (\E m \in pairs : r = row(m[1], m[2]))
      <=> \E a \in rows, o \in other : a[on] = o[on] /\ r = row(a, o)
  <2>1. ASSUME NEW m \in pairs, r = row(m[1], m[2])
        PROVE  \E a \in rows, o \in other : a[on] = o[on] /\ r = row(a, o)
    BY <1>2, <2>1
  <2>2. ASSUME NEW a \in rows, NEW o \in other, a[on] = o[on], r = row(a, o)
        PROVE  \E m \in pairs : r = row(m[1], m[2])
    <3>1. r = row(<<a, o>>[1], <<a, o>>[2])
      BY <1>3, <2>2
    <3> QED
      BY <1>3, <2>2, <3>1
  <2> QED
    BY <2>1, <2>2
<1> QED
  BY <1>1, <1>4 DEF row

\* The variables of the terms before the one after the nth.
LEMMA BeforeNext ==
    ASSUME PlanInv, NEW n \in 1 .. Len(plan)
    PROVE  /\ Before(n + 1) = Before(n) \cup VarsIn(plan[n])
           /\ Before(n) \subseteq Var
           /\ \A m \in 1 .. n - 1 : VarsIn(plan[m]) \subseteq Before(n)
<1>0. plan \in Seq(Term) /\ n \in Nat
  BY DEF PlanInv, TypeOK
<1>1. \A m \in 1 .. Len(plan) : VarsIn(plan[m]) \subseteq Var
  BY <1>0, TermVarsAre
<1>2. \A m : m \in 1 .. (n + 1) - 1 <=> m \in 1 .. n - 1 \/ m = n
  BY <1>0
<1>3. \A m \in 1 .. n - 1 : m \in 1 .. Len(plan)
  BY <1>0
<1> QED
  BY <1>1, <1>2, <1>3 DEF Before

\* What the next operation is about: the term t, whose rows `found` are those of
\* some triples the term matches, the triple of every solution among them.
Finds(t, found) ==
    /\ \A o \in found : \E e \in Matching(t) : o = RowOfTriple(t, e)
    /\ \A f \in Solutions(query) : RowOfTriple(t, Ground(f, t)) \in found

\* A query whose terms share one variable each: the shared one is `on`.
LEMMA TreeShares ==
    ASSUME PlanInv, Treelike, NEW n \in 2 .. Len(plan),
           NEW on \in VarsIn(plan[n]) \cap Before(n), NEW v \in VarsIn(plan[n]) \cap Before(n)
    PROVE  v = on
<1> DEFINE S == VarsIn(plan[n]) \cap Before(n)
           t == plan[n]
<1>0. plan \in Seq(Term) /\ t \in Term
  BY DEF PlanInv, TypeOK
<1>1. QueryVars(SubSeq(plan, 1, n - 1)) = Before(n)
  <2>1. n - 1 \in 0 .. Len(plan) /\ (n - 1) + 1 = n
    OBVIOUS
  <2> QED
    BY <2>1, BeforeAre
<1>2. Cardinality(S) = 1
  BY <1>1 DEF Treelike, VarsIn
<1>3. IsFiniteSet(S)
  <2> DEFINE a == {t.s}
             b == a \cup {t.p}
             c == b \cup {t.o}
  <2>1. IsFiniteSet(a)
    BY FS_Singleton
  <2>2. IsFiniteSet(b)
    BY <2>1, FS_AddElement
  <2>3. IsFiniteSet(c)
    BY <2>2, FS_AddElement
  <2>4. S \in SUBSET c
    BY <1>0, TermVarsAre
  <2> HIDE DEF c, S
  <2> QED
    BY <2>3, <2>4, FS_Subset
<1> HIDE DEF S
<1>4. PICK x : S = {x}
  BY <1>2, <1>3, FS_Singleton
<1> QED
  BY <1>4 DEF S

\* The rows after a join: the values of a triple found, the others as they were.
FromJoin(t, n, found) ==
    \A r \in rows' : \E a \in rows, e \in Matching(t) :
        /\ RowOfTriple(t, e) \in found
        /\ \A v \in VarsIn(t) : r[v] = RowOfTriple(t, e)[v]
        /\ \A v \in Before(n) \ VarsIn(t) : r[v] = a[v]

\* ...and where each of them comes from: a row there was, and a triple that has a
\* value of it for some variable of the term.
Continues ==
    ran > 0 => \A r \in rows' :
        /\ Holds(r, plan[ran + 1])
        /\ \E a \in rows :
              /\ \A v \in Var \ VarsIn(plan[ran + 1]) : r[v] = a[v]
              /\ \E v \in VarsIn(plan[ran + 1]) : a[v] # Empty /\ r[v] = a[v]

\* Joining what a term finds with the rows gives the rows of one more term.
LEMMA JoinStep ==
    ASSUME PlanInv, RunOK, Rooted, RowsBound, RowsComplete, RowsSound,
           NEW n, n = ran + 1, ran > 0, n \in 1 .. Len(plan),
           NEW t, t = plan[n], NEW on \in VarsIn(t), on \in Before(n),
           NEW found, Finds(t, found),
           rows' = Join(found, on, VarsIn(t)), ran' = n, vars' = vars, graph' = graph
    PROVE  RowsBound' /\ RowsComplete' /\ RowsSound' /\ FromJoin(t, n, found) /\ Continues
<1> DEFINE E == Before(n)
           V == VarsIn(t)
           both(a, o) == [v \in Var |-> IF v \in V THEN o[v] ELSE a[v]]
<1>0. /\ plan' = plan /\ query' = query /\ pc' = pc /\ operations' = operations
      /\ n \in 2 .. Len(plan) /\ ran \in Nat /\ n \in Nat
      /\ graph \subseteq Constant \X Constant \X Constant
  BY DEF vars, RunOK
<1>1. t \in Range(plan) /\ t \in Term /\ Distinct(t)
  <2>1. t \in Range(plan)
    <3>1. DOMAIN plan = 1 .. Len(plan)
      BY DEF PlanInv, TypeOK
    <3> QED
      BY <3>1 DEF Range
  <2> QED
    BY <2>1, PlanTerms
<1>2. V \subseteq Var /\ E \subseteq Var /\ Before(n + 1) = E \cup V
      /\ \A m \in 1 .. n - 1 : VarsIn(plan[m]) \subseteq E
  BY <1>0, <1>1, BeforeNext, TermVarsAre
<1>3. \A i : Before(i)' = Before(i)
  BY <1>0 DEF Before
<1>4. (Treelike' <=> Treelike) /\ Solutions(query)' = Solutions(query)
  BY <1>0 DEF Treelike, Solutions
<1>5. \A a \in rows : Bound(a) = E /\ \A v \in E : a[v] \in Constant
  BY DEF RowsBound
<1> HIDE DEF E, V
<1>6. ASSUME NEW r \in rows'
      PROVE  \E a \in rows, e \in Matching(t) :
                 /\ RowOfTriple(t, e) \in found
                 /\ a[on] = RowOfTriple(t, e)[on]
                 /\ r = both(a, RowOfTriple(t, e))
  <2>1. PICK a \in rows, o \in found : a[on] = o[on] /\ r = both(a, o)
    BY <1>6, Joined DEF V
  <2>2. PICK e \in Matching(t) : o = RowOfTriple(t, e)
    BY DEF Finds
  <2> QED
    BY <2>1, <2>2
<1>7. ASSUME NEW e \in Matching(t)
      PROVE  /\ \A v \in V : RowOfTriple(t, e)[v] \in Constant
             /\ \A v \in Var \ V : RowOfTriple(t, e)[v] = Empty
             /\ Val(RowOfTriple(t, e), t.s) = e[1]
             /\ Val(RowOfTriple(t, e), t.p) = e[2]
             /\ Val(RowOfTriple(t, e), t.o) = e[3]
             /\ e = <<e[1], e[2], e[3]>>
  BY <1>0, <1>1, TripleRow DEF V
<1>8. RowsBound'
  <2> SUFFICES ASSUME NEW r \in rows'
               PROVE  Bound(r) = E \cup V /\ \A v \in E \cup V : r[v] \in Constant
    <3>1. Before(ran + 1)' = E \cup V
      BY <1>2, <1>3
    <3> QED
      BY <3>1 DEF RowsBound, Bound
  <2>1. PICK a \in rows, e \in Matching(t) : r = both(a, RowOfTriple(t, e))
    BY <1>6
  <2>2. \A v \in Var : r[v] = IF v \in V THEN RowOfTriple(t, e)[v] ELSE a[v]
    BY <2>1
  <2>3. \A v \in V : r[v] \in Constant
    BY <1>2, <1>7, <2>2
  <2>4. \A v \in Var \ V : r[v] = a[v]
    BY <2>2
  <2>5. \A v \in E : r[v] \in Constant
    BY <1>2, <1>5, <2>3, <2>4
  <2>6. \A v \in Var : v \notin E /\ v \notin V => r[v] = Empty
    BY <1>5, <2>4 DEF Bound
  <2> QED
    BY <1>2, <2>3, <2>5, <2>6, EmptyAssumption DEF Bound
<1>9. RowsComplete'
  <2> SUFFICES ASSUME NEW f \in Solutions(query)
               PROVE  \E r \in rows' : \A v \in E \cup V : r[v] = f[v]
    <3>1. Before(ran + 1)' = E \cup V
      BY <1>2, <1>3
    <3> QED
      BY <1>4, <3>1 DEF RowsComplete
  <2> DEFINE o == RowOfTriple(t, Ground(f, t))
  <2>1. PICK a \in rows : \A v \in E : a[v] = f[v]
    BY DEF RowsComplete, E
  <2>2. o \in found /\ \A v \in V : o[v] = f[v]
    BY <1>1, SolutionRow DEF Finds, V
  <2>3. a[on] = o[on]
    BY <2>1, <2>2 DEF E, V
  <2> HIDE DEF o
  <2>4. both(a, o) \in rows'
    BY <2>1, <2>2, <2>3, Joined DEF V
  <2>5. \A v \in Var : both(a, o)[v] = IF v \in V THEN o[v] ELSE a[v]
    OBVIOUS
  <2>6. \A v \in E \cup V : both(a, o)[v] = f[v]
    BY <1>2, <2>1, <2>2, <2>5
  <2> QED
    BY <2>4, <2>6
<1>10. RowsSound'
  <2> SUFFICES ASSUME Treelike, NEW r \in rows', NEW m \in 1 .. n PROVE Holds(r, plan[m])
    BY <1>0, <1>4 DEF RowsSound, Holds
  <2>1. PICK a \in rows, e \in Matching(t) :
            a[on] = RowOfTriple(t, e)[on] /\ r = both(a, RowOfTriple(t, e))
    BY <1>6
  <2>2. \A v \in Var : r[v] = IF v \in V THEN RowOfTriple(t, e)[v] ELSE a[v]
    BY <2>1
  <2>3. CASE m = n
    <3>2. V = {t.s, t.p, t.o} \cap Var
      BY <1>1, TermVarsAre DEF V
    <3>3. /\ Val(r, t.s) = Val(RowOfTriple(t, e), t.s)
          /\ Val(r, t.p) = Val(RowOfTriple(t, e), t.p)
          /\ Val(r, t.o) = Val(RowOfTriple(t, e), t.o)
      BY <2>2, <3>2 DEF Val
    <3>4. e \in graph
      BY DEF Matching
    <3> QED
      BY <1>7, <2>3, <3>3, <3>4 DEF Holds
  <2>4. CASE m # n
    <3>1. m \in 1 .. n - 1 /\ m \in 1 .. ran /\ m \in 1 .. Len(plan)
      BY <1>0, <2>4
    <3>2. \A v \in E : r[v] = a[v]
      <4> SUFFICES ASSUME NEW v \in E PROVE r[v] = a[v]
        OBVIOUS
      <4>1. CASE v \in V
        <5>1. v = on
          BY <1>0, <4>1, TreeShares DEF E, V
        <5> QED
          BY <1>2, <2>1, <2>2, <4>1, <5>1
      <4>2. CASE v \notin V
        BY <1>2, <2>2, <4>2
      <4> QED
        BY <4>1, <4>2
    <3>3. plan[m] \in Term
      BY <3>1 DEF PlanInv, TypeOK
    <3>4. {plan[m].s, plan[m].p, plan[m].o} \cap Var \subseteq E
      BY <1>2, <3>1, <3>3, TermVarsAre
    <3>5. /\ Val(r, plan[m].s) = Val(a, plan[m].s)
          /\ Val(r, plan[m].p) = Val(a, plan[m].p)
          /\ Val(r, plan[m].o) = Val(a, plan[m].o)
      BY <3>2, <3>4 DEF Val
    <3>6. Holds(a, plan[m])
      BY <3>1 DEF RowsSound
    <3> QED
      BY <3>5, <3>6 DEF Holds
  <2> QED
    BY <2>3, <2>4
<1>11. ASSUME NEW r \in rows'
       PROVE  \E a \in rows, e \in Matching(t) :
                 /\ RowOfTriple(t, e) \in found
                 /\ \A v \in V : r[v] = RowOfTriple(t, e)[v]
                 /\ \A v \in E \ V : r[v] = a[v]
  <2>1. PICK a \in rows, e \in Matching(t) :
            RowOfTriple(t, e) \in found /\ r = both(a, RowOfTriple(t, e))
    BY <1>6
  <2>2. \A v \in Var : r[v] = IF v \in V THEN RowOfTriple(t, e)[v] ELSE a[v]
    BY <2>1
  <2> QED
    BY <1>2, <2>1, <2>2
<1>12. Continues
  <2> SUFFICES ASSUME NEW r \in rows'
               PROVE  /\ Holds(r, t)
                      /\ \E a \in rows :
                            /\ \A v \in Var \ V : r[v] = a[v]
                            /\ \E v \in V : a[v] # Empty /\ r[v] = a[v]
    BY DEF Continues, V
  <2>1. PICK a \in rows, e \in Matching(t) :
            a[on] = RowOfTriple(t, e)[on] /\ r = both(a, RowOfTriple(t, e))
    BY <1>6
  <2>2. \A v \in Var : r[v] = IF v \in V THEN RowOfTriple(t, e)[v] ELSE a[v]
    BY <2>1
  <2>3. Holds(r, t)
    <3>1. V = {t.s, t.p, t.o} \cap Var
      BY <1>1, TermVarsAre DEF V
    <3>2. /\ Val(r, t.s) = Val(RowOfTriple(t, e), t.s)
          /\ Val(r, t.p) = Val(RowOfTriple(t, e), t.p)
          /\ Val(r, t.o) = Val(RowOfTriple(t, e), t.o)
      BY <2>2, <3>1 DEF Val
    <3>3. e \in graph
      BY DEF Matching
    <3> QED
      BY <1>7, <3>2, <3>3 DEF Holds
  <2>4. on \in V /\ on \in E /\ on \in Var
    BY <1>2 DEF E, V
  <2>5. a[on] # Empty /\ r[on] = a[on]
    BY <1>5, <2>1, <2>2, <2>4, EmptyAssumption
  <2>6. \A v \in Var \ V : r[v] = a[v]
    BY <2>2
  <2> QED
    BY <2>3, <2>4, <2>5, <2>6
<1> QED
  BY <1>8, <1>9, <1>10, <1>11, <1>12 DEF E, V, FromJoin

\* The rows of the first term are what it finds.
LEMMA FirstStep ==
    ASSUME PlanInv, RunOK, ran = 0, NEW t, t = plan[1], 1 \in 1 .. Len(plan),
           NEW found, Finds(t, found), rows' = found, ran' = 1, vars' = vars, graph' = graph
    PROVE  RowsBound' /\ RowsComplete' /\ RowsSound' /\ Before(2) = VarsIn(t)
<1> DEFINE V == VarsIn(t)
<1>0. /\ plan' = plan /\ query' = query /\ pc' = pc /\ operations' = operations
      /\ graph \subseteq Constant \X Constant \X Constant
  BY DEF vars, RunOK
<1>1. t \in Range(plan) /\ t \in Term /\ Distinct(t)
  <2>1. t \in Range(plan)
    <3>1. DOMAIN plan = 1 .. Len(plan)
      BY DEF PlanInv, TypeOK
    <3> QED
      BY <3>1 DEF Range
  <2> QED
    BY <2>1, PlanTerms
<1>2. V \subseteq Var /\ Before(2) = V
  <2>1. Before(1) = {} /\ 1 + 1 = 2
    BY DEF Before
  <2>2. Before(1 + 1) = Before(1) \cup VarsIn(plan[1])
    BY BeforeNext
  <2> QED
    BY <1>1, <2>1, <2>2, TermVarsAre
<1>3. Before(ran + 1)' = V
  <2>1. \A i : Before(i)' = Before(i)
    BY <1>0 DEF Before
  <2> QED
    BY <1>2, <2>1
<1>4. (Treelike' <=> Treelike) /\ Solutions(query)' = Solutions(query)
  BY <1>0 DEF Treelike, Solutions
<1>5. ASSUME NEW e \in Matching(t)
      PROVE  /\ \A v \in V : RowOfTriple(t, e)[v] \in Constant
             /\ \A v \in Var \ V : RowOfTriple(t, e)[v] = Empty
             /\ Val(RowOfTriple(t, e), t.s) = e[1]
             /\ Val(RowOfTriple(t, e), t.p) = e[2]
             /\ Val(RowOfTriple(t, e), t.o) = e[3]
             /\ e = <<e[1], e[2], e[3]>>
  BY <1>0, <1>1, TripleRow
<1>6. RowsBound'
  <2> SUFFICES ASSUME NEW r \in rows'
               PROVE  Bound(r) = V /\ \A v \in V : r[v] \in Constant
    BY <1>3 DEF RowsBound, Bound
  <2>1. PICK e \in Matching(t) : r = RowOfTriple(t, e)
    BY DEF Finds
  <2> QED
    BY <1>2, <1>5, <2>1, EmptyAssumption DEF Bound
<1>7. RowsComplete'
  BY <1>1, <1>3, <1>4, SolutionRow DEF RowsComplete, Finds
<1>8. RowsSound'
  <2> SUFFICES ASSUME NEW r \in rows' PROVE Holds(r, t)
    BY <1>0, <1>4 DEF RowsSound, Holds
  <2>1. PICK e \in Matching(t) : r = RowOfTriple(t, e)
    BY DEF Finds
  <2>2. e \in graph
    BY DEF Matching
  <2> QED
    BY <1>5, <2>1, <2>2 DEF Holds
<1> QED
  BY <1>2, <1>6, <1>7, <1>8

\* When an operation is about to run for such a query.
LEMMA Ready ==
    ASSUME PlanInv, RunOK, Rooted, RowsOK, NEW name, NEW t, Running(name, t),
           NEW n, n = ran + 1
    PROVE  /\ n \in 1 .. Len(plan) /\ n \in 1 .. Len(operations) /\ ran \in Nat
           /\ t = plan[n] /\ t \in Range(plan) /\ t \in Term /\ Distinct(t)
           /\ operations[n].name = name /\ Chosen(n)
           /\ pc = "planned" /\ Len(operations) = Len(plan)
           /\ DOMAIN definitions = Before(n)
           /\ \A f \in Solutions(query) : \A v \in Before(n) : f[v] \in definitions[v]
           /\ ran > 0 => \E v \in VarsIn(t) : v \in Before(n)
           /\ Before(1) = {}
<1>1. /\ run = "running" /\ ran < Len(operations) /\ operations[n].name = name /\ t = plan[n]
      /\ pc = "planned" /\ ran \in 0 .. Len(operations)
  BY DEF Running, RunOK
<1>2. /\ Len(operations) = Len(plan) /\ plan \in Seq(Term)
      /\ operations \in Seq([name : Operations, from : Var \cup {NoVar}])
  BY <1>1 DEF PlanInv, StageOK, TypeOK
<1>3. n \in 1 .. Len(plan) /\ n \in DOMAIN operations /\ n \in DOMAIN plan /\ ran \in Nat
  BY <1>1, <1>2
<1>4. t \in Range(plan)
  BY <1>1, <1>3 DEF Range
<1>5. t \in Term /\ Distinct(t)
  BY <1>4, PlanTerms
<1>6. Chosen(n)
  BY <1>3 DEF PlanInv, ChosenRooted
<1>7. Before(1) = {}
  BY DEF Before
<1>8. DOMAIN definitions = Before(n) /\ \A r \in rows : \A v \in Before(n) : r[v] \in definitions[v]
  BY <1>1 DEF RowsOK, RowsDefined
<1>9. ASSUME NEW f \in Solutions(query), NEW v \in Before(n)
      PROVE  f[v] \in definitions[v]
  <2>1. ran > 0
    <3>1. ran # 0
      BY <1>7, <1>9
    <3> QED
      BY <1>3, <3>1
  <2>2. PICK r \in rows : \A u \in Before(n) : r[u] = f[u]
    BY <2>1 DEF RowsOK, RowsComplete
  <2> QED
    BY <1>8, <2>2
<1>10. ASSUME ran > 0
       PROVE  \E v \in VarsIn(t) : v \in Before(n)
  <2>1. n \in 2 .. Len(plan) /\ n - 1 \in 1 .. n - 1
    BY <1>3, <1>10
  <2>2. PICK v \in Var : v \in VarsIn(plan[n - 1]) /\ v \in VarsIn(t)
    BY <1>1, <2>1 DEF PlanInv, Connected, Shares, VarsIn
  <2> QED
    BY <2>1, <2>2 DEF Before
<1> QED
  BY <1>1, <1>2, <1>3, <1>4, <1>5, <1>6, <1>7, <1>8, <1>9, <1>10

\* An operation for a term with one variable.
LEMMA OneVariable ==
    ASSUME PlanInv, RunOK, Rooted, RowsOK, NEW name, NEW t, Running(name, t),
           NEW v \in Var, VarsIn(t) = {v}, NEW values,
           \A k \in values : \E e \in Matching(t) : RowOf(v, k) = RowOfTriple(t, e),
           \A f \in Solutions(query) :
               f[v] \in values /\ RowOf(v, f[v]) = RowOfTriple(t, Ground(f, t)),
           DefineOrJoin(v, values), Done
    PROVE  RowsOK' /\ Continues
<1> DEFINE n == ran + 1
<1>0. /\ n \in 1 .. Len(plan) /\ n \in 1 .. Len(operations) /\ ran \in Nat
      /\ t = plan[n] /\ t \in Term /\ t \in Range(plan)
      /\ Len(operations) = Len(plan)
      /\ DOMAIN definitions = Before(n)
      /\ \A f \in Solutions(query) : \A u \in Before(n) : f[u] \in definitions[u]
      /\ ran > 0 => v \in Before(n)
      /\ Before(1) = {}
  BY Ready
<1>1. vars' = vars /\ graph' = graph /\ ran' = n /\ plan' = plan /\ operations' = operations
  BY DEF Done, vars
<1>2. \A i : Before(i)' = Before(i)
  BY <1>1 DEF Before
<1>3. Before(n + 1) = Before(n) \cup {v}
  BY <1>0, BeforeNext
<1>4. RowsBound /\ RowsDefined /\ RowsComplete /\ RowsSound
  BY DEF RowsOK
<1> HIDE DEF n
<1>5. \A k : RowOf(v, k)[v] = k
  BY DEF RowOf
<1>6. CASE ~ defined(v)
  <2>1. ran = 0 /\ n = 1 /\ rows = {} /\ added = {}
    BY <1>0, <1>6 DEF defined, RunOK, n
  <2> DEFINE found == {RowOf(v, k) : k \in values}
  <2>2. rows' = found /\ definitions' = WithDefinition(definitions, v, values)
    <3>1. definitions' = defineVariable(definitions, v, values) /\ AddValues(found, {v})
      BY <1>6 DEF DefineOrJoin
    <3> HIDE DEF found
    <3>2. Fresh(found, {v}) = found
      BY <2>1 DEF Fresh
    <3> QED
      BY <1>6, <2>1, <3>1, <3>2 DEF AddValues, defineVariable, defined
  <2>3. Finds(t, found)
    BY DEF Finds
  <2>4. RowsBound' /\ RowsComplete' /\ RowsSound' /\ Before(2) = VarsIn(t)
    <3> HIDE DEF found
    <3> QED
      BY <1>0, <1>1, <2>1, <2>2, <2>3, FirstStep
  <2>5. DOMAIN definitions' = {v} /\ definitions'[v] = values
    BY <1>0, <2>1, <2>2 DEF WithDefinition
  <2>6. \A r \in rows' : r[v] \in values
    BY <1>5, <2>2
  <2>7. Before(ran + 1)' = {v}
    BY <1>1, <1>2, <2>1, <2>4
  <2>8. RowsDefined'
    BY <2>5, <2>6, <2>7 DEF RowsDefined
  <2>9. Continues
    BY <2>1 DEF Continues
  <2> QED
    BY <2>4, <2>8, <2>9 DEF RowsOK
<1>7. CASE defined(v)
  <2>1. v \in Before(n) /\ ran > 0
    <3>1. v \in Before(n)
      BY <1>0, <1>7 DEF defined
    <3>2. ran # 0
      BY <1>0, <3>1 DEF n
    <3> QED
      BY <1>0, <3>1, <3>2
  <2> DEFINE kept == restrictToResolved(v, values)
             found == {RowOf(v, k) : k \in kept}
  <2>2. rows' = Join(found, v, {v}) /\ definitions' = WithDefinition(definitions, v, kept)
    BY <1>7 DEF DefineOrJoin, JoinWith, unionDefinitions
  <2>3. \A k : k \in kept <=> k \in values /\ k \in definitions[v]
    BY <1>7 DEF restrictToResolved, validValue
  <2> HIDE DEF kept
  <2>4. Finds(t, found)
    <3>1. \A f \in Solutions(query) : f[v] \in kept
      BY <1>0, <2>1, <2>3
    <3> QED
      BY <2>3, <3>1 DEF Finds
  <2>5. \A o \in found : o[v] \in kept
    BY <1>5
  <2> HIDE DEF found
  <2>6. rows' = Join(found, v, VarsIn(t))
    BY <2>2
  <2>7. RowsBound' /\ RowsComplete' /\ RowsSound' /\ FromJoin(t, n, found) /\ Continues
    BY <1>0, <1>1, <1>4, <2>1, <2>4, <2>6, JoinStep DEF n
  <2>8. /\ DOMAIN definitions' = Before(n) /\ definitions'[v] = kept
        /\ \A u \in Before(n) \ {v} : definitions'[u] = definitions[u]
    BY <1>0, <2>1, <2>2 DEF WithDefinition
  <2>9. Before(ran + 1)' = Before(n)
    BY <1>1, <1>2, <1>3, <2>1
  <2>10. ASSUME NEW r \in rows', NEW u \in Before(n), n < Len(operations)
         PROVE  r[u] \in definitions'[u]
    <3>1. PICK a \in rows, e \in Matching(t) :
              /\ RowOfTriple(t, e) \in found
              /\ \A x \in VarsIn(t) : r[x] = RowOfTriple(t, e)[x]
              /\ \A x \in Before(n) \ VarsIn(t) : r[x] = a[x]
      BY <2>7 DEF FromJoin
    <3>2. CASE u = v
      BY <2>5, <2>8, <3>1, <3>2
    <3>3. CASE u # v
      <4>1. a[u] \in definitions[u]
        BY <1>0, <1>4 DEF RowsDefined, n
      <4> QED
        BY <2>8, <3>1, <3>3, <4>1
    <3> QED
      BY <3>2, <3>3
  <2>11. RowsDefined'
    BY <1>1, <2>8, <2>9, <2>10 DEF RowsDefined
  <2> QED
    BY <2>7, <2>11 DEF RowsOK
<1> QED
  BY <1>6, <1>7

\* resolveSubject finds the subjects of a term, or keeps those that are.
LEMMA SubjectRows ==
    ASSUME PlanInv, RunOK, Rooted, RowsOK, resolveSubject
    PROVE  RowsOK' /\ Continues
<1>1. PICK t \in Range(plan) : /\ Running("resolveSubject", t)
                               /\ DefineOrJoin(t.s, SubjectsOf(t.p, t.o))
                               /\ Done
  BY DEF resolveSubject
<1> DEFINE n == ran + 1
           v == t.s
           values == SubjectsOf(t.p, t.o)
<1>2. t = plan[n] /\ t \in Term /\ operations[n].name = "resolveSubject" /\ Chosen(n)
  BY <1>1, Ready
<1>3. v \in Var /\ t.p \notin Var /\ t.o \notin Var
  BY <1>2 DEF Chosen
<1>4. VarsIn(t) = {v}
  BY <1>2, <1>3, TermVarsAre
<1>5. ASSUME NEW e \in Matching(t)
      PROVE  RowOf(v, e[1]) = RowOfTriple(t, e)
  BY <1>3 DEF RowOf, RowOfTriple
<1>6. \A k : k \in values <=> \E e \in Matching(t) : k = e[1]
  BY <1>3 DEF SubjectsOf, Matching
<1>7. ASSUME NEW f \in Solutions(query)
      PROVE  f[v] \in values /\ RowOf(v, f[v]) = RowOfTriple(t, Ground(f, t))
  <2>1. Ground(f, t) \in Matching(t) /\ Ground(f, t)[1] = f[v]
    BY <1>3, SolutionRow
  <2> QED
    BY <1>5, <1>6, <2>1
<1>8. ASSUME NEW k \in values
      PROVE  \E e \in Matching(t) : RowOf(v, k) = RowOfTriple(t, e)
  BY <1>5, <1>6
<1> HIDE DEF values
<1> QED
  BY <1>1, <1>3, <1>4, <1>7, <1>8, OneVariable DEF values

\* resolveObject finds the objects of a term, or keeps those that are.
LEMMA ObjectRows ==
    ASSUME PlanInv, RunOK, Rooted, RowsOK, resolveObject
    PROVE  RowsOK' /\ Continues
<1>1. PICK t \in Range(plan) : /\ Running("resolveObject", t)
                               /\ DefineOrJoin(t.o, ObjectsOf(t.s, t.p))
                               /\ Done
  BY DEF resolveObject
<1> DEFINE n == ran + 1
           v == t.o
           values == ObjectsOf(t.s, t.p)
<1>2. t = plan[n] /\ t \in Term /\ operations[n].name = "resolveObject" /\ Chosen(n)
  BY <1>1, Ready
<1>3. v \in Var /\ t.p \notin Var /\ t.s \notin Var
  BY <1>2 DEF Chosen
<1>4. VarsIn(t) = {v}
  BY <1>2, <1>3, TermVarsAre
<1>5. ASSUME NEW e \in Matching(t)
      PROVE  RowOf(v, e[3]) = RowOfTriple(t, e)
  BY <1>3 DEF RowOf, RowOfTriple
<1>6. \A k : k \in values <=> \E e \in Matching(t) : k = e[3]
  BY <1>3 DEF ObjectsOf, Matching
<1>7. ASSUME NEW f \in Solutions(query)
      PROVE  f[v] \in values /\ RowOf(v, f[v]) = RowOfTriple(t, Ground(f, t))
  <2>1. Ground(f, t) \in Matching(t) /\ Ground(f, t)[3] = f[v]
    BY <1>3, SolutionRow
  <2> QED
    BY <1>5, <1>6, <2>1
<1>8. ASSUME NEW k \in values
      PROVE  \E e \in Matching(t) : RowOf(v, k) = RowOfTriple(t, e)
  BY <1>5, <1>6
<1> HIDE DEF values
<1> QED
  BY <1>1, <1>3, <1>4, <1>7, <1>8, OneVariable DEF values

\* Following a term from one of its two variables finds the triples of solutions,
\* with values of both that definitions admit.
LEMMA Walked ==
    ASSUME PlanInv, RunOK, Rooted, RowsOK, NEW name, NEW t, Running(name, t),
           t.s \in Var, t.p \notin Var, t.o \in Var,
           NEW from \in {t.s, t.o}, NEW to \in {t.s, t.o}, from # to, from \in Before(ran + 1)
    PROVE  /\ Finds(t, Walk(t, from))
           /\ \A o \in Walk(t, from) :
                 /\ o[from] \in definitions[from]
                 /\ to \in Before(ran + 1) => o[to] \in definitions[to]
<1> DEFINE n == ran + 1
           end(e, v) == IF v = t.s THEN e[1] ELSE e[3]
           M == {u \in graph : /\ u[2] = t.p
                               /\ end(u, from) \in getValuesForVariable(from)
                               /\ validValue(to, end(u, to))}
<1>0. /\ t \in Range(plan) /\ t \in Term /\ Distinct(t)
      /\ DOMAIN definitions = Before(n)
      /\ \A f \in Solutions(query) : \A v \in Before(n) : f[v] \in definitions[v]
  BY Ready
<1>1. to = IF from = t.s THEN t.o ELSE t.s
  OBVIOUS
<1>2. Walk(t, from) = {RowOfTriple(t, e) : e \in M}
  BY <1>1 DEF Walk
<1>3. getValuesForVariable(from) = definitions[from]
  BY <1>0 DEF getValuesForVariable, defined
<1>4. \A e \in M : e \in Matching(t)
  BY DEF Matching
<1>5. ASSUME NEW e \in M
      PROVE  /\ RowOfTriple(t, e)[from] = end(e, from)
             /\ RowOfTriple(t, e)[to] = end(e, to)
  BY DEF RowOfTriple, Distinct
<1>6. ASSUME NEW e \in M
      PROVE  /\ end(e, from) \in definitions[from]
             /\ to \in Before(n) => end(e, to) \in definitions[to]
  BY <1>0, <1>3 DEF validValue, defined
<1>7. ASSUME NEW f \in Solutions(query)
      PROVE  Ground(f, t) \in M
  <2>1. Ground(f, t) \in Matching(t) /\ Ground(f, t)[1] = f[t.s] /\ Ground(f, t)[3] = f[t.o]
    BY <1>0, SolutionRow
  <2>2. end(Ground(f, t), from) = f[from] /\ end(Ground(f, t), to) = f[to]
    BY <2>1
  <2>3. f[from] \in definitions[from] /\ (to \in Before(n) => f[to] \in definitions[to])
    BY <1>0
  <2> QED
    BY <1>0, <1>3, <2>1, <2>2, <2>3 DEF Matching, validValue, defined
<1> HIDE DEF M, end
<1>8. Finds(t, Walk(t, from))
  BY <1>2, <1>4, <1>7 DEF Finds
<1> QED
  BY <1>2, <1>5, <1>6, <1>8

\* A term with two variables whose rows are joined on one of them.
LEMMA WalkRows ==
    ASSUME PlanInv, RunOK, Rooted, RowsOK, NEW name, NEW t, Running(name, t),
           t.s \in Var, t.p \notin Var, t.o \in Var,
           NEW from \in {t.s, t.o}, NEW to \in {t.s, t.o}, from # to, from \in Before(ran + 1),
           rows' = Join(Walk(t, from), from, {t.s, t.o}), Done,
           \/ definitions' = unionDefinitions(to, {r[to] : r \in Walk(t, from)})
           \/ definitions' = definitions /\ to \in Before(ran + 1)
    PROVE  RowsOK' /\ Continues
<1> DEFINE n == ran + 1
           found == Walk(t, from)
<1>0. /\ n \in 1 .. Len(plan) /\ n \in 1 .. Len(operations) /\ ran \in Nat
      /\ t = plan[n] /\ t \in Term
      /\ Len(operations) = Len(plan)
      /\ DOMAIN definitions = Before(n)
      /\ Before(1) = {}
  BY Ready
<1>1. vars' = vars /\ graph' = graph /\ ran' = n /\ plan' = plan /\ operations' = operations
  BY DEF Done, vars
<1>2. \A i : Before(i)' = Before(i)
  BY <1>1 DEF Before
<1>3. VarsIn(t) = {t.s, t.o} /\ VarsIn(t) = {from, to}
  BY <1>0, TermVarsAre
<1>4. Before(n + 1) = Before(n) \cup {to}
  BY <1>0, <1>3, BeforeNext
<1>5. RowsBound /\ RowsDefined /\ RowsComplete /\ RowsSound
  BY DEF RowsOK
<1>6. Finds(t, found)
  BY Walked
<1>7. \A o \in found : o[from] \in definitions[from]
  BY Walked
<1>8. to \in Before(n) => \A o \in found : o[to] \in definitions[to]
  BY Walked
<1>9. from \in VarsIn(t) /\ to \in VarsIn(t) /\ from \in Before(n)
  BY <1>3
<1>10. \/ definitions' = unionDefinitions(to, {r[to] : r \in found})
       \/ definitions' = definitions /\ to \in Before(n)
  OBVIOUS
<1>11. ran > 0
  <2>1. ran # 0
    BY <1>0
  <2> QED
    BY <1>0, <2>1
<1>12. rows' = Join(found, from, VarsIn(t))
  BY <1>3
<1> HIDE DEF n, found
<1>13. RowsBound' /\ RowsComplete' /\ RowsSound' /\ FromJoin(t, n, found) /\ Continues
  BY <1>0, <1>1, <1>5, <1>6, <1>11, <1>12, <1>9, JoinStep DEF n
<1>14. /\ DOMAIN definitions' = Before(n) \cup {to}
       /\ \A u \in Before(n) \ {to} : definitions'[u] = definitions[u]
       /\ \A o \in found : o[to] \in definitions'[to]
  <2>1. CASE definitions' = definitions /\ to \in Before(n)
    BY <1>0, <1>8, <2>1
  <2>2. CASE definitions' = unionDefinitions(to, {r[to] : r \in found})
    <3>1. \A o \in found : o[to] \in restrictToResolved(to, {r[to] : r \in found})
      BY <1>0, <1>8 DEF restrictToResolved, validValue, defined
    <3> DEFINE kept == restrictToResolved(to, {r[to] : r \in found})
    <3> HIDE DEF kept
    <3>2. definitions' = WithDefinition(definitions, to, kept)
      BY <2>2 DEF unionDefinitions, kept
    <3>3. /\ DOMAIN definitions' = Before(n) \cup {to} /\ definitions'[to] = kept
          /\ \A u \in Before(n) \ {to} : definitions'[u] = definitions[u]
      BY <1>0, <3>2 DEF WithDefinition
    <3> QED
      BY <3>1, <3>3 DEF kept
  <2> QED
    BY <1>10, <2>1, <2>2
<1>15. Before(ran + 1)' = Before(n) \cup {to}
  BY <1>1, <1>2, <1>4
<1>16. ASSUME NEW r \in rows', NEW u \in Before(n) \cup {to}
       PROVE  r[u] \in definitions'[u]
  <2>1. PICK a \in rows, e \in Matching(t) :
            /\ RowOfTriple(t, e) \in found
            /\ \A x \in VarsIn(t) : r[x] = RowOfTriple(t, e)[x]
            /\ \A x \in Before(n) \ VarsIn(t) : r[x] = a[x]
    BY <1>13 DEF FromJoin
  <2>2. CASE u = to
    BY <1>14, <1>9, <2>1, <2>2
  <2>3. CASE u = from
    <3>1. definitions'[from] = definitions[from]
      BY <1>14, <1>9
    <3>2. r[from] \in definitions[from]
      BY <1>7, <1>9, <2>1
    <3> QED
      BY <2>3, <3>1, <3>2
  <2>4. CASE u \notin {from, to}
    <3>1. a[u] \in definitions[u]
      BY <1>0, <1>5, <2>4 DEF RowsDefined, n
    <3> QED
      BY <1>3, <1>14, <2>1, <2>4, <3>1
  <2> QED
    BY <2>2, <2>3, <2>4
<1>17. RowsDefined'
  BY <1>14, <1>15, <1>16 DEF RowsDefined
<1> QED
  BY <1>13, <1>17 DEF RowsOK

\* restrictSubjectObjectByPredicate joins by a subject or object that has values.
LEMMA RestrictRows ==
    ASSUME PlanInv, RunOK, Rooted, RowsOK, restrictSubjectObjectByPredicate
    PROVE  RowsOK' /\ Continues
<1>1. PICK t \in Range(plan) :
          /\ Running("restrictSubjectObjectByPredicate", t)
          /\ JoinWith(Walk(t, RestrictFrom(t)), RestrictFrom(t), {t.s, t.o})
          /\ Done /\ UNCHANGED definitions
  BY DEF restrictSubjectObjectByPredicate
<1> DEFINE n == ran + 1
           from == RestrictFrom(t)
<1>2. t = plan[n] /\ operations[n].name = "restrictSubjectObjectByPredicate" /\ Chosen(n) /\ Distinct(t)
  BY <1>1, Ready
<1>3. /\ t.s \in Var /\ t.p \notin Var /\ t.o \in Var
      /\ t.s \in Before(n) /\ t.o \in Before(n) /\ t.s # t.o
  BY <1>2 DEF Chosen, Distinct
<1>4. from \in {t.s, t.o}
  BY DEF RestrictFrom
<1>5. rows' = Join(Walk(t, from), from, {t.s, t.o})
  BY <1>1 DEF JoinWith
<1> HIDE DEF from
<1>6. PICK to \in {t.s, t.o} : from # to
  BY <1>3, <1>4
<1>7. from \in Before(n) /\ to \in Before(n) /\ definitions' = definitions
  BY <1>1, <1>3, <1>4
<1> QED
  BY <1>1, <1>3, <1>4, <1>5, <1>6, <1>7, WalkRows

\* resolveSubjectFromVarObject finds the subjects of each object.
LEMMA FromVarObjectRows ==
    ASSUME PlanInv, RunOK, Rooted, RowsOK, resolveSubjectFromVarObject
    PROVE  RowsOK' /\ Continues
<1>1. PICK t \in Range(plan) :
          Running("resolveSubjectFromVarObject", t) /\ WalkAndJoin(t, t.o, t.s) /\ Done
  BY DEF resolveSubjectFromVarObject
<1> DEFINE n == ran + 1
<1>2. t = plan[n] /\ operations[n].name = "resolveSubjectFromVarObject" /\ Chosen(n) /\ Distinct(t)
  BY <1>1, Ready
<1>3. t.s \in Var /\ t.p \notin Var /\ t.o \in Var /\ t.o \in Before(n) /\ t.s # t.o
  BY <1>2 DEF Chosen, Distinct
<1>4. rows' = Join(Walk(t, t.o), t.o, {t.s, t.o})
  <2>1. rows' = Join(Walk(t, t.o), t.o, {t.o, t.s})
    BY <1>1 DEF WalkAndJoin, JoinWith
  <2>2. {t.o, t.s} = {t.s, t.o}
    OBVIOUS
  <2> QED
    BY <2>1, <2>2
<1>5. definitions' = unionDefinitions(t.s, {r[t.s] : r \in Walk(t, t.o)})
  BY <1>1 DEF WalkAndJoin
<1> QED
  BY <1>1, <1>3, <1>4, <1>5, WalkRows

\* resolveObjectFromVarSubject finds the objects of each subject.
LEMMA FromVarSubjectRows ==
    ASSUME PlanInv, RunOK, Rooted, RowsOK, resolveObjectFromVarSubject
    PROVE  RowsOK' /\ Continues
<1>1. PICK t \in Range(plan) :
          Running("resolveObjectFromVarSubject", t) /\ WalkAndJoin(t, t.s, t.o) /\ Done
  BY DEF resolveObjectFromVarSubject
<1> DEFINE n == ran + 1
<1>2. t = plan[n] /\ operations[n].name = "resolveObjectFromVarSubject" /\ Chosen(n) /\ Distinct(t)
  BY <1>1, Ready
<1>3. t.s \in Var /\ t.p \notin Var /\ t.o \in Var /\ t.s \in Before(n) /\ t.s # t.o
  BY <1>2 DEF Chosen, Distinct
<1>4. rows' = Join(Walk(t, t.s), t.s, {t.s, t.o})
  BY <1>1 DEF WalkAndJoin, JoinWith
<1>5. definitions' = unionDefinitions(t.o, {r[t.o] : r \in Walk(t, t.s)})
  BY <1>1 DEF WalkAndJoin
<1> QED
  BY <1>1, <1>3, <1>4, <1>5, WalkRows

\* The last term, which no other starts from.
LEMMA LastStep ==
    ASSUME PlanInv, RunOK, Rooted, RowsOK, NEW name, NEW t, Running(name, t),
           ran + 1 = Len(plan), NEW on \in VarsIn(t), on \in Before(ran + 1),
           NEW found, Finds(t, found), rows' = Join(found, on, VarsIn(t)), Done
    PROVE  RowsOK' /\ Continues
<1> DEFINE n == ran + 1
<1>0. /\ n \in 1 .. Len(plan) /\ ran \in Nat /\ t = plan[n]
      /\ Len(operations) = Len(plan) /\ Before(1) = {}
  BY Ready
<1>1. vars' = vars /\ graph' = graph /\ ran' = n /\ operations' = operations
  BY DEF Done, vars
<1>2. RowsBound /\ RowsComplete /\ RowsSound
  BY DEF RowsOK
<1>3. ran > 0
  <2>1. ran # 0
    BY <1>0
  <2> QED
    BY <1>0, <2>1
<1> HIDE DEF n
<1>4. RowsBound' /\ RowsComplete' /\ RowsSound' /\ Continues
  BY <1>0, <1>1, <1>2, <1>3, JoinStep DEF n
<1>5. RowsDefined'
  BY <1>0, <1>1 DEF RowsDefined, n
<1> QED
  BY <1>4, <1>5 DEF RowsOK

\* resolveSubjectPredFromObject finds the edges that lead to an object.
LEMMA SubjectPredRows ==
    ASSUME PlanInv, RunOK, Rooted, RowsOK, resolveSubjectPredFromObject
    PROVE  RowsOK' /\ Continues
<1> DEFINE n == ran + 1
           M(t) == {u \in graph : u[3] = t.o /\ validValue(t.p, u[2]) /\ validValue(t.s, u[1])}
           found(t) == {RowOfTriple(t, e) : e \in M(t)}
<1>1. PICK t \in Range(plan) :
          /\ Running("resolveSubjectPredFromObject", t)
          /\ \/ defined(t.s) /\ JoinWith(found(t), t.s, {t.s, t.p})
             \/ ~ defined(t.s) /\ defined(t.p) /\ JoinWith(found(t), t.p, {t.s, t.p})
             \/ ~ defined(t.s) /\ ~ defined(t.p) /\ AddValues(found(t), {t.s, t.p})
          /\ Done
  BY DEF resolveSubjectPredFromObject
<1>2. /\ t = plan[n] /\ t \in Term /\ operations[n].name = "resolveSubjectPredFromObject" /\ Chosen(n)
      /\ DOMAIN definitions = Before(n) /\ n \in 1 .. Len(plan) /\ ran \in Nat
      /\ \A f \in Solutions(query) : \A v \in Before(n) : f[v] \in definitions[v]
      /\ ran > 0 => \E v \in VarsIn(t) : v \in Before(n)
  BY <1>1, Ready
<1>3. n = Len(plan) /\ t.s \in Var /\ t.p \in Var /\ t.o \notin Var
  BY <1>2 DEF Chosen
<1>4. VarsIn(t) = {t.s, t.p}
  BY <1>2, <1>3, TermVarsAre
<1>5. ran > 0
  <2>1. n # 1
    BY <1>2, <1>3 DEF Rooted
  <2> QED
    BY <1>2, <2>1
<1>6. Finds(t, found(t))
  <2>1. \A e \in M(t) : e \in Matching(t)
    BY <1>3 DEF Matching
  <2>2. ASSUME NEW f \in Solutions(query)
        PROVE  Ground(f, t) \in M(t)
    <3>1. Ground(f, t) \in Matching(t) /\ Ground(f, t)[1] = f[t.s] /\ Ground(f, t)[2] = f[t.p]
      BY <1>3, SolutionRow
    <3> QED
      BY <1>2, <1>3, <3>1 DEF Matching, validValue, defined
  <2> HIDE DEF M
  <2> QED
    BY <2>1, <2>2 DEF Finds
<1> HIDE DEF found
<1>7. PICK on \in VarsIn(t) : on \in Before(n) /\ rows' = Join(found(t), on, {t.s, t.p})
  <2>1. CASE defined(t.s)
    BY <1>1, <1>2, <1>4, <2>1 DEF JoinWith, defined
  <2>2. CASE ~ defined(t.s)
    <3>1. defined(t.p)
      BY <1>2, <1>4, <1>5, <2>2 DEF defined
    <3> QED
      BY <1>1, <1>2, <1>4, <2>2, <3>1 DEF JoinWith, defined
  <2> QED
    BY <2>1, <2>2
<1>8. rows' = Join(found(t), on, VarsIn(t))
  BY <1>4, <1>7
<1> QED
  BY <1>1, <1>3, <1>6, <1>7, <1>8, LastStep

\* The three operations of terms with three variables join by the one with values.
LEMMA VarTripleRows ==
    ASSUME PlanInv, RunOK, Rooted, RowsOK,
           \/ resolveVarTripleFromSubject \/ resolveVarTripleFromObject
           \/ resolveVarTripleFromPredicate
    PROVE  RowsOK' /\ Continues
<1> DEFINE n == ran + 1
<1>1. ASSUME NEW name, NEW t \in Range(plan), Running(name, t),
             n = Len(plan), t.s \in Var, t.p \in Var, t.o \in Var,
             NEW on \in {t.s, t.p, t.o}, on \in Before(n), NEW found,
             \A o \in found : \E e \in graph : o = RowOfTriple(t, e),
             \A f \in Solutions(query) : RowOfTriple(t, Ground(f, t)) \in found,
             JoinWith(found, on, {t.s, t.p, t.o}), Done
      PROVE  RowsOK' /\ Continues
  <2>1. t \in Term
    BY <1>1, PlanTerms
  <2>2. VarsIn(t) = {t.s, t.p, t.o}
    BY <1>1, <2>1, TermVarsAre
  <2>3. Matching(t) = graph
    BY <1>1 DEF Matching
  <2>4. Finds(t, found)
    BY <1>1, <2>3 DEF Finds
  <2>5. on \in VarsIn(t) /\ rows' = Join(found, on, VarsIn(t))
    BY <1>1, <2>2 DEF JoinWith
  <2> QED
    BY <1>1, <2>4, <2>5, LastStep
<1>2. ASSUME NEW t \in Range(plan), NEW f \in Solutions(query), t.s \in Var, t.p \in Var, t.o \in Var
      PROVE  /\ Ground(f, t) \in graph
             /\ Ground(f, t)[1] = f[t.s] /\ Ground(f, t)[2] = f[t.p] /\ Ground(f, t)[3] = f[t.o]
  <2>1. Ground(f, t) \in Matching(t)
    BY SolutionRow
  <2>2. Ground(f, t) \in graph
    BY <2>1 DEF Matching
  <2>3. Ground(f, t)[1] = f[t.s] /\ Ground(f, t)[2] = f[t.p] /\ Ground(f, t)[3] = f[t.o]
    BY <1>2, SolutionRow
  <2> QED
    BY <2>2, <2>3
<1>3. CASE resolveVarTripleFromSubject
  <2>1. PICK t \in Range(plan) : Running("resolveVarTripleFromSubject", t) /\ VarTripleFrom(t, t.s, 1)
    BY <1>3 DEF resolveVarTripleFromSubject
  <2>2. /\ t = plan[n] /\ operations[n].name = "resolveVarTripleFromSubject" /\ Chosen(n)
        /\ \A f \in Solutions(query) : \A v \in Before(n) : f[v] \in definitions[v]
    BY <2>1, Ready
  <2>3. n = Len(plan) /\ t.s \in Var /\ t.p \in Var /\ t.o \in Var /\ t.s \in Before(n)
    BY <2>2 DEF Chosen
  <2> DEFINE found == {RowOfTriple(t, e) : e \in {u \in graph : u[1] \in definitions[t.s]}}
  <2>4. JoinWith(found, t.s, {t.s, t.p, t.o}) /\ Done
    BY <2>1 DEF VarTripleFrom
  <2>5. \A o \in found : \E e \in graph : o = RowOfTriple(t, e)
    OBVIOUS
  <2>6. \A f \in Solutions(query) : RowOfTriple(t, Ground(f, t)) \in found
    BY <1>2, <2>2, <2>3
  <2> HIDE DEF found
  <2> QED
    BY <1>1, <2>1, <2>3, <2>4, <2>5, <2>6
<1>4. CASE resolveVarTripleFromObject
  <2>1. PICK t \in Range(plan) : Running("resolveVarTripleFromObject", t) /\ VarTripleFrom(t, t.o, 3)
    BY <1>4 DEF resolveVarTripleFromObject
  <2>2. /\ t = plan[n] /\ operations[n].name = "resolveVarTripleFromObject" /\ Chosen(n)
        /\ \A f \in Solutions(query) : \A v \in Before(n) : f[v] \in definitions[v]
    BY <2>1, Ready
  <2>3. n = Len(plan) /\ t.s \in Var /\ t.p \in Var /\ t.o \in Var /\ t.o \in Before(n)
    BY <2>2 DEF Chosen
  <2> DEFINE found == {RowOfTriple(t, e) : e \in {u \in graph : u[3] \in definitions[t.o]}}
  <2>4. JoinWith(found, t.o, {t.s, t.p, t.o}) /\ Done
    BY <2>1 DEF VarTripleFrom
  <2>5. \A o \in found : \E e \in graph : o = RowOfTriple(t, e)
    OBVIOUS
  <2>6. \A f \in Solutions(query) : RowOfTriple(t, Ground(f, t)) \in found
    BY <1>2, <2>2, <2>3
  <2> HIDE DEF found
  <2> QED
    BY <1>1, <2>1, <2>3, <2>4, <2>5, <2>6
<1>5. CASE resolveVarTripleFromPredicate
  <2>1. PICK t \in Range(plan) :
            /\ Running("resolveVarTripleFromPredicate", t)
            /\ definitions[t.p] = {} /\ JoinWith({}, t.p, {t.s, t.p, t.o}) /\ Done
    BY <1>5 DEF resolveVarTripleFromPredicate
  <2>2. /\ t = plan[n] /\ operations[n].name = "resolveVarTripleFromPredicate" /\ Chosen(n)
        /\ \A f \in Solutions(query) : \A v \in Before(n) : f[v] \in definitions[v]
    BY <2>1, Ready
  <2>3. n = Len(plan) /\ t.s \in Var /\ t.p \in Var /\ t.o \in Var /\ t.p \in Before(n)
    BY <2>2 DEF Chosen
  <2> DEFINE found == {}
  <2>4. \A o \in found : \E e \in graph : o = RowOfTriple(t, e)
    OBVIOUS
  <2>5. \A f \in Solutions(query) : RowOfTriple(t, Ground(f, t)) \in found
    BY <2>1, <2>2, <2>3
  <2>6. JoinWith(found, t.p, {t.s, t.p, t.o})
    BY <2>1
  <2> HIDE DEF found
  <2> QED
    BY <1>1, <2>1, <2>3, <2>4, <2>5, <2>6
<1> QED
  BY <1>3, <1>4, <1>5

\* Once all operations have run, their variables are those of the query.
LEMMA AllVariables ==
    ASSUME PlanInv, RunOK, run = "running", ran = Len(operations)
    PROVE  Before(ran + 1) = QueryVars(query)
<1>1. /\ pc = "planned" /\ Len(operations) = Len(plan) /\ plan \in Seq(Term) /\ Len(plan) \in Nat
  BY DEF RunOK, PlanInv, StageOK, TypeOK
<1>2. Len(plan) \in 0 .. Len(plan) /\ SubSeq(plan, 1, Len(plan)) = plan
  BY <1>1, SubSeqFull
<1>3. QueryVars(SubSeq(plan, 1, Len(plan))) = Before(Len(plan) + 1)
  BY <1>2, BeforeAre
<1>4. QueryVars(plan) = Before(ran + 1)
  BY <1>1, <1>2, <1>3
<1>5. QueryVars(plan) = QueryVars(query)
  <2>1. Range(plan) = Range(query)
    BY <1>1, PlanTerms
  <2> QED
    BY <2>1 DEF QueryVars
<1> QED
  BY <1>4, <1>5

\* The rows of the answer.
LEMMA AnswerRows ==
    ASSUME PlanInv, RunOK, Rooted, RowsOK, getResults
    PROVE  AnswerOK'
<1> DEFINE Q == QueryVars(query)
<1>0. /\ run = "running" /\ ran = Len(operations) /\ pc = "planned"
      /\ UNCHANGED <<vars, graph, ran, rows>>
  BY DEF getResults, RunOK
<1>1. /\ Len(operations) = Len(plan) /\ plan # <<>> /\ plan \in Seq(Term)
      /\ operations \in Seq([name : Operations, from : Var \cup {NoVar}])
  BY <1>0 DEF PlanInv, StageOK, TypeOK
<1>2. Len(plan) \in Nat /\ Len(plan) > 0 /\ DOMAIN operations = 1 .. Len(plan) /\ DOMAIN plan = 1 .. Len(plan)
  BY <1>1
<1>3. Last(operations).name # "resolveVarTripleAll"
  <2>1. Chosen(Len(plan))
    BY <1>2 DEF PlanInv, ChosenRooted
  <2>2. Last(operations) = operations[Len(plan)]
    BY <1>1 DEF Last
  <2> QED
    BY <2>1, <2>2 DEF Chosen
<1>4. PICK vs \in SUBSET Q : answer' = [vars |-> vs, rows |-> ResultRows(vs)]
  BY <1>3 DEF getResults
<1>5. answer'.vars = vs /\ answer'.rows = ResultRows(vs)
  BY <1>4
<1>6. Range(plan) = Range(query)
  BY <1>0, PlanTerms
<1>7. Before(ran + 1) = Q
  BY <1>0, AllVariables
<1>8. /\ \A r \in rows : Bound(r) = Q /\ \A v \in Q : r[v] \in Constant
      /\ \A f \in Solutions(query) : \E r \in rows : \A v \in Q : r[v] = f[v]
  BY <1>0, <1>1, <1>2, <1>7 DEF RowsOK, RowsBound, RowsComplete
<1>9. \A y : y \in ResultRows(vs) <=> \E r \in rows : y = Project(r, vs)
  BY <1>8 DEF ResultRows
<1>10. (Treelike' <=> Treelike) /\ Solutions(query)' = Solutions(query)
  BY <1>0 DEF Treelike, Solutions, vars
<1>11. \A y : y \in SelectedSolutions' <=> \E f \in Solutions(query) : y = Project(f, vs)
  BY <1>5, <1>10 DEF SelectedSolutions
<1> HIDE DEF Q
<1>12. ASSUME NEW f \in Solutions(query)
       PROVE  Project(f, vs) \in ResultRows(vs)
  <2>1. PICK r \in rows : \A v \in Q : r[v] = f[v]
    BY <1>8
  <2>2. Project(r, vs) = Project(f, vs)
    BY <2>1 DEF Project
  <2> QED
    BY <1>9, <2>1, <2>2
<1>13. ASSUME Treelike, NEW r \in rows
       PROVE  \E f \in Solutions(query) : Project(r, vs) = Project(f, vs)
  <2> DEFINE f == [v \in Q |-> r[v]]
  <2>1. f \in [Q -> Constant]
    BY <1>8
  <2>2. ASSUME NEW t \in Range(query)
        PROVE  Holds(f, t)
    <3>1. PICK m \in 1 .. Len(plan) : t = plan[m]
      BY <1>2, <1>6 DEF Range
    <3>2. Holds(r, t)
      BY <1>0, <1>1, <1>13, <3>1 DEF RowsOK, RowsSound
    <3>3. t \in Term /\ VarsIn(t) \subseteq Q
      <4>1. t \in Term
        BY <1>6, <2>2, PlanTerms
      <4>2. VarsIn(t) \subseteq Q
        BY <2>2 DEF QueryVars, VarsIn, Q
      <4> QED
        BY <4>1, <4>2
    <3>4. {t.s, t.p, t.o} \cap Var \subseteq Q
      BY <3>3, TermVarsAre
    <3>5. Val(f, t.s) = Val(r, t.s) /\ Val(f, t.p) = Val(r, t.p) /\ Val(f, t.o) = Val(r, t.o)
      BY <3>4 DEF Val
    <3> QED
      BY <3>2, <3>5 DEF Holds
  <2>3. f \in Solutions(query)
    BY <2>1, <2>2, SolutionsAre DEF Q
  <2>4. Project(r, vs) = Project(f, vs)
    BY DEF Project
  <2> HIDE DEF f
  <2> QED
    BY <2>3, <2>4
<1>14. SelectedSolutions' \subseteq ResultRows(vs)
  BY <1>11, <1>12
<1>15. Treelike => ResultRows(vs) \subseteq SelectedSolutions'
  BY <1>9, <1>11, <1>13
<1> QED
  BY <1>5, <1>10, <1>14, <1>15 DEF AnswerOK

\* The operations a Rooted query never runs.
LEMMA NotChosen ==
    ASSUME PlanInv, RunOK, Rooted, RowsOK,
           \/ resolvePredicate \/ resolveSubjectObjectFromPred \/ resolvePredObjectFromSubject
           \/ resolveVarTripleAll
    PROVE  FALSE
<1>1. PICK name \in {"resolvePredicate", "resolveSubjectObjectFromPred",
                     "resolvePredObjectFromSubject", "resolveVarTripleAll"} :
               \E t : Running(name, t)
  BY DEF resolvePredicate, resolveSubjectObjectFromPred, resolvePredObjectFromSubject,
         resolveVarTripleAll
<1>2. operations[ran + 1].name = name /\ Chosen(ran + 1)
  BY <1>1, Ready
<1> QED
  BY <1>2 DEF Chosen

\* Whatever operation the plan has next, its rows are those of one more term.
LEMMA OperationRows ==
    ASSUME PlanInv, RunOK, Rooted, RowsOK, RunOperation
    PROVE  RowsOK' /\ Continues
<1> QED
  BY SubjectRows, ObjectRows, RestrictRows, FromVarObjectRows, FromVarSubjectRows, SubjectPredRows,
     VarTripleRows, NotChosen DEF RunOperation

\* What running an operation does to the state of the run.
LEMMA OperationRuns ==
    ASSUME PlanInv, RunOK, RunOperation
    PROVE  RunOK' /\ vars' = vars /\ run' # "answered"
<1>1. /\ vars' = vars /\ graph' = graph /\ ran' = ran + 1 /\ run = "running" /\ ran < Len(operations)
      /\ run' \in {"running", "scrambled"}
  <2>1. CASE resolveVarTripleAll
    BY <2>1 DEF resolveVarTripleAll, Running
  <2>2. CASE ~ resolveVarTripleAll
    <3>1. Done /\ \E name, t : Running(name, t)
      BY <2>2 DEF RunOperation, resolveSubject, resolveObject, resolvePredicate,
           restrictSubjectObjectByPredicate, resolveSubjectFromVarObject,
           resolveObjectFromVarSubject, resolveSubjectObjectFromPred,
           resolveSubjectPredFromObject, resolvePredObjectFromSubject,
           resolveVarTripleFromSubject, resolveVarTripleFromObject, VarTripleFrom,
           resolveVarTripleFromPredicate
    <3> QED
      BY <3>1 DEF Done, Running
  <2> QED
    BY <2>1, <2>2
<1>2. pc' = pc /\ operations' = operations
  BY <1>1 DEF vars
<1>3. operations \in Seq([name : Operations, from : Var \cup {NoVar}])
  BY DEF PlanInv, TypeOK
<1> QED
  BY <1>1, <1>2, <1>3 DEF RunOK

\* Before a query its rows are none and its plan is empty.
LEMMA EngineInitInv == EngineInit => EngineInv
<1> SUFFICES ASSUME EngineInit PROVE EngineInv
  OBVIOUS
<1>1. PlanInv
  BY PlanInit
<1>2. /\ run = "waiting" /\ ran = 0 /\ graph = {} /\ rows = {} /\ added = {} /\ DOMAIN definitions = {}
      /\ Len(operations) \in Nat
  BY DEF EngineInit, Init
<1>3. RunOK
  BY <1>2 DEF RunOK
<1>4. Before(ran + 1) = {}
  BY <1>2 DEF Before
<1>5. RowsOK
  BY <1>2, <1>4 DEF RowsOK, RowsBound, RowsDefined, RowsComplete, RowsSound
<1>6. AnswerOK
  BY <1>2 DEF AnswerOK
<1> QED
  BY <1>1, <1>3, <1>5, <1>6 DEF EngineInv

\* Every step of planning and execution keeps plan and rows right.
LEMMA EngineNextInv == EngineInv /\ [EngineNext]_engineVars => EngineInv'
<1> SUFFICES ASSUME EngineInv, [EngineNext]_engineVars PROVE EngineInv'
  OBVIOUS
<1>0. PlanInv /\ RunOK /\ PlanInv'
  BY PlanNext DEF EngineInv
<1>1. ASSUME vars' = vars
      PROVE  /\ (Rooted' <=> Rooted) /\ (Treelike' <=> Treelike) /\ pc' = pc /\ query' = query
             /\ plan' = plan /\ operations' = operations /\ \A n : Before(n)' = Before(n)
  <2>1. UNCHANGED <<query, pc, terms, plan, links, operations>>
    BY <1>1 DEF vars
  <2> QED
    BY <2>1 DEF Rooted, Treelike, Before
<1>2. ASSUME ran' = 0, run' # "answered", rows' = {}, DOMAIN definitions' = {}, RunOK'
      PROVE  EngineInv'
  <2>1. Before(ran + 1)' = {}
    BY <1>2 DEF Before
  <2>2. RowsOK'
    BY <1>2, <2>1 DEF RowsOK, RowsBound, RowsDefined, RowsComplete, RowsSound
  <2> QED
    BY <1>0, <1>2, <2>2 DEF EngineInv, AnswerOK
<1>3. ASSUME vars' = vars, UNCHANGED <<graph, ran, definitions, rows>>
      PROVE  RowsOK => RowsOK'
  <2>1. Solutions(query)' = Solutions(query)
    BY <1>1, <1>3 DEF Solutions
  <2>2. RowsBound => RowsBound'
    BY <1>1, <1>3 DEF RowsBound, Bound
  <2>3. RowsDefined => RowsDefined'
    BY <1>1, <1>3 DEF RowsDefined
  <2>4. RowsComplete => RowsComplete'
    BY <1>1, <1>3, <2>1 DEF RowsComplete
  <2>5. RowsSound => RowsSound'
    BY <1>1, <1>3 DEF RowsSound, Holds
  <2> QED
    BY <2>2, <2>3, <2>4, <2>5 DEF RowsOK
<1>4. CASE Plans
  <2>1. Next /\ UNCHANGED <<run, graph, ran, definitions, rows, added>>
    BY <1>4 DEF Plans
  <2>2. pc # "planned"
    BY <2>1 DEF Next, ChooseRoot, NoRoot, ChooseNext, Ordered, FormOperation, Planned
  <2>3. run = "waiting" /\ ran = 0 /\ rows = {} /\ added = {} /\ DOMAIN definitions = {}
    BY <1>0, <2>2 DEF RunOK
  <2>4. Len(operations') \in Nat
    BY <1>0 DEF PlanInv, TypeOK
  <2>5. RunOK'
    BY <1>0, <2>1, <2>3, <2>4 DEF RunOK
  <2> QED
    BY <1>2, <2>1, <2>3, <2>5
<1>5. CASE StartRun
  <2>1. /\ pc = "planned" /\ run = "waiting" /\ graph' \in Graphs /\ run' = "running"
        /\ UNCHANGED <<vars, ran, definitions, rows, added>>
    BY <1>5 DEF StartRun
  <2>2. ran = 0 /\ rows = {} /\ added = {} /\ DOMAIN definitions = {}
    BY <1>0, <2>1 DEF RunOK
  <2>3. graph' \subseteq Constant \X Constant \X Constant
    BY <2>1, GraphsAssumption
  <2>4. RunOK'
    BY <1>0, <1>1, <2>1, <2>2, <2>3 DEF RunOK
  <2> QED
    BY <1>2, <2>1, <2>2, <2>4
<1>6. CASE RunOperation
  <2>1. RunOK' /\ vars' = vars /\ run' # "answered"
    BY <1>0, <1>6, OperationRuns
  <2>2. Rooted => RowsOK'
    BY <1>0, <1>6, OperationRows DEF EngineInv
  <2> QED
    BY <1>0, <1>1, <2>1, <2>2 DEF EngineInv, AnswerOK
<1>7. CASE Unknown \/ Panics \/ ShortRow
  <2>1. /\ UNCHANGED <<vars, graph, ran, definitions, rows, added>>
        /\ run' \in {"failed", "panic"}
    BY <1>7 DEF Unknown, Panics, ShortRow
  <2>2. run = "running"
    BY <1>7 DEF Unknown, Panics, ShortRow, Running
  <2>3. RunOK'
    BY <1>0, <1>1, <2>1, <2>2 DEF RunOK
  <2> QED
    BY <1>0, <1>1, <1>3, <2>1, <2>3 DEF EngineInv, AnswerOK
<1>8. CASE getResults
  <2>1. /\ UNCHANGED <<vars, graph, ran, definitions, rows, added>>
        /\ run' = "answered" /\ run = "running"
    BY <1>8 DEF getResults
  <2>2. RunOK'
    BY <1>0, <1>1, <2>1 DEF RunOK
  <2>3. Rooted => AnswerOK'
    BY <1>0, <1>8, AnswerRows DEF EngineInv
  <2> QED
    BY <1>0, <1>1, <1>3, <2>1, <2>2, <2>3 DEF EngineInv
<1>9. CASE UNCHANGED engineVars
  <2>1. UNCHANGED <<vars, run, graph, ran, definitions, rows, added, answer>>
    BY <1>9 DEF engineVars
  <2>2. RunOK'
    BY <1>0, <1>1, <2>1 DEF RunOK
  <2>3. Solutions(query)' = Solutions(query)
    BY <1>1, <2>1 DEF Solutions
  <2>4. SelectedSolutions' = SelectedSolutions
    BY <2>1, <2>3 DEF SelectedSolutions
  <2>5. AnswerOK => AnswerOK'
    BY <1>1, <2>1, <2>4 DEF AnswerOK
  <2> QED
    BY <1>0, <1>1, <1>3, <2>1, <2>2, <2>5 DEF EngineInv
<1> QED
  BY <1>4, <1>5, <1>6, <1>7, <1>8, <1>9 DEF EngineNext

\* The invariant of running a plan (operators.go, relation.go): rows, values and
\* marks fit each other after every operation.
THEOREM EngineInvariant == EngineSpec => []EngineInv
<1> QED
  BY EngineInitInv, EngineNextInv, PTL DEF EngineSpec

\* For every Rooted query, over every snapshot: the rows have
\* a value for each variable of the terms done, and for no other, so that
\* relation.join and add1Value find the columns where they expect them.
THEOREM AlwaysRowsAligned == EngineSpec => []RowsAligned
<1>1. EngineInv => RowsAligned
  <2> SUFFICES ASSUME EngineInv, Rooted, run \in {"running", "answered"}, NEW r \in rows
               PROVE  Bound(r) = QueryVars(SubSeq(plan, 1, ran))
    BY DEF RowsAligned
  <2>1. Bound(r) = Before(ran + 1)
    BY DEF EngineInv, RowsOK, RowsBound
  <2>2. ran \in 0 .. Len(operations) /\ Len(operations) <= Len(plan) /\ plan \in Seq(Term)
        /\ operations \in Seq([name : Operations, from : Var \cup {NoVar}])
    BY DEF EngineInv, RunOK, PlanInv, StageOK, TypeOK
  <2>3. ran \in 0 .. Len(plan)
    BY <2>2
  <2>4. QueryVars(SubSeq(plan, 1, ran)) = Before(ran + 1)
    BY <2>3, BeforeAre DEF EngineInv
  <2> QED
    BY <2>1, <2>4
<1> QED
  BY <1>1, EngineInvariant, PTL

\* The values the next operation starts from (ctx.definitions) are those of the
\* rows, or more: an operation never passes over a row (defineVariable, join).
THEOREM AlwaysDefinitionsCoverRows == EngineSpec => []DefinitionsCoverRows
<1>1. EngineInv => DefinitionsCoverRows
  <2> SUFFICES ASSUME EngineInv, Rooted, ran < Len(operations), NEW r \in rows, NEW v \in Var,
                      r[v] # Empty
               PROVE  v \in DOMAIN definitions /\ r[v] \in definitions[v]
    BY DEF DefinitionsCoverRows
  <2>1. v \in Before(ran + 1)
    BY DEF EngineInv, RowsOK, RowsBound, Bound
  <2> QED
    BY <2>1 DEF EngineInv, RowsOK, RowsDefined
<1> QED
  BY <1>1, EngineInvariant, PTL

\* Joining makes up no row: each row of a Rooted query continues one there was with a
\* triple its term matches and that has a value of it (relation.join).
THEOREM RowsAlwaysContinue == EngineSpec => RowsContinue
<1> DEFINE A == Rooted /\ ran > 0 /\ ran' = ran + 1 =>
                  LET t == plan[ran + 1]
                      V == Range(TermVars(t))
                  IN \A r \in rows' :
                        LET val(x) == IF x \in Var THEN r[x] ELSE x
                        IN /\ <<val(t.s), val(t.p), val(t.o)>> \in graph
                           /\ \E a \in rows :
                                 /\ \A v \in Var \ V : r[v] = a[v]
                                 /\ \E v \in V : a[v] # Empty /\ r[v] = a[v]
<1>1. EngineInv /\ [EngineNext]_engineVars => [A]_engineVars
  <2> SUFFICES ASSUME EngineInv, [EngineNext]_engineVars, Rooted, ran > 0, ran' = ran + 1
               PROVE  A
    OBVIOUS
  <2>1. RunOperation
    <3>1. ran' # ran
      BY DEF EngineInv, RunOK
    <3>2. EngineNext
      BY <3>1 DEF engineVars
    <3> QED
      BY <3>1, <3>2 DEF EngineNext, Plans, StartRun, Unknown, Panics, getResults, ShortRow
  <2>2. Continues
    BY <2>1, OperationRows DEF EngineInv
  <2> QED
    BY <2>2 DEF Continues, Holds, Val, VarsIn
<1> QED
  BY <1>1, EngineInvariant, PTL DEF EngineSpec, RowsContinue

\* No variable stands for a predicate after another place.
NewPredicates ==
    \A n \in DOMAIN plan : plan[n].p \notin QueryVars(SubSeq(plan, 1, n - 1))

\* The operation of such a query finds the values it starts from.
LEMMA NoPanic ==
    ASSUME PlanInv, RunOK, Rooted, RowsOK, NewPredicates, Panics
    PROVE  FALSE
<1> DEFINE n == ran + 1
<1>1. PICK t \in Range(plan) :
          \/ Running("resolveVarTripleFromSubject", t) /\ ~ defined(t.s)
          \/ Running("resolveVarTripleFromObject", t) /\ ~ defined(t.o)
          \/ Running("resolveVarTripleFromPredicate", t)
          \/ Running("resolveVarTripleAll", t)
  BY DEF Panics
<1>2. PICK name \in {"resolveVarTripleFromSubject", "resolveVarTripleFromObject",
                     "resolveVarTripleFromPredicate", "resolveVarTripleAll"} :
          /\ Running(name, t)
          /\ name = "resolveVarTripleFromSubject" => ~ defined(t.s)
          /\ name = "resolveVarTripleFromObject" => ~ defined(t.o)
  BY <1>1
<1>3. /\ t = plan[n] /\ operations[n].name = name /\ Chosen(n) /\ n \in 1 .. Len(plan)
      /\ DOMAIN definitions = Before(n)
  BY <1>2, Ready
<1>4. CASE name = "resolveVarTripleFromSubject"
  BY <1>2, <1>3, <1>4 DEF Chosen, defined
<1>5. CASE name = "resolveVarTripleFromObject"
  BY <1>2, <1>3, <1>5 DEF Chosen, defined
<1>6. CASE name = "resolveVarTripleFromPredicate"
  <2>1. t.p \in Before(n)
    BY <1>3, <1>6 DEF Chosen
  <2>2. plan \in Seq(Term) /\ n \in DOMAIN plan /\ n - 1 \in 0 .. Len(plan) /\ (n - 1) + 1 = n
    BY <1>3 DEF PlanInv, TypeOK
  <2>3. QueryVars(SubSeq(plan, 1, n - 1)) = Before((n - 1) + 1)
    BY <2>2, BeforeAre
  <2>4. QueryVars(SubSeq(plan, 1, n - 1)) = Before(n)
    BY <2>2, <2>3
  <2> QED
    BY <1>3, <2>1, <2>2, <2>4 DEF NewPredicates
<1>7. CASE name = "resolveVarTripleAll"
  BY <1>3, <1>7 DEF Chosen
<1> QED
  BY <1>2, <1>4, <1>5, <1>6, <1>7

\* Neither the nil definitions of operators.go nor the unguarded slice of
\* hashRowWithPos are reached by a Rooted query whose predicates are new.
THEOREM AlwaysNothingPanics == EngineSpec => []NothingPanics
<1>0. NothingPanics <=> (Rooted /\ NewPredicates => run \notin {"panic", "scrambled"})
  BY DEF NothingPanics, NewPredicates
<1>1. EngineInit => NothingPanics
  BY DEF EngineInit, NothingPanics
<1>2. EngineInv /\ NothingPanics /\ [EngineNext]_engineVars => NothingPanics'
  <2> SUFFICES ASSUME EngineInv, NothingPanics, [EngineNext]_engineVars, Rooted', NewPredicates'
               PROVE  run' \notin {"panic", "scrambled"}
    BY DEF NothingPanics, NewPredicates
  <2>1. CASE Plans
    <3>1. pc # "planned" /\ run' = run
      BY <2>1 DEF Plans, Next, ChooseRoot, NoRoot, ChooseNext, Ordered, FormOperation, Planned
    <3> QED
      BY <3>1 DEF EngineInv, RunOK
  <2>2. CASE StartRun \/ Unknown \/ getResults
    BY <2>2 DEF StartRun, Unknown, getResults
  <2>3. ASSUME vars' = vars
        PROVE  Rooted /\ NewPredicates /\ PlanInv /\ RunOK /\ RowsOK
    <3>1. plan' = plan
      BY <2>3 DEF vars
    <3>2. Rooted /\ NewPredicates
      BY <3>1 DEF Rooted, NewPredicates
    <3> QED
      BY <3>2 DEF EngineInv
  <2>4. CASE RunOperation
    <3>1. vars' = vars
      BY <2>4, OperationRuns DEF EngineInv
    <3>2. Rooted /\ PlanInv /\ RunOK /\ RowsOK
      BY <2>3, <3>1
    <3>3. ~ resolveVarTripleAll
      BY <3>2, NotChosen
    <3>4. Done /\ \E name, t : Running(name, t)
      BY <2>4, <3>3 DEF RunOperation, resolveSubject, resolveObject, resolvePredicate,
           restrictSubjectObjectByPredicate, resolveSubjectFromVarObject,
           resolveObjectFromVarSubject, resolveSubjectObjectFromPred,
           resolveSubjectPredFromObject, resolvePredObjectFromSubject,
           resolveVarTripleFromSubject, resolveVarTripleFromObject, VarTripleFrom,
           resolveVarTripleFromPredicate
    <3> QED
      BY <3>4 DEF Done, Running
  <2>5. CASE Panics
    <3>1. vars' = vars
      BY <2>5 DEF Panics
    <3> QED
      BY <2>3, <2>5, <3>1, NoPanic
  <2>6. CASE ShortRow
    <3>1. vars' = vars /\ run = "running" /\ ran = Len(operations)
          /\ \E r \in rows : ~ QueryVars(query) \subseteq Bound(r)
      BY <2>6 DEF ShortRow
    <3> QED
      BY <2>3, <3>1, AllVariables DEF RowsOK, RowsBound
  <2>7. CASE UNCHANGED engineVars
    <3>1. vars' = vars /\ run' = run
      BY <2>7 DEF engineVars
    <3> QED
      BY <2>3, <3>1, <1>0
  <2> QED
    BY <2>1, <2>2, <2>4, <2>5, <2>6, <2>7 DEF EngineNext
<1> QED
  BY <1>1, <1>2, EngineInvariant, PTL DEF EngineSpec

\* No solution is missing from what getResults returns, even when terms close a
\* cycle and join overwrites values.
THEOREM AlwaysNothingMissed == EngineSpec => []NothingMissed
<1>1. EngineInv => NothingMissed
  BY DEF EngineInv, AnswerOK, NothingMissed
<1> QED
  BY <1>1, EngineInvariant, PTL

\* A query whose variables form a tree is answered with its solutions, no more and
\* no fewer, by the operations and joins the planner chose.
THEOREM AlwaysTreesAnswered == EngineSpec => []TreesAnswered
<1>1. EngineInv => TreesAnswered
  BY DEF EngineInv, AnswerOK, TreesAnswered
<1> QED
  BY <1>1, EngineInvariant, PTL
=============================================================================
