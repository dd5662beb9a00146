--------------------------- MODULE QueryParserProofs ---------------------------
(***************************************************************************)
(* Proofs about QueryParser, for every kind of text, of any length, and    *)
(* any number of texts parsed one after the other.  What they use of the   *)
(* two generated tables is TablesAssumption, which TLC evaluates on the    *)
(* tables in full.                                                         *)
(***************************************************************************)
EXTENDS QueryParser, TLAPS, SequenceTheorems, WellFoundedInduction

-----------------------------------------------------------------------------
(* Induction over the naturals, and what FlattenSeq computes.              *)

\* A set of naturals that holds 0 and every successor holds them all.
LEMMA SetInduction ==
    ASSUME NEW T, 0 \in T, \A n \in Nat : n \in T => n + 1 \in T
    PROVE  \A n \in Nat : n \in T
<1> DEFINE R == OpToRel(<, Nat)
<1> DEFINE B == Nat \ T
<1>1. IsWellFoundedOn(R, Nat)
  BY NatLessThanWellFounded
<1>2. \A i, j \in Nat : i < j => <<i, j>> \in R
  BY DEF OpToRel
<1> HIDE DEF R
<1>3. SUFFICES ASSUME B # {} PROVE FALSE
  OBVIOUS
<1>4. B \subseteq Nat
  OBVIOUS
<1> HIDE DEF B
<1>5. PICK x \in B : \A y \in B : ~ (<<y, x>> \in R)
  BY <1>1, <1>3, <1>4, WFMin
<1> USE DEF B
<1>6. x \in Nat /\ x \notin T /\ x # 0
  BY <1>5
<1>7. x - 1 \in Nat /\ x - 1 < x
  BY <1>6
<1>8. <<x - 1, x>> \in R
  BY <1>2, <1>6, <1>7
<1>9. x - 1 \notin B
  BY <1>5, <1>8
<1>10. x - 1 \in T
  BY <1>7, <1>9
<1>11. (x - 1) + 1 = x
  BY <1>6
<1> QED
  BY <1>6, <1>7, <1>10, <1>11

\* The function FlattenSeq chooses.
IsFlat(f, s) == f = [i \in 1 .. Len(s) |-> IF i = 1 THEN s[i] ELSE f[i - 1] \o s[i]]

\* What that function is at each index.
LEMMA FlatAt ==
    ASSUME NEW f, NEW s, Len(s) \in Nat
    PROVE  IsFlat(f, s) <=>
             /\ f = [i \in 1 .. Len(s) |-> f[i]]
             /\ \A i \in 1 .. Len(s) : f[i] = IF i = 1 THEN s[i] ELSE f[i - 1] \o s[i]
<1> DEFINE e(i) == IF i = 1 THEN s[i] ELSE f[i - 1] \o s[i]
<1> HIDE DEF e
<1>1. f = [i \in 1 .. Len(s) |-> e(i)] <=>
        f = [i \in 1 .. Len(s) |-> f[i]] /\ \A i \in 1 .. Len(s) : f[i] = e(i)
  OBVIOUS
<1> USE DEF e
<1> QED
  BY <1>1 DEF IsFlat

\* There is such a function, and its values are sequences.
LEMMA FlatExists ==
    ASSUME NEW S, NEW s \in Seq(Seq(S))
    PROVE  \E f \in [1 .. Len(s) -> Seq(S)] : IsFlat(f, s)
<1> DEFINE Upto(f, n) == \A i \in 1 .. n : f[i] = IF i = 1 THEN s[i] ELSE f[i - 1] \o s[i]
<1> DEFINE Q(n) == n <= Len(s) => \E f \in [1 .. n -> Seq(S)] : Upto(f, n)
<1>1. Q(0)
  <2>1. [i \in 1 .. 0 |-> <<>>] \in [1 .. 0 -> Seq(S)]
    OBVIOUS
  <2>2. \A f : Upto(f, 0)
    OBVIOUS
  <2> HIDE DEF Upto
  <2> QED
    BY <2>1, <2>2
<1>2. ASSUME NEW n \in Nat, Q(n)
      PROVE  Q(n + 1)
  <2> SUFFICES ASSUME n + 1 <= Len(s)
               PROVE  \E f \in [1 .. n + 1 -> Seq(S)] : Upto(f, n + 1)
    OBVIOUS
  <2>1. n <= Len(s) /\ n + 1 \in 1 .. Len(s) /\ Len(s) \in Nat
    BY LenProperties
  <2>2. PICK f \in [1 .. n -> Seq(S)] : Upto(f, n)
    BY <1>2, <2>1
  <2> DEFINE g == [i \in 1 .. n + 1 |->
                     IF i <= n THEN f[i] ELSE IF n = 0 THEN s[i] ELSE f[n] \o s[i]]
  <2>3. s[n + 1] \in Seq(S)
    BY <2>1, ElementOfSeq
  <2>4. n # 0 => f[n] \o s[n + 1] \in Seq(S)
    BY <2>3, ConcatProperties
  <2>5. g \in [1 .. n + 1 -> Seq(S)]
    <3>1. ASSUME NEW i \in 1 .. n + 1
          PROVE  g[i] \in Seq(S)
      BY <2>3, <2>4
    <3> QED
      BY <3>1
  <2>6. Upto(g, n + 1)
    <3>1. ASSUME NEW i \in 1 .. n + 1
          PROVE  g[i] = IF i = 1 THEN s[i] ELSE g[i - 1] \o s[i]
      <4>1. CASE i <= n
        <5>1. g[i] = f[i] /\ (i # 1 => g[i - 1] = f[i - 1])
          BY <4>1
        <5>2. f[i] = IF i = 1 THEN s[i] ELSE f[i - 1] \o s[i]
          <6>1. i \in 1 .. n
            BY <4>1
          <6> QED
            BY <2>2, <6>1
        <5> QED
          BY <5>1, <5>2
      <4>2. CASE i = n + 1
        <5>1. n # 0 => g[n] = f[n]
          OBVIOUS
        <5> QED
          BY <4>2, <5>1
      <4> QED
        BY <4>1, <4>2
    <3> QED
      BY <3>1
  <2> QED
    BY <2>5, <2>6
<1>3. \A n \in Nat : Q(n)
  <2> DEFINE T == {n \in Nat : Q(n)}
  <2> HIDE DEF Q
  <2>1. 0 \in T /\ \A n \in Nat : n \in T => n + 1 \in T
    BY <1>1, <1>2
  <2>2. \A n \in Nat : n \in T
    <3> HIDE DEF T
    <3> QED
      BY <2>1, SetInduction
  <2> QED
    BY <2>2
<1>4. Q(Len(s)) /\ Len(s) \in Nat
  <2> HIDE DEF Q
  <2> QED
    BY <1>3, LenProperties
<1>5. PICK f \in [1 .. Len(s) -> Seq(S)] : Upto(f, Len(s))
  BY <1>4
<1>6. f = [i \in 1 .. Len(s) |-> f[i]]
  OBVIOUS
<1>7. IsFlat(f, s)
  BY <1>4, <1>5, <1>6, FlatAt
<1> QED
  BY <1>7

\* It is the same function for a sequence and a continuation of it.
LEMMA FlatAgree ==
    ASSUME NEW s, NEW t, Len(s) \in Nat, Len(t) \in Nat,
           Len(s) <= Len(t), \A i \in 1 .. Len(s) : s[i] = t[i],
           NEW f, NEW g, IsFlat(f, s), IsFlat(g, t)
    PROVE  \A n \in 1 .. Len(s) : f[n] = g[n]
<1> DEFINE Q(n) == n \in 1 .. Len(s) => f[n] = g[n]
<1>1. Q(0)
  OBVIOUS
<1>2. ASSUME NEW n \in Nat, Q(n)
      PROVE  Q(n + 1)
  <2> SUFFICES ASSUME n + 1 \in 1 .. Len(s)
               PROVE  f[n + 1] = g[n + 1]
    OBVIOUS
  <2>1. f[n + 1] = IF n + 1 = 1 THEN s[n + 1] ELSE f[(n + 1) - 1] \o s[n + 1]
    BY FlatAt
  <2>2. g[n + 1] = IF n + 1 = 1 THEN t[n + 1] ELSE g[(n + 1) - 1] \o t[n + 1]
    BY FlatAt
  <2>3. n + 1 # 1 => f[(n + 1) - 1] = g[(n + 1) - 1]
    BY <1>2
  <2>4. s[n + 1] = t[n + 1]
    OBVIOUS
  <2> QED
    BY <2>1, <2>2, <2>3, <2>4
<1>3. \A n \in Nat : Q(n)
  <2> DEFINE T == {n \in Nat : Q(n)}
  <2> HIDE DEF Q
  <2>1. 0 \in T /\ \A n \in Nat : n \in T => n + 1 \in T
    BY <1>1, <1>2
  <2>2. \A n \in Nat : n \in T
    <3> HIDE DEF T
    <3> QED
      BY <2>1, SetInduction
  <2> QED
    BY <2>2
<1> QED
  BY <1>3

\* FlattenSeq is that function's last value.
LEMMA FlattenLast ==
    ASSUME NEW S, NEW s \in Seq(Seq(S)), s # <<>>
    PROVE  \E f \in [1 .. Len(s) -> Seq(S)] : IsFlat(f, s) /\ FlattenSeq(s) = f[Len(s)]
<1> DEFINE F == CHOOSE f : IsFlat(f, s)
<1>1. PICK f \in [1 .. Len(s) -> Seq(S)] : IsFlat(f, s)
  BY FlatExists
<1>2. IsFlat(F, s)
  BY <1>1
<1>3. Len(s) \in Nat /\ Len(s) # 0
  BY EmptySeq, LenProperties
<1>4. FlattenSeq(s) = F[Len(s)]
  BY <1>3 DEF FlattenSeq, IsFlat
<1> HIDE DEF F
<1>5. \A n \in 1 .. Len(s) : F[n] = f[n]
  BY <1>1, <1>2, <1>3, FlatAgree
<1>6. Len(s) \in 1 .. Len(s)
  BY <1>3
<1>7. F[Len(s)] = f[Len(s)]
  BY <1>5, <1>6
<1> QED
  BY <1>1, <1>4, <1>7

\* Flattening gives a sequence of the same elements.
LEMMA FlattenType ==
    ASSUME NEW S, NEW s \in Seq(Seq(S))
    PROVE  FlattenSeq(s) \in Seq(S)
<1>1. CASE s = <<>>
  BY <1>1, EmptySeq DEF FlattenSeq
<1>2. CASE s # <<>>
  <2>1. PICK f \in [1 .. Len(s) -> Seq(S)] : FlattenSeq(s) = f[Len(s)]
    BY <1>2, FlattenLast
  <2>2. Len(s) \in 1 .. Len(s)
    BY <1>2, EmptySeq
  <2> QED
    BY <2>1, <2>2
<1> QED
  BY <1>1, <1>2

\* A sequence more at the end is what the flattened sequence goes on with.
LEMMA FlattenAppend ==
    ASSUME NEW S, NEW s \in Seq(Seq(S)), NEW x \in Seq(S)
    PROVE  FlattenSeq(Append(s, x)) = FlattenSeq(s) \o x
<1> DEFINE t == Append(s, x)
<1>1. /\ t \in Seq(Seq(S)) /\ t # <<>> /\ Len(t) = Len(s) + 1
      /\ \A i \in 1 .. Len(s) : t[i] = s[i]
      /\ t[Len(s) + 1] = x /\ Len(s) \in Nat
  BY AppendProperties, LenProperties
<1> HIDE DEF t
<1>2. PICK f \in [1 .. Len(t) -> Seq(S)] : IsFlat(f, t) /\ FlattenSeq(t) = f[Len(t)]
  BY <1>1, FlattenLast
<1>3. f[Len(s) + 1] = IF Len(s) + 1 = 1 THEN x ELSE f[Len(s)] \o x
  <2>1. f[Len(s) + 1] = IF Len(s) + 1 = 1 THEN t[Len(s) + 1] ELSE f[(Len(s) + 1) - 1] \o t[Len(s) + 1]
    <3>1. Len(t) \in Nat /\ Len(s) + 1 \in 1 .. Len(t)
      BY <1>1
    <3>2. \A i \in 1 .. Len(t) : f[i] = IF i = 1 THEN t[i] ELSE f[i - 1] \o t[i]
      BY <1>2, <3>1, FlatAt
    <3> QED
      BY <3>1, <3>2
  <2> QED
    BY <1>1, <2>1
<1>4. CASE s = <<>>
  <2>1. FlattenSeq(s) = <<>> /\ Len(s) = 0
    BY <1>4 DEF FlattenSeq
  <2>2. FlattenSeq(t) = x
    BY <1>1, <1>2, <1>3, <2>1
  <2> QED
    BY <2>1, <2>2, ConcatEmptySeq DEF t
<1>5. CASE s # <<>>
  <2>1. Len(s) # 0
    BY <1>5, EmptySeq
  <2>2. PICK g \in [1 .. Len(s) -> Seq(S)] : IsFlat(g, s) /\ FlattenSeq(s) = g[Len(s)]
    BY <1>5, FlattenLast
  <2>3. \A n \in 1 .. Len(s) : g[n] = f[n]
    <3>1. Len(s) <= Len(t) /\ Len(s) \in Nat /\ Len(t) \in Nat
      BY <1>1
    <3>2. \A i \in 1 .. Len(s) : s[i] = t[i]
      BY <1>1
    <3> QED
      BY <1>2, <2>2, <3>1, <3>2, FlatAgree
  <2>4. Len(s) \in 1 .. Len(s)
    BY <1>1, <2>1
  <2>5. FlattenSeq(s) = f[Len(s)]
    BY <2>2, <2>3, <2>4
  <2>6. FlattenSeq(t) = f[Len(s)] \o x
    BY <1>1, <1>2, <1>3, <2>1
  <2> QED
    BY <2>5, <2>6 DEF t
<1> QED
  BY <1>4, <1>5

\* Flattening one, two or three sequences.
LEMMA FlattenFew ==
    ASSUME NEW S, NEW a \in Seq(S), NEW b \in Seq(S), NEW c \in Seq(S)
    PROVE  /\ FlattenSeq(<<>>) = <<>>
           /\ FlattenSeq(<<a>>) = a
           /\ FlattenSeq(<<a, b>>) = a \o b
           /\ FlattenSeq(<<a, b, c>>) = (a \o b) \o c
<1>1. FlattenSeq(<<>>) = <<>>
  BY DEF FlattenSeq
<1>2. <<>> \in Seq(Seq(S)) /\ <<a>> \in Seq(Seq(S)) /\ <<a, b>> \in Seq(Seq(S))
  OBVIOUS
<1>3. /\ <<a>> = Append(<<>>, a)
      /\ <<a, b>> = Append(<<a>>, b)
      /\ <<a, b, c>> = Append(<<a, b>>, c)
  <2>1. <<a>> = Append(<<>>, a)
    OBVIOUS
  <2>2. <<a, b>> = Append(<<a>>, b)
    OBVIOUS
  <2>3. <<a, b, c>> = Append(<<a, b>>, c)
    OBVIOUS
  <2> QED
    BY <2>1, <2>2, <2>3
<1>4. FlattenSeq(<<a>>) = a
  <2>1. FlattenSeq(Append(<<>>, a)) = FlattenSeq(<<>>) \o a
    BY <1>2, FlattenAppend
  <2>2. <<>> \o a = a
    BY ConcatEmptySeq
  <2> QED
    BY <1>1, <1>3, <2>1, <2>2
<1>5. FlattenSeq(<<a, b>>) = a \o b
  BY <1>2, <1>3, <1>4, FlattenAppend
<1>6. FlattenSeq(<<a, b, c>>) = (a \o b) \o c
  BY <1>2, <1>3, <1>5, FlattenAppend
<1> QED
  BY <1>1, <1>4, <1>5, <1>6

\* Concatenation may be regrouped.
Regroups(S) == \A a, b, c \in Seq(S) : (a \o b) \o c = a \o (b \o c)

\* In every set of sequences.
LEMMA ConcatRegroups == \A S : Regroups(S)
BY ConcatAssociative DEF Regroups

\* An element more at the end of two sequences makes one more at the end of both.
Appends(S) ==
    \A a, b \in Seq(S), x \in S : a \o b \in Seq(S) /\ a \o Append(b, x) = Append(a \o b, x)

\* In every set of sequences.
LEMMA ConcatAppends == \A S : Appends(S)
<1> SUFFICES ASSUME NEW S, NEW a \in Seq(S), NEW b \in Seq(S), NEW x \in S
             PROVE  a \o b \in Seq(S) /\ a \o Append(b, x) = Append(a \o b, x)
  BY DEF Appends
<1>1. a \o b \in Seq(S)
  BY ConcatProperties
<1> DEFINE y == <<x>>
<1>2. y \in Seq(S)
  OBVIOUS
<1>3. Append(b, x) = b \o y /\ Append(a \o b, x) = (a \o b) \o y
  BY <1>1, AppendIsConcat
<1> HIDE DEF y
<1>4. (a \o b) \o y = a \o (b \o y)
  BY <1>2, ConcatAssociative
<1> QED
  BY <1>1, <1>3, <1>4

\* Flattening in two parts.
LEMMA FlattenConcat ==
    ASSUME NEW S, NEW s \in Seq(Seq(S)), NEW t \in Seq(Seq(S))
    PROVE  FlattenSeq(s \o t) = FlattenSeq(s) \o FlattenSeq(t)
<1> DEFINE P(r) == FlattenSeq(s \o r) = FlattenSeq(s) \o FlattenSeq(r)
<1> DEFINE Q(n) == \A r \in Seq(Seq(S)) : Len(r) = n => P(r)
<1>0. FlattenSeq(s) \in Seq(S)
  BY FlattenType
<1>1. Q(0)
  <2> SUFFICES ASSUME NEW r \in Seq(Seq(S)), Len(r) = 0
               PROVE  P(r)
    OBVIOUS
  <2>1. r = <<>>
    BY EmptySeq
  <2>2. FlattenSeq(r) = <<>>
    BY <2>1 DEF FlattenSeq
  <2> QED
    BY <1>0, <2>1, <2>2, ConcatEmptySeq
<1>2. ASSUME NEW n \in Nat, Q(n)
      PROVE  Q(n + 1)
  <2> SUFFICES ASSUME NEW r \in Seq(Seq(S)), r # <<>>, Len(r) - 1 = n
               PROVE  P(r)
    BY EmptySeq
  <2>1. PICK q \in Seq(Seq(S)), x \in Seq(S) : r = Append(q, x)
    <3>1. r # <<>>
      OBVIOUS
    <3> QED
      BY <3>1, SequenceEmptyOrAppend
  <2>2. Len(q) = n
    BY <2>1, AppendProperties, LenProperties
  <2>3. P(q)
    BY <1>2, <2>2
  <2>4. FlattenSeq(r) = FlattenSeq(q) \o x /\ FlattenSeq(q) \in Seq(S)
    BY <2>1, FlattenAppend, FlattenType
  <2>5. s \o q \in Seq(Seq(S)) /\ s \o r = Append(s \o q, x)
    <3> DEFINE T == Seq(S)
    <3>1. s \in Seq(T) /\ q \in Seq(T) /\ x \in T
      BY <2>1
    <3> HIDE DEF T
    <3>2. s \o q \in Seq(T) /\ s \o Append(q, x) = Append(s \o q, x)
      <4>1. Appends(T)
        BY ConcatAppends, Zenon
      <4> QED
        BY <3>1, <4>1, Zenon DEF Appends
    <3> QED
      BY <2>1, <3>2 DEF T
  <2>6. FlattenSeq(s \o r) = FlattenSeq(s \o q) \o x
    BY <2>5, FlattenAppend
  <2> HIDE DEF P, Q
  <2>7. (FlattenSeq(s) \o FlattenSeq(q)) \o x = FlattenSeq(s) \o (FlattenSeq(q) \o x)
    <3>1. Regroups(S)
      BY ConcatRegroups, Zenon
    <3> QED
      BY <1>0, <2>1, <2>4, <3>1, Zenon DEF Regroups
  <2>8. FlattenSeq(s \o q) = FlattenSeq(s) \o FlattenSeq(q)
    BY <2>3 DEF P
  <2> QED
    BY <2>4, <2>6, <2>7, <2>8 DEF P
<1>3. \A n \in Nat : Q(n)
  <2> DEFINE T == {n \in Nat : Q(n)}
  <2> HIDE DEF Q
  <2>1. 0 \in T /\ \A n \in Nat : n \in T => n + 1 \in T
    BY <1>1, <1>2
  <2>2. \A n \in Nat : n \in T
    <3> HIDE DEF T
    <3> QED
      BY <2>1, SetInduction
  <2> QED
    BY <2>2
<1>4. Q(Len(t))
  <2> HIDE DEF Q
  <2> QED
    BY <1>3, LenProperties
<1> QED
  BY <1>4

-----------------------------------------------------------------------------
(* The productions.                                                        *)

\* A sequence of whatever it holds.
IsSeq(s) == s \in Seq(ToSet(s))

\* A sequence over some set is one.
LEMMA SeqIsSeq ==
    ASSUME NEW S, NEW s \in Seq(S)
    PROVE  /\ IsSeq(s) /\ Len(s) \in Nat /\ DOMAIN s = 1 .. Len(s)
           /\ s = [i \in 1 .. Len(s) |-> s[i]]
<1>1. /\ Len(s) \in Nat /\ DOMAIN s = 1 .. Len(s)
      /\ s = [i \in 1 .. Len(s) |-> s[i]]
  BY LenProperties
<1>2. \A i \in 1 .. Len(s) : s[i] \in ToSet(s)
  BY <1>1 DEF ToSet
<1>3. s \in Seq(ToSet(s))
  BY <1>1, <1>2
<1> QED
  BY <1>1, <1>3 DEF IsSeq

\* A function on 1 .. n is one.
LEMMA TupleIsSeq ==
    ASSUME NEW n \in Nat, NEW f, f = [i \in 1 .. n |-> f[i]]
    PROVE  IsSeq(f) /\ Len(f) = n
<1>1. DOMAIN f = 1 .. n
  OBVIOUS
<1>2. \A i \in 1 .. n : f[i] \in ToSet(f)
  BY <1>1 DEF ToSet
<1>3. f \in [1 .. n -> ToSet(f)]
  BY <1>2
<1>4. f \in Seq(ToSet(f))
  BY <1>3
<1> QED
  BY <1>1, <1>4, LenProperties DEF IsSeq

\* The six parts of the table.
LEMMA BlockTypes ==
    /\ IsSeq(QueryProductions) /\ Len(QueryProductions) = 10
    /\ IsSeq(ClauseProductions) /\ Len(ClauseProductions) = 14
    /\ IsSeq(WhereProductions) /\ Len(WhereProductions) = 9
    /\ IsSeq(TermProductions) /\ Len(TermProductions) = 8
    /\ IsSeq(PathProductions) /\ Len(PathProductions) = 11
    /\ IsSeq(GroupProductions) /\ Len(GroupProductions) = 12
<1>1. QueryProductions = [i \in 1 .. 10 |-> QueryProductions[i]]
  BY DEF QueryProductions
<1>2. ClauseProductions = [i \in 1 .. 14 |-> ClauseProductions[i]]
  BY DEF ClauseProductions
<1>3. WhereProductions = [i \in 1 .. 9 |-> WhereProductions[i]]
  BY DEF WhereProductions
<1>4. TermProductions = [i \in 1 .. 8 |-> TermProductions[i]]
  BY DEF TermProductions
<1>5. PathProductions = [i \in 1 .. 11 |-> PathProductions[i]]
  BY DEF PathProductions
<1>6. GroupProductions = [i \in 1 .. 12 |-> GroupProductions[i]]
  BY DEF GroupProductions
<1> QED
  BY <1>1, <1>2, <1>3, <1>4, <1>5, <1>6, TupleIsSeq

\* An element of the first or of the second of two sequences, by its place in both.
LEMMA ConcatAt ==
    ASSUME NEW s, NEW t, IsSeq(s), IsSeq(t)
    PROVE  /\ IsSeq(s \o t) /\ Len(s \o t) = Len(s) + Len(t)
           /\ \A i \in 1 .. Len(s) : (s \o t)[i] = s[i]
           /\ \A i \in 1 .. Len(t) : (s \o t)[Len(s) + i] = t[i]
<1> DEFINE S == ToSet(s) \cup ToSet(t)
<1>1. s \in Seq(S) /\ t \in Seq(S)
  BY SeqMonotonic DEF IsSeq
<1> HIDE DEF S
<1>2. Len(s) \in Nat /\ Len(t) \in Nat
  BY <1>1, LenProperties
<1>3. s \o t \in Seq(S) /\ Len(s \o t) = Len(s) + Len(t)
  BY <1>1, ConcatProperties
<1>4. IsSeq(s \o t)
  BY <1>3, SeqIsSeq
<1>5. \A i \in 1 .. Len(s) + Len(t) : (s \o t)[i] = IF i <= Len(s) THEN s[i] ELSE t[i - Len(s)]
  BY <1>1, ConcatProperties
<1> QED
  BY <1>2, <1>3, <1>4, <1>5

\* Where each part of the table lies.
LEMMA TableRows ==
    /\ Productions = 0 .. 63
    /\ \A i \in 1 .. 10 : productionsTable[i - 1] = QueryProductions[i]
    /\ \A i \in 1 .. 14 : productionsTable[9 + i] = ClauseProductions[i]
    /\ \A i \in 1 .. 9  : productionsTable[23 + i] = WhereProductions[i]
    /\ \A i \in 1 .. 8  : productionsTable[32 + i] = TermProductions[i]
    /\ \A i \in 1 .. 11 : productionsTable[40 + i] = PathProductions[i]
    /\ \A i \in 1 .. 12 : productionsTable[51 + i] = GroupProductions[i]
<1> DEFINE B1 == QueryProductions \o ClauseProductions
           B2 == B1 \o WhereProductions
           B3 == B2 \o TermProductions
           B4 == B3 \o PathProductions
           B5 == B4 \o GroupProductions
<1>1. /\ IsSeq(B1) /\ Len(B1) = 24
      /\ \A i \in 1 .. 10 : B1[i] = QueryProductions[i]
      /\ \A i \in 1 .. 14 : B1[10 + i] = ClauseProductions[i]
  <2>1. IsSeq(QueryProductions) /\ IsSeq(ClauseProductions)
    BY BlockTypes
  <2>2. Len(QueryProductions) = 10 /\ Len(ClauseProductions) = 14
    BY BlockTypes
  <2>3. /\ IsSeq(QueryProductions \o ClauseProductions) /\ Len(QueryProductions \o ClauseProductions) = Len(QueryProductions) + Len(ClauseProductions)
        /\ \A i \in 1 .. Len(QueryProductions) : (QueryProductions \o ClauseProductions)[i] = QueryProductions[i]
        /\ \A i \in 1 .. Len(ClauseProductions) : (QueryProductions \o ClauseProductions)[Len(QueryProductions) + i] = ClauseProductions[i]
    BY <2>1, ConcatAt
  <2>4. Len(QueryProductions \o ClauseProductions) = 24
    BY <2>2, <2>3
  <2>5. \A i \in 1 .. 10 : (QueryProductions \o ClauseProductions)[i] = QueryProductions[i]
    BY <2>2, <2>3
  <2>6. \A i \in 1 .. 14 : (QueryProductions \o ClauseProductions)[10 + i] = ClauseProductions[i]
    BY <2>2, <2>3
  <2> QED
    BY <2>3, <2>4, <2>5, <2>6
<1> HIDE DEF B1
<1>2. /\ IsSeq(B2) /\ Len(B2) = 33
      /\ \A i \in 1 .. 24 : B2[i] = B1[i]
      /\ \A i \in 1 .. 9 : B2[24 + i] = WhereProductions[i]
  <2>1. IsSeq(B1) /\ IsSeq(WhereProductions)
    BY <1>1, BlockTypes
  <2>2. Len(B1) = 24 /\ Len(WhereProductions) = 9
    BY <1>1, BlockTypes
  <2>3. /\ IsSeq(B1 \o WhereProductions) /\ Len(B1 \o WhereProductions) = Len(B1) + Len(WhereProductions)
        /\ \A i \in 1 .. Len(B1) : (B1 \o WhereProductions)[i] = B1[i]
        /\ \A i \in 1 .. Len(WhereProductions) : (B1 \o WhereProductions)[Len(B1) + i] = WhereProductions[i]
    BY <2>1, ConcatAt
  <2>4. Len(B1 \o WhereProductions) = 33
    BY <2>2, <2>3
  <2>5. \A i \in 1 .. 24 : (B1 \o WhereProductions)[i] = B1[i]
    BY <2>2, <2>3
  <2>6. \A i \in 1 .. 9 : (B1 \o WhereProductions)[24 + i] = WhereProductions[i]
    BY <2>2, <2>3
  <2> QED
    BY <2>3, <2>4, <2>5, <2>6
<1> HIDE DEF B2
<1>3. /\ IsSeq(B3) /\ Len(B3) = 41
      /\ \A i \in 1 .. 33 : B3[i] = B2[i]
      /\ \A i \in 1 .. 8 : B3[33 + i] = TermProductions[i]
  <2>1. IsSeq(B2) /\ IsSeq(TermProductions)
    BY <1>2, BlockTypes
  <2>2. Len(B2) = 33 /\ Len(TermProductions) = 8
    BY <1>2, BlockTypes
  <2>3. /\ IsSeq(B2 \o TermProductions) /\ Len(B2 \o TermProductions) = Len(B2) + Len(TermProductions)
        /\ \A i \in 1 .. Len(B2) : (B2 \o TermProductions)[i] = B2[i]
        /\ \A i \in 1 .. Len(TermProductions) : (B2 \o TermProductions)[Len(B2) + i] = TermProductions[i]
    BY <2>1, ConcatAt
  <2>4. Len(B2 \o TermProductions) = 41
    BY <2>2, <2>3
  <2>5. \A i \in 1 .. 33 : (B2 \o TermProductions)[i] = B2[i]
    BY <2>2, <2>3
  <2>6. \A i \in 1 .. 8 : (B2 \o TermProductions)[33 + i] = TermProductions[i]
    BY <2>2, <2>3
  <2> QED
    BY <2>3, <2>4, <2>5, <2>6
<1> HIDE DEF B3
<1>4. /\ IsSeq(B4) /\ Len(B4) = 52
      /\ \A i \in 1 .. 41 : B4[i] = B3[i]
      /\ \A i \in 1 .. 11 : B4[41 + i] = PathProductions[i]
  <2>1. IsSeq(B3) /\ IsSeq(PathProductions)
    BY <1>3, BlockTypes
  <2>2. Len(B3) = 41 /\ Len(PathProductions) = 11
    BY <1>3, BlockTypes
  <2>3. /\ IsSeq(B3 \o PathProductions) /\ Len(B3 \o PathProductions) = Len(B3) + Len(PathProductions)
        /\ \A i \in 1 .. Len(B3) : (B3 \o PathProductions)[i] = B3[i]
        /\ \A i \in 1 .. Len(PathProductions) : (B3 \o PathProductions)[Len(B3) + i] = PathProductions[i]
    BY <2>1, ConcatAt
  <2>4. Len(B3 \o PathProductions) = 52
    BY <2>2, <2>3
  <2>5. \A i \in 1 .. 41 : (B3 \o PathProductions)[i] = B3[i]
    BY <2>2, <2>3
  <2>6. \A i \in 1 .. 11 : (B3 \o PathProductions)[41 + i] = PathProductions[i]
    BY <2>2, <2>3
  <2> QED
    BY <2>3, <2>4, <2>5, <2>6
<1> HIDE DEF B4
<1>5. /\ IsSeq(B5) /\ Len(B5) = 64
      /\ \A i \in 1 .. 52 : B5[i] = B4[i]
      /\ \A i \in 1 .. 12 : B5[52 + i] = GroupProductions[i]
  <2>1. IsSeq(B4) /\ IsSeq(GroupProductions)
    BY <1>4, BlockTypes
  <2>2. Len(B4) = 52 /\ Len(GroupProductions) = 12
    BY <1>4, BlockTypes
  <2>3. /\ IsSeq(B4 \o GroupProductions) /\ Len(B4 \o GroupProductions) = Len(B4) + Len(GroupProductions)
        /\ \A i \in 1 .. Len(B4) : (B4 \o GroupProductions)[i] = B4[i]
        /\ \A i \in 1 .. Len(GroupProductions) : (B4 \o GroupProductions)[Len(B4) + i] = GroupProductions[i]
    BY <2>1, ConcatAt
  <2>4. Len(B4 \o GroupProductions) = 64
    BY <2>2, <2>3
  <2>5. \A i \in 1 .. 52 : (B4 \o GroupProductions)[i] = B4[i]
    BY <2>2, <2>3
  <2>6. \A i \in 1 .. 12 : (B4 \o GroupProductions)[52 + i] = GroupProductions[i]
    BY <2>2, <2>3
  <2> QED
    BY <2>3, <2>4, <2>5, <2>6
<1>6. productionRows = B5
  BY DEF productionRows, B1, B2, B3, B4
<1> HIDE DEF B5
<1>7. Productions = 0 .. 63 /\ \A p \in Productions : productionsTable[p] = B5[p + 1]
  <2>1. Productions = 0 .. 63
    <3>1. Len(productionRows) = 64
      BY <1>5, <1>6
    <3> QED
      BY <3>1 DEF Productions
  <2>2. \A p \in Productions : productionsTable[p] = productionRows[p + 1]
    BY DEF productionsTable
  <2> QED
    BY <1>6, <2>1, <2>2
<1>9. \A i \in 1 .. 10 : productionsTable[i - 1] = QueryProductions[i]
  BY <1>1, <1>2, <1>3, <1>4, <1>5, <1>7
<1>10. \A i \in 1 .. 14 : productionsTable[9 + i] = ClauseProductions[i]
  <2> TAKE i \in 1 .. 14
  <2>1. productionsTable[9 + i] = B5[10 + i]
    BY <1>7
  <2> QED
    BY <1>1, <1>2, <1>3, <1>4, <1>5, <2>1
<1>11. \A i \in 1 .. 9 : productionsTable[23 + i] = WhereProductions[i]
  <2> TAKE i \in 1 .. 9
  <2>1. productionsTable[23 + i] = B5[24 + i]
    BY <1>7
  <2> QED
    BY <1>2, <1>3, <1>4, <1>5, <2>1
<1>12. \A i \in 1 .. 8 : productionsTable[32 + i] = TermProductions[i]
  <2> TAKE i \in 1 .. 8
  <2>1. productionsTable[32 + i] = B5[33 + i]
    BY <1>7
  <2> QED
    BY <1>3, <1>4, <1>5, <2>1
<1>13. \A i \in 1 .. 11 : productionsTable[40 + i] = PathProductions[i]
  <2> TAKE i \in 1 .. 11
  <2>1. productionsTable[40 + i] = B5[41 + i]
    BY <1>7
  <2> QED
    BY <1>4, <1>5, <2>1
<1>14. \A i \in 1 .. 12 : productionsTable[51 + i] = GroupProductions[i]
  <2> TAKE i \in 1 .. 12
  <2>1. productionsTable[51 + i] = B5[52 + i]
    BY <1>7
  <2> QED
    BY <1>5, <2>1
<1> QED
  BY <1>7, <1>9, <1>10, <1>11, <1>12, <1>13, <1>14

\* What the functions of lang/ast/query.go build: queries, clauses, groups and the rest.
LEMMA BuildQuery == \A x :
   /\ Build("NewQuery", x) = Val("Query", QueryOf("NewQuery", x))
   /\ Build("NewCountQuery", x) = Val("Query", QueryOf("NewCountQuery", x))
   /\ Build("NewQueryMulti", x) = Val("Query", QueryOf("NewQueryMulti", x))
   /\ Build("NewCountQueryMulti", x) = Val("Query", QueryOf("NewCountQueryMulti", x))
   /\ Build("NewInsertQuery", x) = Val("Query", QueryOf("NewInsertQuery", x))
   /\ Build("NewInsertQueryMulti", x) = Val("Query", QueryOf("NewInsertQueryMulti", x))
BY DEF Build, QueryCalls, ClauseCalls, GroupCalls

\* Clauses.
LEMMA BuildClause == \A x :
   /\ Build("NewAllSelectClause", x).t = "SelectClause"
   /\ Build("NewSelectClause", x).t = "SelectClause"
   /\ Build("NewInsertClause", x).t = "InsertClause"
   /\ Build("NewAllFromClause", x).t = "FromClause"
   /\ Build("NewFromClause", x).t = "FromClause"
   /\ Build("NewEmptyWhereClause", x) = Val("WhereClause", WhereClause(<<>>, <<>>))
   /\ Build("NewWhereClause", x) = Val("WhereClause", WhereClause(x[1], <<>>))
   /\ Build("NewWhereClauseWithGraphGroup", x) = Val("WhereClause", WhereClause(x[1], <<x[2]>>))
   /\ Build("NewWhereClauseGraphGroup", x) = Val("WhereClause", WhereClause(<<>>, <<x[1]>>))
BY DEF Build, QueryCalls, ClauseCalls, GroupCalls, ClauseOf, Val

\* Groups.
LEMMA BuildGroup == \A x :
   /\ Build("GraphGroupFromTriples", x) = Val("GraphGroup", GraphGroup(x[1], <<>>))
   /\ Build("GraphGroupUnion", x) = Val("GraphGroup", GraphGroupUnion(x[1], x[2]))
   /\ Build("AddTriplesToGraphGroup", x) = Val("GraphGroup", AddTriplesToGraphGroup(x[1], x[2]))
   /\ Build("MergeGraphGroups", x) = Val("GraphGroup", MergeGraphGroups(x[1], x[2]))
BY DEF Build, QueryCalls, ClauseCalls, GroupCalls, GroupOf

\* Terms, triples and paths.
LEMMA BuildTerm == \A x :
   /\ Build("ParseString", x) = Val("string", x[1]) /\ Build("ParseString", x).t = "string"
   /\ Build("ParseQuotedString", x) = Val("string", x[1])
   /\ Build("NewURI", x) = Val("URI", x[1])
   /\ Build("NewVarList", x).t = "[]string" /\ Build("NewStringList", x).t = "[]string"
   /\ Build("AppendVar", x).t = "[]string" /\ Build("AppendString", x).t = "[]string"
   /\ Build("NewTriple", x) = Val("Triple", Triple(x[1], x[2], x[3]))
   /\ Build("NewTripleBlock", x) = Val("[]Triple", <<x[1]>>)
   /\ Build("AppendTripleBlock", x) = Val("[]Triple", Append(x[1], x[2]))
   /\ Build("NewPathPattern", x) = Val("PathPattern", NewPathPattern(x[1]))
   /\ Build("AddPathMod", x) = Val("PathPattern", AddPathMod(x[1], x[2]))
   /\ Build("PathFromVar", x) = Val("[]PathPattern", PathFromVar(x[1]))
   /\ Build("NewPathSequence", x) = Val("[]PathPattern", <<x[1]>>)
   /\ Build("AppendPathSequence", x) = Val("[]PathPattern", Append(x[1], x[2]))
   /\ Build("PATTERN_ZERO_ONE", x) = Val("Pattern", "PATTERN_ZERO_ONE")
   /\ Build("PATTERN_ZERO_PLUS", x) = Val("Pattern", "PATTERN_ZERO_PLUS")
   /\ Build("PATTERN_ONE_PLUS", x) = Val("Pattern", "PATTERN_ONE_PLUS")
BY DEF Build, QueryCalls, ClauseCalls, GroupCalls, TermOf, Val

\* The Go types an attribute may have, by the grammar symbol it belongs to.  A path in
\* parentheses makes PathPrimary a sequence.
TypesOf(X) ==
    CASE X \in {"S'", "QueryUnit", "SelectQuery", "CountQuery", "UpdateQuery"} -> {"Query"}
      [] X \in {"SelectClause", "CountClause"} -> {"SelectClause"}
      [] X = "InsertClause"  -> {"InsertClause"}
      [] X = "DatasetClause" -> {"FromClause"}
      [] X = "WhereClause"   -> {"WhereClause"}
      [] X \in {"Varlist", "DBlist"} -> {"[]string"}
      [] X \in {"String", "Var", "GraphTerm"} -> {"string"}
      [] X = "VarOrTerm"     -> {"URI"}
      [] X = "TriplesBlock"  -> {"[]Triple"}
      [] X = "Triple"        -> {"Triple"}
      [] X \in {"Path", "PathSequence"} -> {"[]PathPattern"}
      [] X \in {"PathElt", "PathPrimary"} -> {"PathPattern", "[]PathPattern"}
      [] X = "PathMod"       -> {"Pattern"}
      [] X \in {"RestOfWhereList", "RestOfWhere", "GraphPatternNotTriples", "GroupGraphPattern",
                "GroupGraphPatternSub"} -> {"GraphGroup"}
      [] X = "Joiner"        -> {"Token", "nil"}
      [] OTHER               -> {"Token"}

\* The same, symbol by symbol.
LEMMA SymbolTypes ==
  /\ TypesOf("S'") = {"Query"}
  /\ TypesOf("QueryUnit") = {"Query"}
  /\ TypesOf("SelectQuery") = {"Query"}
  /\ TypesOf(";") = {"Token"}
  /\ TypesOf("CountQuery") = {"Query"}
  /\ TypesOf("UpdateQuery") = {"Query"}
  /\ TypesOf("SelectClause") = {"SelectClause"}
  /\ TypesOf("DatasetClause") = {"FromClause"}
  /\ TypesOf("WhereClause") = {"WhereClause"}
  /\ TypesOf("CountClause") = {"SelectClause"}
  /\ TypesOf("InsertClause") = {"InsertClause"}
  /\ TypesOf("SELECT") = {"Token"}
  /\ TypesOf("*") = {"Token"}
  /\ TypesOf("Varlist") = {"[]string"}
  /\ TypesOf("INSERT") = {"Token"}
  /\ TypesOf("{") = {"Token"}
  /\ TypesOf("TriplesBlock") = {"[]Triple"}
  /\ TypesOf("}") = {"Token"}
  /\ TypesOf(".") = {"Token"}
  /\ TypesOf("COUNT") = {"Token"}
  /\ TypesOf("Var") = {"string"}
  /\ TypesOf("DBlist") = {"[]string"}
  /\ TypesOf("String") = {"string"}
  /\ TypesOf("string") = {"Token"}
  /\ TypesOf("var") = {"Token"}
  /\ TypesOf("FROM") = {"Token"}
  /\ TypesOf("WHERE") = {"Token"}
  /\ TypesOf("RestOfWhereList") = {"GraphGroup"}
  /\ TypesOf("Triple") = {"Triple"}
  /\ TypesOf("VarOrTerm") = {"URI"}
  /\ TypesOf("Path") = {"[]PathPattern"}
  /\ TypesOf("GraphTerm") = {"string"}
  /\ TypesOf("uri") = {"Token"}
  /\ TypesOf("quotedstring") = {"Token"}
  /\ TypesOf("url") = {"Token"}
  /\ TypesOf("PathSequence") = {"[]PathPattern"}
  /\ TypesOf("|") = {"Token"}
  /\ TypesOf("PathElt") = {"PathPattern", "[]PathPattern"}
  /\ TypesOf("/") = {"Token"}
  /\ TypesOf("PathPrimary") = {"PathPattern", "[]PathPattern"}
  /\ TypesOf("PathMod") = {"Pattern"}
  /\ TypesOf("a") = {"Token"}
  /\ TypesOf("(") = {"Token"}
  /\ TypesOf(")") = {"Token"}
  /\ TypesOf("?") = {"Token"}
  /\ TypesOf("+") = {"Token"}
  /\ TypesOf("RestOfWhere") = {"GraphGroup"}
  /\ TypesOf("GraphPatternNotTriples") = {"GraphGroup"}
  /\ TypesOf("Joiner") = {"Token", "nil"}
  /\ TypesOf("GroupGraphPattern") = {"GraphGroup"}
  /\ TypesOf("UNION") = {"Token"}
  /\ TypesOf("GroupGraphPatternSub") = {"GraphGroup"}
BY DEF TypesOf

\* What the type assertions of each function ask for.
LEMMA Signatures ==
  /\ Signature["NewQuery"] = <<"SelectClause", "WhereClause">>
  /\ Signature["NewCountQuery"] = <<"SelectClause", "WhereClause">>
  /\ Signature["NewInsertQuery"] = <<"InsertClause", "WhereClause">>
  /\ Signature["NewQueryMulti"] = <<"SelectClause", "FromClause", "WhereClause">>
  /\ Signature["NewCountQueryMulti"] = <<"SelectClause", "FromClause", "WhereClause">>
  /\ Signature["NewInsertQueryMulti"] = <<"InsertClause", "FromClause", "WhereClause">>
  /\ Signature["NewAllSelectClause"] = <<>>
  /\ Signature["NewSelectClause"] = <<"[]string">>
  /\ Signature["NewInsertClause"] = <<"[]Triple">>
  /\ Signature["NewAllFromClause"] = <<>>
  /\ Signature["NewFromClause"] = <<"[]string">>
  /\ Signature["NewVarList"] = <<"string">>
  /\ Signature["AppendVar"] = <<"[]string", "string">>
  /\ Signature["NewStringList"] = <<"string">>
  /\ Signature["AppendString"] = <<"[]string", "string">>
  /\ Signature["ParseString"] = <<"Token">>
  /\ Signature["ParseQuotedString"] = <<"Token">>
  /\ Signature["NewEmptyWhereClause"] = <<>>
  /\ Signature["NewWhereClause"] = <<"[]Triple">>
  /\ Signature["NewWhereClauseWithGraphGroup"] = <<"[]Triple", "GraphGroup">>
  /\ Signature["NewWhereClauseGraphGroup"] = <<"GraphGroup">>
  /\ Signature["NewTripleBlock"] = <<"Triple">>
  /\ Signature["AppendTripleBlock"] = <<"[]Triple", "Triple">>
  /\ Signature["NewTriple"] = <<"URI", "[]PathPattern", "URI">>
  /\ Signature["NewURI"] = <<"string">>
  /\ Signature["PathFromVar"] = <<"string">>
  /\ Signature["NewPathSequence"] = <<"PathPattern">>
  /\ Signature["AppendPathSequence"] = <<"[]PathPattern", "PathPattern">>
  /\ Signature["NewPathPattern"] = <<"Token">>
  /\ Signature["AddPathMod"] = <<"PathPattern", "Pattern">>
  /\ Signature["PATTERN_ZERO_ONE"] = <<>>
  /\ Signature["PATTERN_ZERO_PLUS"] = <<>>
  /\ Signature["PATTERN_ONE_PLUS"] = <<>>
  /\ Signature["GraphGroupFromTriples"] = <<"[]Triple">>
  /\ Signature["GraphGroupUnion"] = <<"GraphGroup", "GraphGroup">>
  /\ Signature["AddTriplesToGraphGroup"] = <<"GraphGroup", "[]Triple">>
  /\ Signature["MergeGraphGroups"] = <<"GraphGroup", "GraphGroup">>
BY DEF Signature

\* A tuple of some length.
IsTuple(t) == Len(t) \in Nat /\ t = [k \in 1 .. Len(t) |-> t[k]]

\* What a row holds, and that its right-hand side is a tuple.
Row(p, prod) == productionsTable[p] = prod /\ IsTuple(prod.rhs)

\* The rows of queries.
LEMMA QueryRows ==
  /\ Row(0, Prod("S'", <<"QueryUnit">>, "attrib", <<1>>))
  /\ Row(1, Prod("QueryUnit", <<"SelectQuery", ";">>, "attrib", <<1>>))
  /\ Row(2, Prod("QueryUnit", <<"CountQuery", ";">>, "attrib", <<1>>))
  /\ Row(3, Prod("QueryUnit", <<"UpdateQuery", ";">>, "attrib", <<1>>))
  /\ Row(4, Prod("SelectQuery", <<"SelectClause", "DatasetClause", "WhereClause">>, "NewQueryMulti", <<1, 2, 3>>))
  /\ Row(5, Prod("SelectQuery", <<"SelectClause", "WhereClause">>, "NewQuery", <<1, 2>>))
  /\ Row(6, Prod("CountQuery", <<"CountClause", "DatasetClause", "WhereClause">>, "NewCountQueryMulti", <<1, 2, 3>>))
  /\ Row(7, Prod("CountQuery", <<"CountClause", "WhereClause">>, "NewCountQuery", <<1, 2>>))
  /\ Row(8, Prod("UpdateQuery", <<"InsertClause", "DatasetClause", "WhereClause">>, "NewInsertQueryMulti", <<1, 2, 3>>))
  /\ Row(9, Prod("UpdateQuery", <<"InsertClause", "WhereClause">>, "NewInsertQuery", <<1, 2>>))
<1>1. /\ productionsTable[0] = QueryProductions[1]
      /\ productionsTable[1] = QueryProductions[2]
      /\ productionsTable[2] = QueryProductions[3]
      /\ productionsTable[3] = QueryProductions[4]
      /\ productionsTable[4] = QueryProductions[5]
      /\ productionsTable[5] = QueryProductions[6]
      /\ productionsTable[6] = QueryProductions[7]
      /\ productionsTable[7] = QueryProductions[8]
      /\ productionsTable[8] = QueryProductions[9]
      /\ productionsTable[9] = QueryProductions[10]
  BY TableRows
<1>2. /\ QueryProductions[1] = Prod("S'", <<"QueryUnit">>, "attrib", <<1>>)
      /\ QueryProductions[2] = Prod("QueryUnit", <<"SelectQuery", ";">>, "attrib", <<1>>)
      /\ QueryProductions[3] = Prod("QueryUnit", <<"CountQuery", ";">>, "attrib", <<1>>)
      /\ QueryProductions[4] = Prod("QueryUnit", <<"UpdateQuery", ";">>, "attrib", <<1>>)
      /\ QueryProductions[5] = Prod("SelectQuery", <<"SelectClause", "DatasetClause", "WhereClause">>, "NewQueryMulti", <<1, 2, 3>>)
      /\ QueryProductions[6] = Prod("SelectQuery", <<"SelectClause", "WhereClause">>, "NewQuery", <<1, 2>>)
      /\ QueryProductions[7] = Prod("CountQuery", <<"CountClause", "DatasetClause", "WhereClause">>, "NewCountQueryMulti", <<1, 2, 3>>)
      /\ QueryProductions[8] = Prod("CountQuery", <<"CountClause", "WhereClause">>, "NewCountQuery", <<1, 2>>)
      /\ QueryProductions[9] = Prod("UpdateQuery", <<"InsertClause", "DatasetClause", "WhereClause">>, "NewInsertQueryMulti", <<1, 2, 3>>)
      /\ QueryProductions[10] = Prod("UpdateQuery", <<"InsertClause", "WhereClause">>, "NewInsertQuery", <<1, 2>>)
  BY DEF QueryProductions
<1>3. /\ IsTuple(Prod("S'", <<"QueryUnit">>, "attrib", <<1>>).rhs)
      /\ IsTuple(Prod("QueryUnit", <<"SelectQuery", ";">>, "attrib", <<1>>).rhs)
      /\ IsTuple(Prod("QueryUnit", <<"CountQuery", ";">>, "attrib", <<1>>).rhs)
      /\ IsTuple(Prod("QueryUnit", <<"UpdateQuery", ";">>, "attrib", <<1>>).rhs)
      /\ IsTuple(Prod("SelectQuery", <<"SelectClause", "DatasetClause", "WhereClause">>, "NewQueryMulti", <<1, 2, 3>>).rhs)
      /\ IsTuple(Prod("SelectQuery", <<"SelectClause", "WhereClause">>, "NewQuery", <<1, 2>>).rhs)
      /\ IsTuple(Prod("CountQuery", <<"CountClause", "DatasetClause", "WhereClause">>, "NewCountQueryMulti", <<1, 2, 3>>).rhs)
      /\ IsTuple(Prod("CountQuery", <<"CountClause", "WhereClause">>, "NewCountQuery", <<1, 2>>).rhs)
      /\ IsTuple(Prod("UpdateQuery", <<"InsertClause", "DatasetClause", "WhereClause">>, "NewInsertQueryMulti", <<1, 2, 3>>).rhs)
      /\ IsTuple(Prod("UpdateQuery", <<"InsertClause", "WhereClause">>, "NewInsertQuery", <<1, 2>>).rhs)
  BY DEF IsTuple, Prod
<1> QED
  BY <1>1, <1>2, <1>3 DEF Row
\* The rows of the clauses.
LEMMA ClauseRows ==
  /\ Row(10, Prod("SelectClause", <<"SELECT", "*">>, "NewAllSelectClause", <<>>))
  /\ Row(11, Prod("SelectClause", <<"SELECT", "Varlist">>, "NewSelectClause", <<2>>))
  /\ Row(12, Prod("InsertClause", <<"INSERT", "{", "TriplesBlock", "}">>, "NewInsertClause", <<3>>))
  /\ Row(13, Prod("InsertClause", <<"INSERT", "{", "TriplesBlock", ".", "}">>, "NewInsertClause", <<3>>))
  /\ Row(14, Prod("CountClause", <<"COUNT", "*">>, "NewAllSelectClause", <<>>))
  /\ Row(15, Prod("CountClause", <<"COUNT", "Varlist">>, "NewSelectClause", <<2>>))
  /\ Row(16, Prod("Varlist", <<"Var">>, "NewVarList", <<1>>))
  /\ Row(17, Prod("Varlist", <<"Varlist", "Var">>, "AppendVar", <<1, 2>>))
  /\ Row(18, Prod("DBlist", <<"String">>, "NewStringList", <<1>>))
  /\ Row(19, Prod("DBlist", <<"DBlist", "String">>, "AppendString", <<1, 2>>))
  /\ Row(20, Prod("String", <<"string">>, "ParseString", <<1>>))
  /\ Row(21, Prod("Var", <<"var">>, "ParseString", <<1>>))
  /\ Row(22, Prod("DatasetClause", <<"FROM", "DBlist">>, "NewFromClause", <<2>>))
  /\ Row(23, Prod("DatasetClause", <<"FROM", "*">>, "NewAllFromClause", <<>>))
<1>1. /\ productionsTable[10] = ClauseProductions[1]
      /\ productionsTable[11] = ClauseProductions[2]
      /\ productionsTable[12] = ClauseProductions[3]
      /\ productionsTable[13] = ClauseProductions[4]
      /\ productionsTable[14] = ClauseProductions[5]
      /\ productionsTable[15] = ClauseProductions[6]
      /\ productionsTable[16] = ClauseProductions[7]
      /\ productionsTable[17] = ClauseProductions[8]
      /\ productionsTable[18] = ClauseProductions[9]
      /\ productionsTable[19] = ClauseProductions[10]
      /\ productionsTable[20] = ClauseProductions[11]
      /\ productionsTable[21] = ClauseProductions[12]
      /\ productionsTable[22] = ClauseProductions[13]
      /\ productionsTable[23] = ClauseProductions[14]
  BY TableRows
<1>2. /\ ClauseProductions[1] = Prod("SelectClause", <<"SELECT", "*">>, "NewAllSelectClause", <<>>)
      /\ ClauseProductions[2] = Prod("SelectClause", <<"SELECT", "Varlist">>, "NewSelectClause", <<2>>)
      /\ ClauseProductions[3] = Prod("InsertClause", <<"INSERT", "{", "TriplesBlock", "}">>, "NewInsertClause", <<3>>)
      /\ ClauseProductions[4] = Prod("InsertClause", <<"INSERT", "{", "TriplesBlock", ".", "}">>, "NewInsertClause", <<3>>)
      /\ ClauseProductions[5] = Prod("CountClause", <<"COUNT", "*">>, "NewAllSelectClause", <<>>)
      /\ ClauseProductions[6] = Prod("CountClause", <<"COUNT", "Varlist">>, "NewSelectClause", <<2>>)
      /\ ClauseProductions[7] = Prod("Varlist", <<"Var">>, "NewVarList", <<1>>)
      /\ ClauseProductions[8] = Prod("Varlist", <<"Varlist", "Var">>, "AppendVar", <<1, 2>>)
      /\ ClauseProductions[9] = Prod("DBlist", <<"String">>, "NewStringList", <<1>>)
      /\ ClauseProductions[10] = Prod("DBlist", <<"DBlist", "String">>, "AppendString", <<1, 2>>)
      /\ ClauseProductions[11] = Prod("String", <<"string">>, "ParseString", <<1>>)
      /\ ClauseProductions[12] = Prod("Var", <<"var">>, "ParseString", <<1>>)
      /\ ClauseProductions[13] = Prod("DatasetClause", <<"FROM", "DBlist">>, "NewFromClause", <<2>>)
      /\ ClauseProductions[14] = Prod("DatasetClause", <<"FROM", "*">>, "NewAllFromClause", <<>>)
  BY DEF ClauseProductions
<1>3. /\ IsTuple(Prod("SelectClause", <<"SELECT", "*">>, "NewAllSelectClause", <<>>).rhs)
      /\ IsTuple(Prod("SelectClause", <<"SELECT", "Varlist">>, "NewSelectClause", <<2>>).rhs)
      /\ IsTuple(Prod("InsertClause", <<"INSERT", "{", "TriplesBlock", "}">>, "NewInsertClause", <<3>>).rhs)
      /\ IsTuple(Prod("InsertClause", <<"INSERT", "{", "TriplesBlock", ".", "}">>, "NewInsertClause", <<3>>).rhs)
      /\ IsTuple(Prod("CountClause", <<"COUNT", "*">>, "NewAllSelectClause", <<>>).rhs)
      /\ IsTuple(Prod("CountClause", <<"COUNT", "Varlist">>, "NewSelectClause", <<2>>).rhs)
      /\ IsTuple(Prod("Varlist", <<"Var">>, "NewVarList", <<1>>).rhs)
      /\ IsTuple(Prod("Varlist", <<"Varlist", "Var">>, "AppendVar", <<1, 2>>).rhs)
      /\ IsTuple(Prod("DBlist", <<"String">>, "NewStringList", <<1>>).rhs)
      /\ IsTuple(Prod("DBlist", <<"DBlist", "String">>, "AppendString", <<1, 2>>).rhs)
      /\ IsTuple(Prod("String", <<"string">>, "ParseString", <<1>>).rhs)
      /\ IsTuple(Prod("Var", <<"var">>, "ParseString", <<1>>).rhs)
      /\ IsTuple(Prod("DatasetClause", <<"FROM", "DBlist">>, "NewFromClause", <<2>>).rhs)
      /\ IsTuple(Prod("DatasetClause", <<"FROM", "*">>, "NewAllFromClause", <<>>).rhs)
  BY DEF IsTuple, Prod
<1> QED
  BY <1>1, <1>2, <1>3 DEF Row
\* The rows of WHERE clauses and triples.
LEMMA WhereRows ==
  /\ Row(24, Prod("WhereClause", <<"WHERE", "{", "}">>, "NewEmptyWhereClause", <<>>))
  /\ Row(25, Prod("WhereClause", <<"WHERE", "{", "TriplesBlock", "}">>, "NewWhereClause", <<3>>))
  /\ Row(26, Prod("WhereClause", <<"WHERE", "{", "TriplesBlock", ".", "}">>, "NewWhereClause", <<3>>))
  /\ Row(27, Prod("WhereClause", <<"WHERE", "{", "TriplesBlock", "RestOfWhereList", "}">>, "NewWhereClauseWithGraphGroup", <<3, 4>>))
  /\ Row(28, Prod("WhereClause", <<"WHERE", "{", "TriplesBlock", ".", "RestOfWhereList", "}">>, "NewWhereClauseWithGraphGroup", <<3, 5>>))
  /\ Row(29, Prod("WhereClause", <<"WHERE", "{", "RestOfWhereList", "}">>, "NewWhereClauseGraphGroup", <<3>>))
  /\ Row(30, Prod("TriplesBlock", <<"Triple">>, "NewTripleBlock", <<1>>))
  /\ Row(31, Prod("TriplesBlock", <<"TriplesBlock", ".", "Triple">>, "AppendTripleBlock", <<1, 3>>))
  /\ Row(32, Prod("Triple", <<"VarOrTerm", "Path", "VarOrTerm">>, "NewTriple", <<1, 2, 3>>))
<1>1. /\ productionsTable[24] = WhereProductions[1]
      /\ productionsTable[25] = WhereProductions[2]
      /\ productionsTable[26] = WhereProductions[3]
      /\ productionsTable[27] = WhereProductions[4]
      /\ productionsTable[28] = WhereProductions[5]
      /\ productionsTable[29] = WhereProductions[6]
      /\ productionsTable[30] = WhereProductions[7]
      /\ productionsTable[31] = WhereProductions[8]
      /\ productionsTable[32] = WhereProductions[9]
  BY TableRows
<1>2. /\ WhereProductions[1] = Prod("WhereClause", <<"WHERE", "{", "}">>, "NewEmptyWhereClause", <<>>)
      /\ WhereProductions[2] = Prod("WhereClause", <<"WHERE", "{", "TriplesBlock", "}">>, "NewWhereClause", <<3>>)
      /\ WhereProductions[3] = Prod("WhereClause", <<"WHERE", "{", "TriplesBlock", ".", "}">>, "NewWhereClause", <<3>>)
      /\ WhereProductions[4] = Prod("WhereClause", <<"WHERE", "{", "TriplesBlock", "RestOfWhereList", "}">>, "NewWhereClauseWithGraphGroup", <<3, 4>>)
      /\ WhereProductions[5] = Prod("WhereClause", <<"WHERE", "{", "TriplesBlock", ".", "RestOfWhereList", "}">>, "NewWhereClauseWithGraphGroup", <<3, 5>>)
      /\ WhereProductions[6] = Prod("WhereClause", <<"WHERE", "{", "RestOfWhereList", "}">>, "NewWhereClauseGraphGroup", <<3>>)
      /\ WhereProductions[7] = Prod("TriplesBlock", <<"Triple">>, "NewTripleBlock", <<1>>)
      /\ WhereProductions[8] = Prod("TriplesBlock", <<"TriplesBlock", ".", "Triple">>, "AppendTripleBlock", <<1, 3>>)
      /\ WhereProductions[9] = Prod("Triple", <<"VarOrTerm", "Path", "VarOrTerm">>, "NewTriple", <<1, 2, 3>>)
  BY DEF WhereProductions
<1>3. /\ IsTuple(Prod("WhereClause", <<"WHERE", "{", "}">>, "NewEmptyWhereClause", <<>>).rhs)
      /\ IsTuple(Prod("WhereClause", <<"WHERE", "{", "TriplesBlock", "}">>, "NewWhereClause", <<3>>).rhs)
      /\ IsTuple(Prod("WhereClause", <<"WHERE", "{", "TriplesBlock", ".", "}">>, "NewWhereClause", <<3>>).rhs)
      /\ IsTuple(Prod("WhereClause", <<"WHERE", "{", "TriplesBlock", "RestOfWhereList", "}">>, "NewWhereClauseWithGraphGroup", <<3, 4>>).rhs)
      /\ IsTuple(Prod("WhereClause", <<"WHERE", "{", "TriplesBlock", ".", "RestOfWhereList", "}">>, "NewWhereClauseWithGraphGroup", <<3, 5>>).rhs)
      /\ IsTuple(Prod("WhereClause", <<"WHERE", "{", "RestOfWhereList", "}">>, "NewWhereClauseGraphGroup", <<3>>).rhs)
      /\ IsTuple(Prod("TriplesBlock", <<"Triple">>, "NewTripleBlock", <<1>>).rhs)
      /\ IsTuple(Prod("TriplesBlock", <<"TriplesBlock", ".", "Triple">>, "AppendTripleBlock", <<1, 3>>).rhs)
      /\ IsTuple(Prod("Triple", <<"VarOrTerm", "Path", "VarOrTerm">>, "NewTriple", <<1, 2, 3>>).rhs)
  BY DEF IsTuple, Prod
<1> QED
  BY <1>1, <1>2, <1>3 DEF Row
\* The rows of terms and paths.
LEMMA TermRows ==
  /\ Row(33, Prod("VarOrTerm", <<"Var">>, "NewURI", <<1>>))
  /\ Row(34, Prod("VarOrTerm", <<"GraphTerm">>, "NewURI", <<1>>))
  /\ Row(35, Prod("GraphTerm", <<"uri">>, "ParseString", <<1>>))
  /\ Row(36, Prod("GraphTerm", <<"quotedstring">>, "ParseQuotedString", <<1>>))
  /\ Row(37, Prod("GraphTerm", <<"url">>, "ParseString", <<1>>))
  /\ Row(38, Prod("Path", <<"PathSequence">>, "attrib", <<1>>))
  /\ Row(39, Prod("Path", <<"Path", "|", "PathSequence">>, "attrib", <<1>>))
  /\ Row(40, Prod("Path", <<"Var">>, "PathFromVar", <<1>>))
<1>1. /\ productionsTable[33] = TermProductions[1]
      /\ productionsTable[34] = TermProductions[2]
      /\ productionsTable[35] = TermProductions[3]
      /\ productionsTable[36] = TermProductions[4]
      /\ productionsTable[37] = TermProductions[5]
      /\ productionsTable[38] = TermProductions[6]
      /\ productionsTable[39] = TermProductions[7]
      /\ productionsTable[40] = TermProductions[8]
  BY TableRows
<1>2. /\ TermProductions[1] = Prod("VarOrTerm", <<"Var">>, "NewURI", <<1>>)
      /\ TermProductions[2] = Prod("VarOrTerm", <<"GraphTerm">>, "NewURI", <<1>>)
      /\ TermProductions[3] = Prod("GraphTerm", <<"uri">>, "ParseString", <<1>>)
      /\ TermProductions[4] = Prod("GraphTerm", <<"quotedstring">>, "ParseQuotedString", <<1>>)
      /\ TermProductions[5] = Prod("GraphTerm", <<"url">>, "ParseString", <<1>>)
      /\ TermProductions[6] = Prod("Path", <<"PathSequence">>, "attrib", <<1>>)
      /\ TermProductions[7] = Prod("Path", <<"Path", "|", "PathSequence">>, "attrib", <<1>>)
      /\ TermProductions[8] = Prod("Path", <<"Var">>, "PathFromVar", <<1>>)
  BY DEF TermProductions
<1>3. /\ IsTuple(Prod("VarOrTerm", <<"Var">>, "NewURI", <<1>>).rhs)
      /\ IsTuple(Prod("VarOrTerm", <<"GraphTerm">>, "NewURI", <<1>>).rhs)
      /\ IsTuple(Prod("GraphTerm", <<"uri">>, "ParseString", <<1>>).rhs)
      /\ IsTuple(Prod("GraphTerm", <<"quotedstring">>, "ParseQuotedString", <<1>>).rhs)
      /\ IsTuple(Prod("GraphTerm", <<"url">>, "ParseString", <<1>>).rhs)
      /\ IsTuple(Prod("Path", <<"PathSequence">>, "attrib", <<1>>).rhs)
      /\ IsTuple(Prod("Path", <<"Path", "|", "PathSequence">>, "attrib", <<1>>).rhs)
      /\ IsTuple(Prod("Path", <<"Var">>, "PathFromVar", <<1>>).rhs)
  BY DEF IsTuple, Prod
<1> QED
  BY <1>1, <1>2, <1>3 DEF Row
\* The rows of path expressions.
LEMMA PathRows ==
  /\ Row(41, Prod("PathSequence", <<"PathElt">>, "NewPathSequence", <<1>>))
  /\ Row(42, Prod("PathSequence", <<"PathSequence", "/", "PathElt">>, "AppendPathSequence", <<1, 3>>))
  /\ Row(43, Prod("PathElt", <<"PathPrimary", "PathMod">>, "AddPathMod", <<1, 2>>))
  /\ Row(44, Prod("PathElt", <<"PathPrimary">>, "attrib", <<1>>))
  /\ Row(45, Prod("PathPrimary", <<"uri">>, "NewPathPattern", <<1>>))
  /\ Row(46, Prod("PathPrimary", <<"a">>, "NewPathPattern", <<1>>))
  /\ Row(47, Prod("PathPrimary", <<"url">>, "NewPathPattern", <<1>>))
  /\ Row(48, Prod("PathPrimary", <<"(", "Path", ")">>, "attrib", <<2>>))
  /\ Row(49, Prod("PathMod", <<"?">>, "PATTERN_ZERO_ONE", <<>>))
  /\ Row(50, Prod("PathMod", <<"*">>, "PATTERN_ZERO_PLUS", <<>>))
  /\ Row(51, Prod("PathMod", <<"+">>, "PATTERN_ONE_PLUS", <<>>))
<1>1. /\ productionsTable[41] = PathProductions[1]
      /\ productionsTable[42] = PathProductions[2]
      /\ productionsTable[43] = PathProductions[3]
      /\ productionsTable[44] = PathProductions[4]
      /\ productionsTable[45] = PathProductions[5]
      /\ productionsTable[46] = PathProductions[6]
      /\ productionsTable[47] = PathProductions[7]
      /\ productionsTable[48] = PathProductions[8]
      /\ productionsTable[49] = PathProductions[9]
      /\ productionsTable[50] = PathProductions[10]
      /\ productionsTable[51] = PathProductions[11]
  BY TableRows
<1>2. /\ PathProductions[1] = Prod("PathSequence", <<"PathElt">>, "NewPathSequence", <<1>>)
      /\ PathProductions[2] = Prod("PathSequence", <<"PathSequence", "/", "PathElt">>, "AppendPathSequence", <<1, 3>>)
      /\ PathProductions[3] = Prod("PathElt", <<"PathPrimary", "PathMod">>, "AddPathMod", <<1, 2>>)
      /\ PathProductions[4] = Prod("PathElt", <<"PathPrimary">>, "attrib", <<1>>)
      /\ PathProductions[5] = Prod("PathPrimary", <<"uri">>, "NewPathPattern", <<1>>)
      /\ PathProductions[6] = Prod("PathPrimary", <<"a">>, "NewPathPattern", <<1>>)
      /\ PathProductions[7] = Prod("PathPrimary", <<"url">>, "NewPathPattern", <<1>>)
      /\ PathProductions[8] = Prod("PathPrimary", <<"(", "Path", ")">>, "attrib", <<2>>)
      /\ PathProductions[9] = Prod("PathMod", <<"?">>, "PATTERN_ZERO_ONE", <<>>)
      /\ PathProductions[10] = Prod("PathMod", <<"*">>, "PATTERN_ZERO_PLUS", <<>>)
      /\ PathProductions[11] = Prod("PathMod", <<"+">>, "PATTERN_ONE_PLUS", <<>>)
  BY DEF PathProductions
<1>3. /\ IsTuple(Prod("PathSequence", <<"PathElt">>, "NewPathSequence", <<1>>).rhs)
      /\ IsTuple(Prod("PathSequence", <<"PathSequence", "/", "PathElt">>, "AppendPathSequence", <<1, 3>>).rhs)
      /\ IsTuple(Prod("PathElt", <<"PathPrimary", "PathMod">>, "AddPathMod", <<1, 2>>).rhs)
      /\ IsTuple(Prod("PathElt", <<"PathPrimary">>, "attrib", <<1>>).rhs)
      /\ IsTuple(Prod("PathPrimary", <<"uri">>, "NewPathPattern", <<1>>).rhs)
      /\ IsTuple(Prod("PathPrimary", <<"a">>, "NewPathPattern", <<1>>).rhs)
      /\ IsTuple(Prod("PathPrimary", <<"url">>, "NewPathPattern", <<1>>).rhs)
      /\ IsTuple(Prod("PathPrimary", <<"(", "Path", ")">>, "attrib", <<2>>).rhs)
      /\ IsTuple(Prod("PathMod", <<"?">>, "PATTERN_ZERO_ONE", <<>>).rhs)
      /\ IsTuple(Prod("PathMod", <<"*">>, "PATTERN_ZERO_PLUS", <<>>).rhs)
      /\ IsTuple(Prod("PathMod", <<"+">>, "PATTERN_ONE_PLUS", <<>>).rhs)
  BY DEF IsTuple, Prod
<1> QED
  BY <1>1, <1>2, <1>3 DEF Row
\* The rows of group patterns.
LEMMA GroupRows ==
  /\ Row(52, Prod("RestOfWhereList", <<"RestOfWhere">>, "attrib", <<1>>))
  /\ Row(53, Prod("RestOfWhereList", <<"RestOfWhereList", "RestOfWhere">>, "MergeGraphGroups", <<1, 2>>))
  /\ Row(54, Prod("RestOfWhere", <<"GraphPatternNotTriples", "Joiner", "TriplesBlock", "Joiner">>, "AddTriplesToGraphGroup", <<1, 3>>))
  /\ Row(55, Prod("RestOfWhere", <<"GraphPatternNotTriples", "Joiner">>, "attrib", <<1>>))
  /\ Row(56, Prod("Joiner", <<".">>, "attrib", <<1>>))
  /\ Row(57, Prod("Joiner", <<>>, "nil", <<>>))
  /\ Row(58, Prod("GraphPatternNotTriples", <<"GroupGraphPattern">>, "attrib", <<1>>))
  /\ Row(59, Prod("GraphPatternNotTriples", <<"GraphPatternNotTriples", "UNION", "GroupGraphPattern">>, "GraphGroupUnion", <<1, 3>>))
  /\ Row(60, Prod("GroupGraphPattern", <<"{", "GroupGraphPatternSub", "Joiner", "}">>, "attrib", <<2>>))
  /\ Row(61, Prod("GroupGraphPatternSub", <<"TriplesBlock">>, "GraphGroupFromTriples", <<1>>))
  /\ Row(62, Prod("GroupGraphPatternSub", <<"GraphPatternNotTriples", ".", "TriplesBlock">>, "AddTriplesToGraphGroup", <<1, 3>>))
  /\ Row(63, Prod("GroupGraphPatternSub", <<"GroupGraphPatternSub", "GraphPatternNotTriples", ".", "TriplesBlock">>, "attrib", <<1>>))
<1>1. /\ productionsTable[52] = GroupProductions[1]
      /\ productionsTable[53] = GroupProductions[2]
      /\ productionsTable[54] = GroupProductions[3]
      /\ productionsTable[55] = GroupProductions[4]
      /\ productionsTable[56] = GroupProductions[5]
      /\ productionsTable[57] = GroupProductions[6]
      /\ productionsTable[58] = GroupProductions[7]
      /\ productionsTable[59] = GroupProductions[8]
      /\ productionsTable[60] = GroupProductions[9]
      /\ productionsTable[61] = GroupProductions[10]
      /\ productionsTable[62] = GroupProductions[11]
      /\ productionsTable[63] = GroupProductions[12]
  BY TableRows
<1>2. /\ GroupProductions[1] = Prod("RestOfWhereList", <<"RestOfWhere">>, "attrib", <<1>>)
      /\ GroupProductions[2] = Prod("RestOfWhereList", <<"RestOfWhereList", "RestOfWhere">>, "MergeGraphGroups", <<1, 2>>)
      /\ GroupProductions[3] = Prod("RestOfWhere", <<"GraphPatternNotTriples", "Joiner", "TriplesBlock", "Joiner">>, "AddTriplesToGraphGroup", <<1, 3>>)
      /\ GroupProductions[4] = Prod("RestOfWhere", <<"GraphPatternNotTriples", "Joiner">>, "attrib", <<1>>)
      /\ GroupProductions[5] = Prod("Joiner", <<".">>, "attrib", <<1>>)
      /\ GroupProductions[6] = Prod("Joiner", <<>>, "nil", <<>>)
      /\ GroupProductions[7] = Prod("GraphPatternNotTriples", <<"GroupGraphPattern">>, "attrib", <<1>>)
      /\ GroupProductions[8] = Prod("GraphPatternNotTriples", <<"GraphPatternNotTriples", "UNION", "GroupGraphPattern">>, "GraphGroupUnion", <<1, 3>>)
      /\ GroupProductions[9] = Prod("GroupGraphPattern", <<"{", "GroupGraphPatternSub", "Joiner", "}">>, "attrib", <<2>>)
      /\ GroupProductions[10] = Prod("GroupGraphPatternSub", <<"TriplesBlock">>, "GraphGroupFromTriples", <<1>>)
      /\ GroupProductions[11] = Prod("GroupGraphPatternSub", <<"GraphPatternNotTriples", ".", "TriplesBlock">>, "AddTriplesToGraphGroup", <<1, 3>>)
      /\ GroupProductions[12] = Prod("GroupGraphPatternSub", <<"GroupGraphPatternSub", "GraphPatternNotTriples", ".", "TriplesBlock">>, "attrib", <<1>>)
  BY DEF GroupProductions
<1>3. /\ IsTuple(Prod("RestOfWhereList", <<"RestOfWhere">>, "attrib", <<1>>).rhs)
      /\ IsTuple(Prod("RestOfWhereList", <<"RestOfWhereList", "RestOfWhere">>, "MergeGraphGroups", <<1, 2>>).rhs)
      /\ IsTuple(Prod("RestOfWhere", <<"GraphPatternNotTriples", "Joiner", "TriplesBlock", "Joiner">>, "AddTriplesToGraphGroup", <<1, 3>>).rhs)
      /\ IsTuple(Prod("RestOfWhere", <<"GraphPatternNotTriples", "Joiner">>, "attrib", <<1>>).rhs)
      /\ IsTuple(Prod("Joiner", <<".">>, "attrib", <<1>>).rhs)
      /\ IsTuple(Prod("Joiner", <<>>, "nil", <<>>).rhs)
      /\ IsTuple(Prod("GraphPatternNotTriples", <<"GroupGraphPattern">>, "attrib", <<1>>).rhs)
      /\ IsTuple(Prod("GraphPatternNotTriples", <<"GraphPatternNotTriples", "UNION", "GroupGraphPattern">>, "GraphGroupUnion", <<1, 3>>).rhs)
      /\ IsTuple(Prod("GroupGraphPattern", <<"{", "GroupGraphPatternSub", "Joiner", "}">>, "attrib", <<2>>).rhs)
      /\ IsTuple(Prod("GroupGraphPatternSub", <<"TriplesBlock">>, "GraphGroupFromTriples", <<1>>).rhs)
      /\ IsTuple(Prod("GroupGraphPatternSub", <<"GraphPatternNotTriples", ".", "TriplesBlock">>, "AddTriplesToGraphGroup", <<1, 3>>).rhs)
      /\ IsTuple(Prod("GroupGraphPatternSub", <<"GroupGraphPatternSub", "GraphPatternNotTriples", ".", "TriplesBlock">>, "attrib", <<1>>).rhs)
  BY DEF IsTuple, Prod
<1> QED
  BY <1>1, <1>2, <1>3 DEF Row

\* Every right-hand side is a tuple.
LEMMA RhsTuples == \A p \in Productions : IsTuple(productionsTable[p].rhs)
<1> DEFINE T(p) == IsTuple(productionsTable[p].rhs)
<1>1. \A p, prod : Row(p, prod) => T(p)
  BY DEF Row
<1>2. /\ T(0) /\ T(1) /\ T(2) /\ T(3) /\ T(4) /\ T(5) /\ T(6) /\ T(7)
      /\ T(8) /\ T(9)
  <2> HIDE DEF T
  <2> QED
    BY <1>1, QueryRows, ZenonT(30)
<1>3. /\ T(10) /\ T(11) /\ T(12) /\ T(13) /\ T(14) /\ T(15) /\ T(16) /\ T(17)
      /\ T(18) /\ T(19) /\ T(20) /\ T(21) /\ T(22) /\ T(23)
  <2> HIDE DEF T
  <2> QED
    BY <1>1, ClauseRows, ZenonT(30)
<1>4. /\ T(24) /\ T(25) /\ T(26) /\ T(27) /\ T(28) /\ T(29) /\ T(30) /\ T(31)
      /\ T(32)
  <2> HIDE DEF T
  <2> QED
    BY <1>1, WhereRows, ZenonT(30)
<1>5. T(33) /\ T(34) /\ T(35) /\ T(36) /\ T(37) /\ T(38) /\ T(39) /\ T(40)
  <2> HIDE DEF T
  <2> QED
    BY <1>1, TermRows, ZenonT(30)
<1>6. /\ T(41) /\ T(42) /\ T(43) /\ T(44) /\ T(45) /\ T(46) /\ T(47) /\ T(48)
      /\ T(49) /\ T(50) /\ T(51)
  <2> HIDE DEF T
  <2> QED
    BY <1>1, PathRows, ZenonT(30)
<1>7. /\ T(52) /\ T(53) /\ T(54) /\ T(55) /\ T(56) /\ T(57)
      /\ T(58) /\ T(59) /\ T(60) /\ T(61) /\ T(62) /\ T(63)
  <2> HIDE DEF T
  <2>1. T(52) /\ T(53) /\ T(54) /\ T(55)
    BY <1>1, GroupRows, ZenonT(30)
  <2>2. T(56) /\ T(57) /\ T(58) /\ T(59)
    BY <1>1, GroupRows, ZenonT(30)
  <2>3. T(60) /\ T(61) /\ T(62) /\ T(63)
    BY <1>1, GroupRows, ZenonT(30)
  <2> QED
    BY <2>1, <2>2, <2>3
<1> HIDE DEF T
<1>8. \A p \in 0 .. 63 : T(p)
  BY <1>2, <1>3, <1>4, <1>5, <1>6, <1>7
<1> QED
  BY <1>8, TableRows DEF T

-----------------------------------------------------------------------------
(* The stack.                                                              *)

\* What a scanner returns.  The marks are named because Names writes them.
TokenTypes == STRING \cup {"$", "uri", "/", "?", "+", "*"}
Token == [type : TokenTypes, n : Nat]

\* Each entry was pushed where the tables allow it.
Chained(s) ==
    /\ IsSeq(s) /\ s # <<>> /\ s[1] = Bottom
    /\ \A i \in 2 .. Len(s) : <<s[i - 1].state, s[i].sym, s[i].state>> \in Edges

\* The texts of the stack are texts.
Covers(s) == \A i \in DOMAIN s : s[i].text \in Seq(Token)

\* Appending to a sequence.
LEMMA AppendAt ==
    ASSUME NEW s, NEW e, IsSeq(s)
    PROVE  /\ IsSeq(Append(s, e)) /\ Append(s, e) # <<>>
           /\ Len(s) \in Nat /\ Len(Append(s, e)) = Len(s) + 1
           /\ \A i \in 1 .. Len(s) : Append(s, e)[i] = s[i]
           /\ Append(s, e)[Len(s) + 1] = e
<1> DEFINE S == ToSet(s) \cup {e}
<1>1. s \in Seq(S)
  BY SeqMonotonic DEF IsSeq
<1> HIDE DEF S
<1>2. e \in S
  BY DEF S
<1>3. Append(s, e) \in Seq(S)
  BY <1>1, <1>2, AppendProperties
<1>4. IsSeq(Append(s, e))
  BY <1>3, SeqIsSeq
<1>5. Append(s, e) # <<>> /\ Len(Append(s, e)) = Len(s) + 1 /\ Len(s) \in Nat
  BY <1>1, <1>2, AppendProperties, LenProperties
<1>6. \A i \in 1 .. Len(s) : Append(s, e)[i] = s[i]
  BY <1>1, <1>2, AppendProperties
<1>7. Append(s, e)[Len(s) + 1] = e
  BY <1>1, <1>2, AppendProperties
<1> QED
  BY <1>4, <1>5, <1>6, <1>7

\* The first m elements of a sequence, and the others.
LEMMA SplitAt ==
    ASSUME NEW s, IsSeq(s), NEW m \in 0 .. Len(s)
    PROVE  /\ IsSeq(SubSeq(s, 1, m)) /\ Len(SubSeq(s, 1, m)) = m
           /\ \A i \in 1 .. m : SubSeq(s, 1, m)[i] = s[i]
           /\ IsSeq(SubSeq(s, m + 1, Len(s))) /\ Len(SubSeq(s, m + 1, Len(s))) = Len(s) - m
           /\ \A i \in 1 .. Len(s) - m : SubSeq(s, m + 1, Len(s))[i] = s[m + i]
<1>1. s \in Seq(ToSet(s)) /\ Len(s) \in Nat
  BY LenProperties DEF IsSeq
<1> DEFINE t == SubSeq(s, 1, m)
           u == SubSeq(s, m + 1, Len(s))
<1>2. t = [i \in 1 .. m |-> s[i]]
  BY <1>1 DEF t
<1>3. u = [i \in 1 .. Len(s) - m |-> s[m + i]]
  <2>1. u = [i \in 1 .. (Len(s) - (m + 1)) + 1 |-> s[((m + 1) + i) - 1]]
    BY <1>1 DEF u
  <2> QED
    BY <1>1, <2>1
<1> HIDE DEF t, u
<1>4. t = [i \in 1 .. m |-> t[i]] /\ u = [i \in 1 .. Len(s) - m |-> u[i]]
  BY <1>2, <1>3
<1>5. m \in Nat /\ Len(s) - m \in Nat
  BY <1>1
<1>6. IsSeq(t) /\ Len(t) = m
  BY <1>4, <1>5, TupleIsSeq
<1>7. IsSeq(u) /\ Len(u) = Len(s) - m
  BY <1>4, <1>5, TupleIsSeq
<1> QED
  BY <1>2, <1>3, <1>6, <1>7 DEF t, u

\* The stack starts in state 0.
LEMMA BottomFields == Bottom.state = 0 /\ Bottom.text = <<>>
BY DEF Bottom, Entry

\* A push along an edge.
LEMMA ChainPush ==
    ASSUME NEW s, NEW e, Chained(s), <<Top(s).state, e.sym, e.state>> \in Edges
    PROVE  Chained(Append(s, e)) /\ Top(Append(s, e)) = e
<1> DEFINE t == Append(s, e)
<1>1. /\ IsSeq(t) /\ t # <<>> /\ Len(s) \in Nat /\ Len(t) = Len(s) + 1
      /\ \A i \in 1 .. Len(s) : t[i] = s[i]
      /\ t[Len(s) + 1] = e
  BY AppendAt DEF Chained
<1> HIDE DEF t
<1>2. Len(s) >= 1
  BY <1>1, EmptySeq DEF Chained, IsSeq
<1>3. t[1] = Bottom
  BY <1>1, <1>2 DEF Chained
<1>4. ASSUME NEW i \in 2 .. Len(t)
      PROVE  <<t[i - 1].state, t[i].sym, t[i].state>> \in Edges
  <2>1. CASE i <= Len(s)
    <3>1. i \in 2 .. Len(s) /\ t[i] = s[i] /\ t[i - 1] = s[i - 1]
      BY <1>1, <1>2, <2>1
    <3> QED
      BY <3>1 DEF Chained
  <2>2. CASE i = Len(s) + 1
    <3>1. t[i] = e /\ t[i - 1] = s[Len(s)]
      BY <1>1, <1>2, <2>2
    <3> QED
      BY <3>1 DEF Top
  <2> QED
    BY <1>1, <2>1, <2>2
<1> QED
  BY <1>1, <1>3, <1>4 DEF Chained, Top, t

\* A pop that leaves something.
LEMMA ChainPop ==
    ASSUME NEW s, Chained(s), NEW m \in 1 .. Len(s)
    PROVE  Chained(SubSeq(s, 1, m)) /\ Top(SubSeq(s, 1, m)) = s[m]
<1>1. Len(s) \in Nat /\ IsSeq(s)
  BY LenProperties DEF Chained, IsSeq
<1> DEFINE t == SubSeq(s, 1, m)
<1>2. /\ IsSeq(t) /\ Len(t) = m
      /\ \A i \in 1 .. m : t[i] = s[i]
  BY <1>1, SplitAt
<1> HIDE DEF t
<1>3. t # <<>>
  BY <1>2
<1> QED
  BY <1>1, <1>2, <1>3 DEF Chained, Top, t

\* The states of the stack are rows of the tables, and only the first is 0.
LEMMA ChainStates ==
    ASSUME NEW s, Chained(s), NEW i \in 1 .. Len(s)
    PROVE  s[i].state \in States
<1>1. CASE i = 1
  BY <1>1, TablesAssumption, BottomFields DEF Chained
<1>2. CASE i \in 2 .. Len(s)
  <2>1. <<s[i - 1].state, s[i].sym, s[i].state>> \in Edges
    BY <1>2 DEF Chained
  <2> QED
    BY <2>1, TablesAssumption
<1> QED
  BY <1>1, <1>2

\* What lies below a state that is only entered in the course of a production.
LEMMA Below ==
    ASSUME NEW s, Chained(s), NEW p \in Productions,
           NEW d \in 0 .. Len(productionsTable[p].rhs), NEW i \in 1 .. Len(s),
           s[i].state \in After[p][d]
    PROVE  /\ d < i /\ s[i - d].state \in After[p][0]
           /\ \A k \in 1 .. d : s[(i - d) + k].sym = productionsTable[p].rhs[k]
<1> DEFINE rhs == productionsTable[p].rhs
           Lies(n, j) == /\ n < j /\ s[j - n].state \in After[p][0]
                         /\ \A k \in 1 .. n : s[(j - n) + k].sym = rhs[k]
           Q(n) == n <= Len(rhs) =>
                      \A j \in 1 .. Len(s) : s[j].state \in After[p][n] => Lies(n, j)
<1>1. Len(rhs) \in Nat
  BY RhsTuples DEF IsTuple
<1>2. Q(0)
  OBVIOUS
<1>3. ASSUME NEW n \in Nat, Q(n)
      PROVE  Q(n + 1)
  <2> SUFFICES ASSUME n + 1 <= Len(rhs), NEW j \in 1 .. Len(s), s[j].state \in After[p][n + 1]
               PROVE  Lies(n + 1, j)
    OBVIOUS
  <2>1. /\ 0 \notin After[p][n + 1]
        /\ \A e \in Edges : e[3] \in After[p][n + 1] => e[2] = rhs[n + 1] /\ e[1] \in After[p][n]
    <3>1. n + 1 \in 1 .. Len(rhs) /\ (n + 1) - 1 = n
      BY <1>1
    <3> QED
      BY <3>1, TablesAssumption
  <2>2. j # 1
    BY <2>1, BottomFields DEF Chained
  <2>3. <<s[j - 1].state, s[j].sym, s[j].state>> \in Edges
    BY <2>2 DEF Chained
  <2>4. s[j].sym = rhs[n + 1] /\ s[j - 1].state \in After[p][n]
    BY <2>1, <2>3
  <2>5. Lies(n, j - 1)
    BY <1>1, <1>3, <2>2, <2>4
  <2>6. n + 1 < j /\ s[j - (n + 1)].state \in After[p][0]
    <3>1. j - (n + 1) = (j - 1) - n
      OBVIOUS
    <3> QED
      BY <2>5, <3>1
  <2>7. ASSUME NEW k \in 1 .. n + 1
        PROVE  s[(j - (n + 1)) + k].sym = rhs[k]
    <3>1. CASE k = n + 1
      <4>1. (j - (n + 1)) + k = j
        BY <3>1
      <4> QED
        BY <2>4, <3>1, <4>1
    <3>2. CASE k \in 1 .. n
      <4>1. (j - (n + 1)) + k = ((j - 1) - n) + k
        OBVIOUS
      <4> QED
        BY <2>5, <3>2, <4>1
    <3> QED
      BY <3>1, <3>2
  <2> QED
    BY <2>6, <2>7
<1>4. \A n \in Nat : Q(n)
  <2> DEFINE T == {n \in Nat : Q(n)}
  <2> HIDE DEF Q, Lies
  <2>1. 0 \in T
    BY <1>2
  <2>3. \A n \in Nat : n \in T => n + 1 \in T
    BY <1>3
  <2>2. \A n \in Nat : n \in T
    <3> HIDE DEF T
    <3> QED
      BY <2>1, <2>3, SetInduction
  <2> QED
    BY <2>2
<1>5. Lies(d, i)
  <2>1. Q(d) /\ d <= Len(rhs)
    <3> HIDE DEF Q
    <3> QED
      BY <1>1, <1>4
  <2> HIDE DEF Lies
  <2> QED
    BY <2>1
<1> QED
  BY <1>5

\* The text of a stack that was pushed on.
LEMMA SpelledPush ==
    ASSUME NEW s, NEW e, IsSeq(s), Covers(s), e.text \in Seq(Token)
    PROVE  /\ Covers(Append(s, e)) /\ Spelled(s) \in Seq(Token)
           /\ Spelled(Append(s, e)) = Spelled(s) \o e.text
<1> DEFINE t == Append(s, e)
           x == [i \in DOMAIN s |-> s[i].text]
           y == [i \in DOMAIN t |-> t[i].text]
<1>1. /\ IsSeq(t) /\ Len(s) \in Nat /\ Len(t) = Len(s) + 1
      /\ \A i \in 1 .. Len(s) : t[i] = s[i]
      /\ t[Len(s) + 1] = e
  BY AppendAt
<1>2. DOMAIN s = 1 .. Len(s) /\ DOMAIN t = 1 .. Len(s) + 1
  <2>1. DOMAIN t = 1 .. Len(t)
    BY <1>1, LenProperties DEF IsSeq
  <2> QED
    BY <1>1, <2>1, LenProperties DEF IsSeq
<1> HIDE DEF t
<1>3. x \in Seq(Seq(Token)) /\ Len(x) = Len(s)
  <2>1. x \in [1 .. Len(s) -> Seq(Token)]
    BY <1>2 DEF Covers
  <2> QED
    BY <1>1, <2>1
<1>4. y = Append(x, e.text)
  <2>1. DOMAIN y = 1 .. Len(s) + 1 /\ y = [i \in 1 .. Len(s) + 1 |-> y[i]]
    BY <1>2
  <2>2. \A i \in 1 .. Len(s) : y[i] = x[i]
    BY <1>1, <1>2
  <2>3. y[Len(s) + 1] = e.text
    BY <1>1, <1>2
  <2>4. /\ Append(x, e.text) \in Seq(Seq(Token))
        /\ Len(Append(x, e.text)) = Len(s) + 1
        /\ \A i \in 1 .. Len(s) : Append(x, e.text)[i] = x[i]
        /\ Append(x, e.text)[Len(s) + 1] = e.text
    BY <1>3, AppendProperties
  <2>5. DOMAIN Append(x, e.text) = 1 .. Len(s) + 1
    BY <2>4, LenProperties
  <2>6. \A i \in 1 .. Len(s) + 1 : y[i] = Append(x, e.text)[i]
    <3> TAKE i \in 1 .. Len(s) + 1
    <3>1. i \in 1 .. Len(s) \/ i = Len(s) + 1
      BY <1>1
    <3> QED
      BY <2>2, <2>3, <2>4, <3>1
  <2>7. Append(x, e.text) = [i \in 1 .. Len(s) + 1 |-> Append(x, e.text)[i]]
    BY <2>4, <2>5
  <2> HIDE DEF x, y
  <2> QED
    BY <2>1, <2>6, <2>7
<1>5. FlattenSeq(y) = FlattenSeq(x) \o e.text /\ FlattenSeq(x) \in Seq(Token)
  <2> HIDE DEF x, y
  <2> QED
    BY <1>3, <1>4, FlattenAppend, FlattenType
<1>6. Covers(t)
  BY <1>1, <1>2 DEF Covers
<1> QED
  BY <1>5, <1>6 DEF Spelled, t

\* The text of a stack is that of its lower part and that of the rest.
LEMMA SpelledSplit ==
    ASSUME NEW s, IsSeq(s), Covers(s), NEW m \in 0 .. Len(s)
    PROVE  LET es == SubSeq(s, m + 1, Len(s))
               x  == FlattenSeq([i \in DOMAIN es |-> es[i].text])
           IN  /\ Covers(SubSeq(s, 1, m)) /\ Spelled(SubSeq(s, 1, m)) \in Seq(Token)
               /\ x \in Seq(Token)
               /\ Spelled(s) = Spelled(SubSeq(s, 1, m)) \o x
<1> DEFINE t  == SubSeq(s, 1, m)
           es == SubSeq(s, m + 1, Len(s))
           x  == [i \in DOMAIN t |-> t[i].text]
           y  == [i \in DOMAIN es |-> es[i].text]
           z  == [i \in DOMAIN s |-> s[i].text]
<1>1. /\ IsSeq(t) /\ Len(t) = m
      /\ \A i \in 1 .. m : t[i] = s[i]
      /\ IsSeq(es) /\ Len(es) = Len(s) - m
      /\ \A i \in 1 .. Len(s) - m : es[i] = s[m + i]
  BY SplitAt
<1>2. Len(s) \in Nat /\ DOMAIN s = 1 .. Len(s)
  BY LenProperties DEF IsSeq
<1> HIDE DEF t, es
<1>3. DOMAIN t = 1 .. m /\ DOMAIN es = 1 .. Len(s) - m
  BY <1>1, LenProperties DEF IsSeq
<1>4. z \in Seq(Seq(Token)) /\ Len(z) = Len(s)
  <2>1. z \in [1 .. Len(s) -> Seq(Token)]
    BY <1>2 DEF Covers
  <2> QED
    BY <1>2, <2>1
<1>5. Covers(t) /\ x \in Seq(Seq(Token)) /\ Len(x) = m /\ \A i \in 1 .. m : x[i] = z[i]
  <2>1. Covers(t)
    BY <1>1, <1>2, <1>3 DEF Covers
  <2>2. x \in [1 .. m -> Seq(Token)]
    BY <1>3, <2>1 DEF Covers
  <2>3. \A i \in 1 .. m : x[i] = z[i]
    BY <1>1, <1>2, <1>3
  <2>4. x \in Seq(Seq(Token)) /\ Len(x) = m
    <3> HIDE DEF x
    <3>1. m \in Nat
      BY <1>2
    <3> QED
      BY <2>2, <3>1
  <2> QED
    BY <2>1, <2>3, <2>4
<1>6. /\ y \in Seq(Seq(Token)) /\ Len(y) = Len(s) - m
      /\ \A i \in 1 .. Len(s) - m : y[i] = z[m + i]
  <2>1. \A i \in 1 .. Len(s) - m : y[i] = z[m + i] /\ m + i \in 1 .. Len(s)
    BY <1>1, <1>2, <1>3
  <2>2. y \in [1 .. Len(s) - m -> Seq(Token)]
    <3>1. \A i \in 1 .. Len(s) - m : es[i].text \in Seq(Token)
      BY <1>1, <1>2 DEF Covers
    <3> QED
      BY <1>3, <3>1
  <2> QED
    BY <1>2, <2>1, <2>2
<1>7. z = x \o y
  <2> HIDE DEF x, y, z
  <2>1. /\ x \o y \in Seq(Seq(Token)) /\ Len(x \o y) = Len(s)
        /\ \A i \in 1 .. Len(s) : (x \o y)[i] = IF i <= m THEN x[i] ELSE y[i - m]
    <3>1. x \in Seq(Seq(Token)) /\ y \in Seq(Seq(Token))
      BY <1>5, <1>6
    <3>2. /\ x \o y \in Seq(Seq(Token)) /\ Len(x \o y) = Len(x) + Len(y)
          /\ \A i \in 1 .. Len(x) + Len(y) : (x \o y)[i] = IF i <= Len(x) THEN x[i] ELSE y[i - Len(x)]
      BY <3>1, ConcatProperties
    <3>3. Len(x) = m /\ Len(x) + Len(y) = Len(s)
      BY <1>2, <1>5, <1>6
    <3> QED
      BY <3>2, <3>3
  <2>2. \A i \in 1 .. Len(s) : (x \o y)[i] = z[i]
    BY <1>2, <1>5, <1>6, <2>1
  <2>3. z = [i \in 1 .. Len(s) |-> z[i]] /\ x \o y = [i \in 1 .. Len(s) |-> (x \o y)[i]]
    BY <1>4, <2>1, LenProperties
  <2> QED
    BY <2>2, <2>3
<1>8. /\ FlattenSeq(z) = FlattenSeq(x) \o FlattenSeq(y)
      /\ FlattenSeq(x) \in Seq(Token) /\ FlattenSeq(y) \in Seq(Token)
  <2> HIDE DEF x, y, z
  <2> QED
    BY <1>5, <1>6, <1>7, FlattenConcat, FlattenType
<1> QED
  BY <1>5, <1>8 DEF Spelled, t, es

-----------------------------------------------------------------------------
(* What has been read is what the stack covers.                            *)

\* One goroutine parses, any number of texts one after the other: the parser has no lock.
OneCaller == \E g : Callers = {g}

\* The functions of the model have the callers as their domains.
Domains ==
    /\ DOMAIN pc = Callers /\ DOMAIN kind = Callers /\ DOMAIN word = Callers
    /\ DOMAIN text = Callers /\ DOMAIN local = Callers /\ DOMAIN used = Callers
    /\ DOMAIN result = Callers

\* Between a pop and the push that follows it, the state on top has a goto for what is
\* to be pushed.
Awaited(g) ==
    /\ local[g].p \in Productions \ {0}
    /\ Top(stack).state \in After[local[g].p][0]
    /\ local[g].entry.sym = productionsTable[local[g].p].id
    /\ LET e == local[g].entry IN e = Entry(0, e.val, e.sym, e.text, e.meaning)
    /\ local[g].entry.text \in Seq(Token)

\* What holds of a caller in Parse.
Parsing(g) ==
    /\ Chained(stack) /\ Covers(stack)
    /\ text[g] \in Seq(Token) /\ kind[g] \in Kinds /\ word[g] \in Seq(TokenTypes)
    /\ pc[g] = "scan" => Spelled(stack) = text[g]
    /\ pc[g] = "loop" => Append(Spelled(stack), nextToken) = text[g]
    /\ pc[g] = "push" => /\ Awaited(g)
                         /\ Append(Spelled(stack) \o local[g].entry.text, nextToken) = text[g]

\* The invariant.
TextInv ==
    /\ Domains /\ nextToken \in Token
    /\ \A g \in Callers : pc[g] # "idle" => Parsing(g)

\* What the tables say of an action, given how the stack was built.
LEMMA ActionFits ==
    ASSUME Chained(stack), HasAction
    PROVE  /\ Len(stack) \in Nat /\ Len(stack) >= 1 /\ Top(stack).state \in States
           /\ Action.kind = "shift" =>
                <<Top(stack).state, nextToken.type, Action.n>> \in Edges
           /\ Action.kind = "accept" => Len(stack) >= 2 /\ Top(stack).sym = "QueryUnit"
           /\ Action.kind = "reduce" =>
                LET rhs == productionsTable[Action.n].rhs
                    lo  == Len(stack) - Len(rhs)
                IN  /\ Action.n \in Productions \ {0} /\ IsTuple(rhs)
                    /\ lo \in 1 .. Len(stack) /\ stack[lo].state \in After[Action.n][0]
                    /\ \A k \in 1 .. Len(rhs) : stack[lo + k].sym = rhs[k]
<1>1. Len(stack) \in Nat /\ Len(stack) >= 1
  BY LenProperties, EmptySeq DEF Chained, IsSeq
<1>2. Top(stack).state \in States /\ nextToken.type \in DOMAIN actionTab[Top(stack).state]
  BY DEF HasAction, InRange
<1> DEFINE s == Top(stack).state
           act == actionTab[s][nextToken.type]
<1>3. Action = act
  BY DEF Action
<1>4. Action.kind = "shift" => <<s, nextToken.type, Action.n>> \in Edges
  <2> SUFFICES ASSUME act.kind = "shift" PROVE <<s, nextToken.type, act.n>> \in Edges
    BY <1>3
  <2> HIDE DEF act
  <2>1. nextToken.type \in {x \in DOMAIN actionTab[s] : actionTab[s][x].kind = "shift"}
    BY <1>2 DEF act
  <2>2. <<s, nextToken.type, act.n>> \in {<<s, tok, actionTab[s][tok].n>> :
              tok \in {x \in DOMAIN actionTab[s] : actionTab[s][x].kind = "shift"}}
    BY <2>1 DEF act
  <2> HIDE DEF s
  <2>3. <<s, nextToken.type, act.n>> \in ShiftEdges
    BY <1>2, <2>2 DEF ShiftEdges, s
  <2> QED
    BY <2>3 DEF Edges
<1>5. \/ act.kind = "shift"
      \/ /\ act.kind = "reduce" /\ act.n \in Productions \ {0}
         /\ s \in After[act.n][Len(productionsTable[act.n].rhs)]
      \/ act.kind = "accept" /\ s \in After[0][1]
  BY <1>2, TablesAssumption
<1>6. s = stack[Len(stack)].state /\ Len(stack) \in 1 .. Len(stack)
  BY <1>1 DEF Top
<1> HIDE DEF s, act
<1>9. ASSUME NEW p \in Productions, NEW d \in 0 .. Len(productionsTable[p].rhs), s \in After[p][d]
      PROVE  /\ d < Len(stack) /\ stack[Len(stack) - d].state \in After[p][0]
             /\ \A k \in 1 .. d : stack[(Len(stack) - d) + k].sym = productionsTable[p].rhs[k]
  BY <1>6, <1>9, Below
<1>7. ASSUME Action.kind = "accept"
      PROVE  Len(stack) >= 2 /\ Top(stack).sym = "QueryUnit"
  <2>1. s \in After[0][1]
    BY <1>3, <1>5, <1>7
  <2>2. productionsTable[0].rhs = <<"QueryUnit">> /\ 0 \in Productions
    <3>1. Row(0, Prod("S'", <<"QueryUnit">>, "attrib", <<1>>))
      BY QueryRows
    <3>2. 0 \in Productions
      BY TableRows
    <3> QED
      BY <3>1, <3>2 DEF Row, Prod
  <2>3. Len(productionsTable[0].rhs) = 1 /\ productionsTable[0].rhs[1] = "QueryUnit"
    BY <2>2
  <2>4. 1 < Len(stack) /\ stack[(Len(stack) - 1) + 1].sym = productionsTable[0].rhs[1]
    <3>1. 1 \in 0 .. Len(productionsTable[0].rhs)
      BY <2>3
    <3>2. 1 < Len(stack) /\ \A k \in 1 .. 1 : stack[(Len(stack) - 1) + k].sym = productionsTable[0].rhs[k]
      BY <1>9, <2>1, <2>2, <3>1
    <3> QED
      BY <3>2
  <2> QED
    BY <1>1, <2>3, <2>4 DEF Top
<1>8. ASSUME Action.kind = "reduce"
      PROVE  LET rhs == productionsTable[Action.n].rhs
                 lo  == Len(stack) - Len(rhs)
             IN  /\ Action.n \in Productions \ {0} /\ IsTuple(rhs)
                 /\ lo \in 1 .. Len(stack) /\ stack[lo].state \in After[Action.n][0]
                 /\ \A k \in 1 .. Len(rhs) : stack[lo + k].sym = rhs[k]
  <2> DEFINE p == Action.n
             d == Len(productionsTable[p].rhs)
  <2>1. p \in Productions \ {0} /\ s \in After[p][d]
    BY <1>3, <1>5, <1>8
  <2>2. IsTuple(productionsTable[p].rhs) /\ d \in Nat
    BY <2>1, RhsTuples DEF IsTuple
  <2> HIDE DEF p
  <2>3. /\ d < Len(stack) /\ stack[Len(stack) - d].state \in After[p][0]
        /\ \A k \in 1 .. d : stack[(Len(stack) - d) + k].sym = productionsTable[p].rhs[k]
    <3>1. d \in 0 .. Len(productionsTable[p].rhs)
      BY <2>2
    <3> HIDE DEF d
    <3> QED
      BY <1>9, <2>1, <3>1
  <2>4. Len(stack) - d \in 1 .. Len(stack)
    BY <1>1, <2>2, <2>3
  <2> QED
    BY <2>1, <2>2, <2>3, <2>4 DEF p
<1> QED
  BY <1>1, <1>2, <1>4, <1>7, <1>8 DEF s

\* So the property follows from the invariant.
LEMMA TextInvImplies == TextInv => StackParsesText
<1> SUFFICES ASSUME TextInv, NEW g \in Callers, pc[g] = "loop"
             PROVE  /\ Append(Spelled(stack), nextToken) = text[g]
                    /\ HasAction /\ Action.kind = "reduce" =>
                          LET rhs == productionsTable[Action.n].rhs
                              lo  == Len(stack) - Len(rhs)
                          IN  lo >= 1 /\ [i \in DOMAIN rhs |-> stack[lo + i].sym] = rhs
  BY DEF StackParsesText
<1>1. Chained(stack) /\ Append(Spelled(stack), nextToken) = text[g]
  BY DEF TextInv, Parsing
<1> SUFFICES ASSUME HasAction, Action.kind = "reduce"
             PROVE  LET rhs == productionsTable[Action.n].rhs
                        lo  == Len(stack) - Len(rhs)
                    IN  lo >= 1 /\ [i \in DOMAIN rhs |-> stack[lo + i].sym] = rhs
  BY <1>1
<1> DEFINE rhs == productionsTable[Action.n].rhs
           lo  == Len(stack) - Len(rhs)
<1>2. /\ IsTuple(rhs) /\ lo \in 1 .. Len(stack)
      /\ \A k \in 1 .. Len(rhs) : stack[lo + k].sym = rhs[k]
  BY <1>1, ActionFits
<1> HIDE DEF rhs, lo
<1>3. DOMAIN rhs = 1 .. Len(rhs) /\ rhs = [k \in DOMAIN rhs |-> rhs[k]]
  BY <1>2 DEF IsTuple
<1>4. [k \in DOMAIN rhs |-> stack[lo + k].sym] = rhs
  BY <1>2, <1>3
<1> QED
  BY <1>2, <1>4 DEF rhs, lo

\* A token that is read.
LEMMA ScanGives ==
    ASSUME TextInv, NEW g \in Callers, pc[g] # "idle", NEW w \in NextWords(g)
    PROVE  /\ [type |-> Head(w), n |-> Len(text[g]) + 1] \in Token
           /\ Tail(w) \in Seq(TokenTypes)
<1>1. text[g] \in Seq(Token) /\ kind[g] \in Kinds /\ word[g] \in Seq(TokenTypes)
  BY DEF TextInv, Parsing
<1>2. w \in Seq(TokenTypes) /\ w # <<>>
  <2>1. CASE word[g] # <<>>
    BY <1>1, <2>1 DEF NextWords
  <2>2. CASE word[g] = <<>> /\ words[g] < kind[g].max
    <3>1. w \in Seq(STRING) /\ w # <<>>
      BY <1>1, <2>2, QueryParserAssumption DEF NextWords
    <3>2. STRING \subseteq TokenTypes
      BY DEF TokenTypes
    <3> QED
      BY <3>1, <3>2, SeqMonotonic
  <2>3. CASE word[g] = <<>> /\ ~(words[g] < kind[g].max)
    <3> DEFINE d == <<"$">>
    <3>1. d \in Seq(TokenTypes) /\ d # <<>>
      BY DEF TokenTypes
    <3> HIDE DEF d
    <3>2. NextWords(g) = {d}
      BY <2>3 DEF NextWords, d
    <3> QED
      BY <3>1, <3>2
  <2> QED
    BY <2>1, <2>2, <2>3
<1>3. Head(w) \in TokenTypes /\ Tail(w) \in Seq(TokenTypes)
  BY <1>2, HeadTailProperties
<1>4. Len(text[g]) + 1 \in Nat
  BY <1>1, LenProperties
<1> QED
  BY <1>3, <1>4 DEF Token

\* What a reduction pops, and what it leaves.
LEMMA Popped ==
    ASSUME TextInv, NEW g \in Callers, pc[g] = "loop", HasAction, Action.kind = "reduce"
    PROVE  LET p  == Action.n
               n  == Len(productionsTable[p].rhs)
               lo == Len(stack) - n
               es == SubSeq(stack, lo + 1, Len(stack))
               tx == FlattenSeq([i \in DOMAIN es |-> es[i].text])
               s  == SubSeq(stack, 1, lo)
           IN  /\ p \in Productions \ {0} /\ lo \in 1 .. Len(stack)
               /\ IsSeq(es) /\ Len(es) = n /\ DOMAIN es = 1 .. n
               /\ \A i \in 1 .. n : /\ lo + i \in 2 .. Len(stack) /\ es[i] = stack[lo + i]
                                    /\ es[i].sym = productionsTable[p].rhs[i]
                                    /\ es[i].text \in Seq(Token)
               /\ Chained(s) /\ Covers(s) /\ Top(s).state \in After[p][0]
               /\ tx \in Seq(Token)
               /\ Append(Spelled(s) \o tx, nextToken) = text[g]
<1> DEFINE p  == Action.n
           n  == Len(productionsTable[p].rhs)
           lo == Len(stack) - n
           es == SubSeq(stack, lo + 1, Len(stack))
           tx == FlattenSeq([i \in DOMAIN es |-> es[i].text])
           s  == SubSeq(stack, 1, lo)
<1>1. /\ Chained(stack) /\ Covers(stack)
      /\ Append(Spelled(stack), nextToken) = text[g]
  BY DEF TextInv, Parsing
<1>2. /\ p \in Productions \ {0} /\ IsTuple(productionsTable[p].rhs)
      /\ lo \in 1 .. Len(stack) /\ stack[lo].state \in After[p][0]
      /\ \A k \in 1 .. n : stack[lo + k].sym = productionsTable[p].rhs[k]
      /\ Len(stack) \in Nat
  BY <1>1, ActionFits
<1>3. n \in Nat /\ IsSeq(stack) /\ Len(stack) - lo = n
  BY <1>1, <1>2 DEF IsTuple, Chained
<1> HIDE DEF p, n, lo
<1>4. /\ IsSeq(es) /\ Len(es) = n
      /\ \A i \in 1 .. n : es[i] = stack[lo + i]
  <2>1. lo \in 0 .. Len(stack)
    BY <1>2
  <2> QED
    BY <1>3, <2>1, SplitAt
<1>5. DOMAIN es = 1 .. n
  BY <1>4, LenProperties DEF IsSeq
<1>6. \A i \in 1 .. n : lo + i \in 2 .. Len(stack)
  BY <1>2, <1>3
<1>7. /\ Covers(s) /\ Spelled(s) \in Seq(Token)
      /\ tx \in Seq(Token)
      /\ Spelled(stack) = Spelled(s) \o tx
  <2>1. lo \in 0 .. Len(stack)
    BY <1>2
  <2> QED
    BY <1>1, <1>3, <2>1, SpelledSplit
<1>8. Chained(s) /\ Top(s).state \in After[p][0]
  BY <1>1, <1>2, ChainPop
<1>9. \A i \in 1 .. n : es[i].text \in Seq(Token)
  <2>1. DOMAIN stack = 1 .. Len(stack)
    BY <1>3, LenProperties DEF IsSeq
  <2>2. \A j \in 1 .. Len(stack) : stack[j].text \in Seq(Token)
    BY <1>1, <2>1 DEF Covers
  <2>3. \A i \in 1 .. n : lo + i \in 1 .. Len(stack)
    BY <1>6
  <2> QED
    BY <1>4, <2>2, <2>3
<1> HIDE DEF es, tx, s
<1>10. Append(Spelled(s) \o tx, nextToken) = text[g]
  BY <1>1, <1>7
<1> QED
  BY <1>2, <1>4, <1>5, <1>6, <1>7, <1>8, <1>9, <1>10 DEF p, n, lo, es, tx, s

\* The stack that Parse starts on.
LEMMA EmptyStack == Chained(<<Bottom>>) /\ Covers(<<Bottom>>) /\ Spelled(<<Bottom>>) = <<>>
<1>1. IsSeq(<<Bottom>>) /\ <<Bottom>> # <<>> /\ Len(<<Bottom>>) = 1
  <2>1. <<Bottom>> = [i \in 1 .. 1 |-> <<Bottom>>[i]]
    OBVIOUS
  <2> QED
    BY <2>1, TupleIsSeq
<1>2. Chained(<<Bottom>>)
  <2>1. <<Bottom>>[1] = Bottom /\ 2 .. Len(<<Bottom>>) = {}
    OBVIOUS
  <2> QED
    BY <1>1, <2>1 DEF Chained
<1>3. Covers(<<Bottom>>)
  <2>1. \A i \in DOMAIN <<Bottom>> : <<Bottom>>[i] = Bottom
    OBVIOUS
  <2>2. Bottom.text \in Seq(Token)
    BY BottomFields
  <2> QED
    BY <2>1, <2>2 DEF Covers
<1>4. [i \in DOMAIN <<Bottom>> |-> <<Bottom>>[i].text] = <<Bottom.text>>
  OBVIOUS
<1>5. Spelled(<<Bottom>>) = <<>>
  <2>1. FlattenSeq(<<Bottom.text>>) = Bottom.text
    <3>1. Bottom.text \in Seq(Token)
      BY BottomFields
    <3> QED
      BY <3>1, FlattenFew
  <2> QED
    BY <1>4, <2>1, BottomFields DEF Spelled
<1> QED
  BY <1>2, <1>3, <1>5

\* A reader that goes idle leaves nothing to show.
LEMMA TextInvIdle ==
    ASSUME TextInv, NEW g, Callers = {g}, Domains', nextToken' \in Token, pc'[g] = "idle"
    PROVE  TextInv'
BY DEF TextInv

\* A goto is an edge.
LEMMA GotoEdge ==
    ASSUME NEW s \in States, NEW X \in DOMAIN gotoTab[s]
    PROVE  <<s, X, gotoTab[s][X]>> \in Edges
<1>1. <<s, X, gotoTab[s][X]>> \in {<<s, Y, gotoTab[s][Y]>> : Y \in DOMAIN gotoTab[s]}
  OBVIOUS
<1>2. <<s, X, gotoTab[s][X]>> \in GotoEdges
  BY <1>1 DEF GotoEdges
<1> QED
  BY <1>2 DEF Edges

\* The inductive step.
LEMMA TextInvStep ==
    ASSUME OneCaller, TextInv, [Next]_vars
    PROVE  TextInv'
<1> PICK c : Callers = {c}
  BY DEF OneCaller
<1> USE DEF TextInv
<1>1. ASSUME NEW g \in Callers, Begin(g)
      PROVE  TextInv'
  <2>1. Domains' /\ nextToken' \in Token
    BY <1>1 DEF Begin, Domains
  <2>2. stack' = <<Bottom>> /\ pc'[g] = "scan" /\ kind'[g] \in Kinds
        /\ word'[g] = <<>> /\ text'[g] = <<>>
    BY <1>1 DEF Begin, Domains
  <2>3. Parsing(g)'
    BY <2>2, EmptyStack DEF Parsing
  <2> QED
    BY <2>1, <2>3
<1>2. ASSUME NEW g \in Callers, Scan(g)
      PROVE  TextInv'
  <2>1. PICK w \in NextWords(g) :
          LET tok == [type |-> Head(w), n |-> Len(text[g]) + 1]
          IN  /\ nextToken' = tok
              /\ text' = [text EXCEPT ![g] = Append(@, tok)]
              /\ word' = [word EXCEPT ![g] = Tail(w)]
    BY <1>2 DEF Scan
  <2> DEFINE tok == [type |-> Head(w), n |-> Len(text[g]) + 1]
  <2>2. tok \in Token /\ Tail(w) \in Seq(TokenTypes)
    BY <1>2, ScanGives DEF Scan
  <2> HIDE DEF tok
  <2>3. /\ nextToken' = tok /\ text'[g] = Append(text[g], tok) /\ word'[g] = Tail(w)
        /\ pc'[g] = "loop" /\ stack' = stack /\ kind' = kind
    BY <1>2, <2>1 DEF Scan, Domains, tok
  <2>4. Domains'
    BY <1>2, <2>1 DEF Scan, Domains
  <2>5. /\ Chained(stack) /\ Covers(stack) /\ Spelled(stack) = text[g]
        /\ text[g] \in Seq(Token) /\ kind[g] \in Kinds
    BY <1>2 DEF Scan, Parsing
  <2>6. Append(text[g], tok) \in Seq(Token)
    BY <2>2, <2>5, AppendProperties
  <2>7. Parsing(g)'
    BY <2>2, <2>3, <2>5, <2>6 DEF Parsing, Spelled, Covers, Chained
  <2> QED
    BY <2>2, <2>3, <2>4, <2>7
<1>3. ASSUME NEW g \in Callers, Shifts(g)
      PROVE  TextInv'
  <2> DEFINE e == Entry(Action.n, Val("Token", nextToken), nextToken.type, <<nextToken>>, True)
  <2>1. /\ stack' = Append(stack, e) /\ pc'[g] = "scan"
        /\ nextToken' = nextToken /\ text' = text /\ kind' = kind /\ word' = word
        /\ local' = local /\ Domains'
    BY <1>3 DEF Shifts, Domains
  <2>2. e.state = Action.n /\ e.sym = nextToken.type /\ e.text = <<nextToken>>
    BY DEF Entry
  <2> HIDE DEF e
  <2>3. /\ Chained(stack) /\ Covers(stack) /\ Append(Spelled(stack), nextToken) = text[g]
        /\ text[g] \in Seq(Token) /\ kind[g] \in Kinds /\ word[g] \in Seq(TokenTypes)
    BY <1>3 DEF Shifts, Parsing
  <2>4. Chained(Append(stack, e))
    <3>1. <<Top(stack).state, e.sym, e.state>> \in Edges
      BY <1>3, <2>2, <2>3, ActionFits DEF Shifts
    <3> QED
      BY <2>3, <3>1, ChainPush
  <2>5. Covers(Append(stack, e)) /\ Spelled(Append(stack, e)) = text[g]
    <3>1. e.text \in Seq(Token) /\ IsSeq(stack)
      BY <2>2, <2>3 DEF Chained
    <3>2. /\ Covers(Append(stack, e)) /\ Spelled(stack) \in Seq(Token)
          /\ Spelled(Append(stack, e)) = Spelled(stack) \o <<nextToken>>
      BY <2>2, <2>3, <3>1, SpelledPush
    <3>3. Spelled(stack) \o <<nextToken>> = Append(Spelled(stack), nextToken)
      BY <3>2
    <3> QED
      BY <2>3, <3>2, <3>3
  <2>6. Parsing(g)'
    BY <2>1, <2>3, <2>4, <2>5 DEF Parsing, Spelled, Covers, Chained
  <2> QED
    BY <2>1, <2>6
<1>4. ASSUME NEW g \in Callers, Reduces(g)
      PROVE  TextInv'
  <2> DEFINE p  == Action.n
             lo == Len(stack) - Len(productionsTable[p].rhs)
             es == SubSeq(stack, lo + 1, Len(stack))
             tx == FlattenSeq([i \in DOMAIN es |-> es[i].text])
             s  == SubSeq(stack, 1, lo)
  <2>1. /\ stack' = s /\ pc'[g] = "push"
        /\ local'[g].p = p /\ local'[g].entry.sym = productionsTable[p].id
        /\ local'[g].entry.text = tx
        /\ LET e == local'[g].entry IN e = Entry(0, e.val, e.sym, e.text, e.meaning)
    BY <1>4 DEF Reduces, Entry, Domains
  <2>2. Domains' /\ nextToken' = nextToken /\ text' = text /\ kind' = kind /\ word' = word
    BY <1>4 DEF Reduces, Domains
  <2>3. text[g] \in Seq(Token) /\ kind[g] \in Kinds /\ word[g] \in Seq(TokenTypes)
    BY <1>4 DEF Reduces, Parsing
  <2>4. /\ p \in Productions \ {0} /\ Chained(s) /\ Covers(s) /\ Top(s).state \in After[p][0]
        /\ tx \in Seq(Token) /\ Append(Spelled(s) \o tx, nextToken) = text[g]
    <3>1. pc[g] = "loop" /\ HasAction /\ Action.kind = "reduce"
      BY <1>4 DEF Reduces
    <3> QED
      BY <3>1, Popped
  <2> HIDE DEF p, lo, es, tx, s
  <2>5. Parsing(g)'
    BY <2>1, <2>2, <2>3, <2>4 DEF Parsing, Awaited, Spelled, Covers, Chained, Top
  <2> QED
    BY <2>2, <2>5
<1>5. ASSUME NEW g \in Callers, Pushes(g)
      PROVE  TextInv'
  <2> DEFINE X == local[g].entry
             p == local[g].p
             row == gotoTab[Top(stack).state]
             e == [X EXCEPT !.state = IF productionsTable[p].id \in DOMAIN row
                                      THEN row[productionsTable[p].id] ELSE -1]
  <2>1. /\ stack' = Append(stack, e) /\ pc'[g] = "loop" /\ Domains'
        /\ nextToken' = nextToken /\ text' = text /\ kind' = kind /\ word' = word
    BY <1>5 DEF Pushes, Domains
  <2>2. /\ Chained(stack) /\ Covers(stack) /\ Awaited(g)
        /\ Append(Spelled(stack) \o X.text, nextToken) = text[g]
        /\ text[g] \in Seq(Token) /\ kind[g] \in Kinds /\ word[g] \in Seq(TokenTypes)
    BY <1>5 DEF Pushes, Parsing
  <2>3. /\ X.sym = productionsTable[p].id /\ X.text \in Seq(Token)
        /\ X = Entry(0, X.val, X.sym, X.text, X.meaning)
    BY <2>2 DEF Awaited
  <2>4. Top(stack).state \in States /\ productionsTable[p].id \in DOMAIN row
    BY <2>2, TablesAssumption DEF Awaited
  <2> HIDE DEF X
  <2>5. e.sym = X.sym /\ e.text = X.text /\ e.state = row[X.sym]
    BY <2>3, <2>4 DEF Entry
  <2> HIDE DEF e, p
  <2>6. Chained(Append(stack, e))
    <3>1. e.sym \in DOMAIN row /\ e.state = row[e.sym]
      BY <2>3, <2>4, <2>5
    <3>2. <<Top(stack).state, e.sym, e.state>> \in Edges
      BY <2>4, <3>1, GotoEdge
    <3> QED
      BY <2>2, <3>2, ChainPush
  <2>7. Covers(Append(stack, e)) /\ Spelled(Append(stack, e)) = Spelled(stack) \o X.text
    <3>1. IsSeq(stack)
      BY <2>2 DEF Chained
    <3> QED
      BY <2>2, <2>3, <2>5, <3>1, SpelledPush
  <2>8. Parsing(g)'
    BY <2>1, <2>2, <2>6, <2>7 DEF Parsing, Spelled, Covers, Chained
  <2> QED
    BY <2>1, <2>8
<1>6. ASSUME NEW g \in Callers, Accepts(g) \/ Rejects(g) \/ Crashes(g)
      PROVE  TextInv'
  <2>1. Domains' /\ nextToken' \in Token /\ pc'[g] = "idle" /\ Callers = {g}
    BY <1>6 DEF Accepts, Rejects, Crashes, Returns, Domains
  <2> QED
    BY <2>1, TextInvIdle
<1>7. ASSUME UNCHANGED vars
      PROVE  TextInv'
  <2>1. /\ stack' = stack /\ nextToken' = nextToken /\ pc' = pc /\ kind' = kind /\ word' = word
        /\ text' = text /\ local' = local /\ used' = used /\ result' = result
    BY <1>7 DEF vars
  <2>2. Domains'
    BY <2>1 DEF Domains
  <2>3. ASSUME NEW g \in Callers, pc[g] # "idle"
        PROVE  Parsing(g)'
    <3>1. Parsing(g)
      BY <2>3
    <3> QED
      BY <2>1, <3>1 DEF Parsing, Awaited, Chained, Covers, Spelled, Top
  <2> QED
    BY <2>1, <2>2, <2>3
<1> QED
  BY <1>1, <1>2, <1>3, <1>4, <1>5, <1>6, <1>7 DEF Next

\* The inductive invariant, and so the property, of a parser with one caller.
LEMMA TextInvInit == Init => TextInv
<1> SUFFICES ASSUME Init PROVE TextInv
  OBVIOUS
<1>1. Domains /\ \A g \in Callers : pc[g] = "idle"
  BY DEF Init, Domains
<1>2. nextToken \in Token
  BY DEF Init, EOF, Token, TokenTypes
<1> QED
  BY <1>1, <1>2 DEF TextInv

\* A text is only ever reduced or accepted as the grammar derives it: at every turn of the
\* loop in parser.go's Parse the stack covers what has been scanned, and a production that
\* is reduced has its symbols on top.
THEOREM StackAlwaysParsesText ==
    ASSUME OneCaller
    PROVE  Spec => []StackParsesText
<1>1. Init => TextInv
  BY TextInvInit
<1>2. TextInv /\ [Next]_vars => TextInv'
  BY TextInvStep
<1>3. TextInv => StackParsesText
  BY TextInvImplies
<1> QED
  BY <1>1, <1>2, <1>3, PTL DEF Spec

-----------------------------------------------------------------------------
(* What the grammar means by a text.                                       *)

\* Parts that mean nothing.
LEMMA ConjunctionNone ==
    ASSUME NEW m, \A i \in DOMAIN m : m[i] = True
    PROVE  Conjunction(m) = True
<1> DEFINE parts == {i \in DOMAIN m : m[i] # True}
           picks == {c \in [parts -> UNION {m[i] : i \in parts}] : \A i \in parts : c[i] \in m[i]}
<1>1. parts = {}
  OBVIOUS
<1>2. Conjunction(m) = {UNION {c[i] : i \in parts} : c \in picks}
  BY DEF Conjunction
<1>3. \A c \in picks : UNION {c[i] : i \in parts} = {}
  <2> HIDE DEF picks
  <2>1. \A c : {c[i] : i \in parts} = {}
    BY <1>1
  <2> QED
    BY <2>1
<1>4. [i \in parts |-> i] \in picks
  BY <1>1
<1> HIDE DEF parts, picks
<1>5. \A x : x \in Conjunction(m) <=> x = {}
  BY <1>2, <1>3, <1>4
<1> QED
  BY <1>5 DEF True

\* Two parts: an alternative of the one with an alternative of the other.
LEMMA ConjunctionTwo ==
    ASSUME NEW m, NEW j \in DOMAIN m, NEW k \in DOMAIN m, j # k,
           \A i \in DOMAIN m \ {j, k} : m[i] = True
    PROVE  Conjunction(m) = {a \cup b : a \in m[j], b \in m[k]}
<1> DEFINE parts == {i \in DOMAIN m : m[i] # True}
           picks == {c \in [parts -> UNION {m[i] : i \in parts}] : \A i \in parts : c[i] \in m[i]}
           U(c)  == UNION {c[i] : i \in parts}
<1>1. parts \subseteq {j, k} /\ (j \notin parts => m[j] = {{}}) /\ (k \notin parts => m[k] = {{}})
  BY DEF True
<1>2. Conjunction(m) = {U(c) : c \in picks}
  BY DEF Conjunction
<1>3. ASSUME NEW c \in picks
      PROVE  U(c) \in {a \cup b : a \in m[j], b \in m[k]}
  <2> DEFINE a == IF j \in parts THEN c[j] ELSE {}
             b == IF k \in parts THEN c[k] ELSE {}
  <2>0. \A i \in parts : c[i] \in m[i]
    OBVIOUS
  <2>1. a \in m[j] /\ b \in m[k]
    <3> HIDE DEF parts, picks
    <3> QED
      BY <1>1, <2>0
  <2>2. U(c) = a \cup b
    <3> HIDE DEF parts, picks
    <3>1. \A x : x \in U(c) <=> \E i \in parts : x \in c[i]
      OBVIOUS
    <3>2. \A x : x \in U(c) <=> x \in a \/ x \in b
      BY <1>1, <3>1
    <3> QED
      BY <3>2
  <2> HIDE DEF a, b, parts, picks, U
  <2> QED
    BY <2>1, <2>2
<1>4. ASSUME NEW a \in m[j], NEW b \in m[k]
      PROVE  \E c \in picks : U(c) = a \cup b
  <2> DEFINE c == [i \in parts |-> IF i = j THEN a ELSE b]
  <2>1. \A i \in parts : c[i] \in m[i]
    <3> HIDE DEF parts
    <3> QED
      BY <1>1
  <2>2. c \in picks
    <3> HIDE DEF parts
    <3>1. \A i \in parts : c[i] \in UNION {m[y] : y \in parts}
      BY <2>1
    <3>2. c \in [parts -> UNION {m[y] : y \in parts}]
      BY <3>1
    <3> HIDE DEF c
    <3> QED
      BY <2>1, <3>2
  <2>3. U(c) = a \cup b
    <3> HIDE DEF parts
    <3>1. \A x : x \in U(c) <=> \E i \in parts : x \in c[i]
      OBVIOUS
    <3>2. (j \notin parts => a = {}) /\ (k \notin parts => b = {})
      BY <1>1
    <3>3. \A x : x \in U(c) <=> x \in a \/ x \in b
      BY <1>1, <3>1, <3>2
    <3> QED
      BY <3>3
  <2> HIDE DEF c, U
  <2> QED
    BY <2>2, <2>3
<1> HIDE DEF parts, picks, U
<1>5. \A x : x \in Conjunction(m) <=> x \in {a \cup b : a \in m[j], b \in m[k]}
  <2>1. \A x : x \in Conjunction(m) => x \in {a \cup b : a \in m[j], b \in m[k]}
    BY <1>2, <1>3
  <2>2. \A a \in m[j] : \A b \in m[k] : a \cup b \in Conjunction(m)
    BY <1>2, <1>4
  <2> QED
    BY <2>1, <2>2
<1> QED
  BY <1>5

\* One part: its own alternatives.
LEMMA ConjunctionOne ==
    ASSUME NEW m, NEW k \in DOMAIN m, \A i \in DOMAIN m \ {k} : m[i] = True
    PROVE  Conjunction(m) = m[k]
<1> DEFINE parts == {i \in DOMAIN m : m[i] # True}
           picks == {c \in [parts -> UNION {m[i] : i \in parts}] : \A i \in parts : c[i] \in m[i]}
           U(c)  == UNION {c[i] : i \in parts}
<1>1. CASE m[k] = True
  BY <1>1, ConjunctionNone
<1>2. CASE m[k] # True
  <2>1. parts = {k}
    BY <1>2
  <2>2. Conjunction(m) = {U(c) : c \in picks}
    BY DEF Conjunction
  <2>3. ASSUME NEW c \in picks
        PROVE  U(c) \in m[k]
    <3>1. c[k] \in m[k]
      BY <2>1
    <3>2. U(c) = c[k]
      <4> HIDE DEF parts, picks
      <4>1. {c[i] : i \in parts} = {c[k]}
        BY <2>1
      <4> QED
        BY <4>1
    <3> QED
      BY <3>1, <3>2
  <2>4. ASSUME NEW a \in m[k]
        PROVE  \E c \in picks : U(c) = a
    <3> DEFINE c == [i \in parts |-> a]
    <3>1. c \in picks
      <4> HIDE DEF parts
      <4>1. \A i \in parts : a \in m[i] /\ a \in UNION {m[y] : y \in parts}
        BY <2>1
      <4>2. c \in [parts -> UNION {m[y] : y \in parts}] /\ \A i \in parts : c[i] \in m[i]
        BY <4>1
      <4> HIDE DEF c
      <4> QED
        BY <4>2
    <3>2. U(c) = a
      <4> HIDE DEF parts
      <4>1. {c[i] : i \in parts} = {a}
        BY <2>1
      <4> HIDE DEF c
      <4> QED
        BY <4>1
    <3> HIDE DEF c, U, picks
    <3> QED
      BY <3>1, <3>2
  <2> HIDE DEF parts, picks, U
  <2>5. \A x : x \in Conjunction(m) <=> x \in m[k]
    BY <2>2, <2>3, <2>4
  <2> QED
    BY <2>5
<1> QED
  BY <1>1, <1>2

\* What a token stands for.
NameOf(tok) ==
    IF tok.type \in {"var", "uri", "url", "quotedstring", "a"} THEN Name(tok) ELSE Mark(tok.type)

\* The modifiers of a step, and steps.
Patterns == {"PATTERN_SINGLE", "PATTERN_ZERO_ONE", "PATTERN_ONE_PLUS", "PATTERN_ZERO_PLUS"}
Steps    == [pred : Token, pattern : Patterns]

\* Two sequences, one after the other, have the elements of both.
LEMMA ToSetConcat ==
    ASSUME NEW s, NEW t, IsSeq(s), IsSeq(t)
    PROVE  ToSet(s \o t) = ToSet(s) \cup ToSet(t)
<1>1. Len(s) \in Nat /\ Len(t) \in Nat /\ DOMAIN s = 1 .. Len(s) /\ DOMAIN t = 1 .. Len(t)
  BY LenProperties DEF IsSeq
<1> DEFINE u == s \o t
<1>2. /\ IsSeq(u) /\ Len(u) = Len(s) + Len(t)
      /\ \A i \in 1 .. Len(s) : u[i] = s[i]
      /\ \A i \in 1 .. Len(t) : u[Len(s) + i] = t[i]
  BY ConcatAt
<1> HIDE DEF u
<1>3. DOMAIN u = 1 .. Len(s) + Len(t)
  BY <1>2, LenProperties DEF IsSeq
<1>4. \A x : x \in ToSet(s) => x \in ToSet(u)
  BY <1>1, <1>2, <1>3 DEF ToSet
<1>5. \A x : x \in ToSet(t) => x \in ToSet(u)
  <2> SUFFICES ASSUME NEW i \in 1 .. Len(t) PROVE t[i] \in ToSet(u)
    BY <1>1 DEF ToSet
  <2>1. Len(s) + i \in DOMAIN u
    BY <1>1, <1>3
  <2> QED
    BY <1>2, <2>1 DEF ToSet
<1>6. \A x : x \in ToSet(u) => x \in ToSet(s) \cup ToSet(t)
  <2> SUFFICES ASSUME NEW i \in 1 .. Len(s) + Len(t) PROVE u[i] \in ToSet(s) \cup ToSet(t)
    BY <1>3 DEF ToSet
  <2>1. CASE i <= Len(s)
    BY <1>1, <1>2, <2>1 DEF ToSet
  <2>2. CASE i > Len(s)
    <3>1. i - Len(s) \in 1 .. Len(t) /\ Len(s) + (i - Len(s)) = i
      BY <1>1, <2>2
    <3>2. u[i] = t[i - Len(s)]
      BY <1>2, <3>1
    <3> QED
      BY <1>1, <3>1, <3>2 DEF ToSet
  <2> QED
    BY <1>1, <2>1, <2>2
<1> QED
  BY <1>4, <1>5, <1>6 DEF u

\* Two sequences with the same elements are the same.
LEMMA SameSeq ==
    ASSUME NEW s, NEW t, IsSeq(s), IsSeq(t), Len(s) = Len(t), \A i \in 1 .. Len(s) : s[i] = t[i]
    PROVE  s = t
<1>1. s = [i \in 1 .. Len(s) |-> s[i]] /\ t = [i \in 1 .. Len(t) |-> t[i]]
  BY SeqIsSeq DEF IsSeq
<1> QED
  BY <1>1

\* The names of two texts, one after the other.
LEMMA NamesConcat ==
    ASSUME NEW a \in Seq(Token), NEW b \in Seq(Token)
    PROVE  Names(a \o b) = Names(a) \o Names(b)
<1> DEFINE N(c) == [i \in 1 .. Len(c) |-> NameOf(c[i])]
<1>1. \A c \in Seq(Token) : Names(c) = N(c) /\ Len(c) \in Nat
  BY LenProperties DEF Names, NameOf
<1>2. \A c \in Seq(Token) : IsSeq(N(c)) /\ Len(N(c)) = Len(c)
  <2> TAKE c \in Seq(Token)
  <2>1. Len(c) \in Nat /\ N(c) = [i \in 1 .. Len(c) |-> N(c)[i]]
    BY <1>1
  <2> HIDE DEF N
  <2> QED
    BY <2>1, TupleIsSeq
<1>3. /\ a \o b \in Seq(Token) /\ Len(a \o b) = Len(a) + Len(b)
      /\ \A i \in 1 .. Len(a) + Len(b) : (a \o b)[i] = IF i <= Len(a) THEN a[i] ELSE b[i - Len(a)]
  BY ConcatProperties
<1>4. /\ IsSeq(N(a) \o N(b)) /\ Len(N(a) \o N(b)) = Len(N(a)) + Len(N(b))
      /\ \A i \in 1 .. Len(N(a)) : (N(a) \o N(b))[i] = N(a)[i]
      /\ \A i \in 1 .. Len(N(b)) : (N(a) \o N(b))[Len(N(a)) + i] = N(b)[i]
  <2> HIDE DEF N
  <2>1. IsSeq(N(a)) /\ IsSeq(N(b))
    BY <1>2
  <2> QED
    BY <2>1, ConcatAt
<1>5. Len(N(a)) = Len(a) /\ Len(N(b)) = Len(b) /\ Len(a) \in Nat /\ Len(b) \in Nat
  BY <1>1, <1>2
<1>6. \A i \in 1 .. Len(a) + Len(b) : N(a \o b)[i] = (N(a) \o N(b))[i]
  <2> TAKE i \in 1 .. Len(a) + Len(b)
  <2>1. N(a \o b)[i] = NameOf((a \o b)[i])
    BY <1>3
  <2>2. CASE i <= Len(a)
    <3>1. i \in 1 .. Len(a)
      BY <2>2
    <3>2. (a \o b)[i] = a[i] /\ N(a)[i] = NameOf(a[i])
      BY <1>3, <2>2, <3>1
    <3>3. (N(a) \o N(b))[i] = N(a)[i]
      <4> HIDE DEF N
      <4> QED
        BY <1>4, <1>5, <3>1
    <3> QED
      BY <2>1, <3>2, <3>3
  <2>3. CASE i > Len(a)
    <3>1. i - Len(a) \in 1 .. Len(b) /\ Len(a) + (i - Len(a)) = i /\ ~(i <= Len(a))
      BY <1>5, <2>3
    <3>2. (a \o b)[i] = b[i - Len(a)] /\ N(b)[i - Len(a)] = NameOf(b[i - Len(a)])
      BY <1>3, <3>1
    <3>3. (N(a) \o N(b))[i] = N(b)[i - Len(a)]
      <4> HIDE DEF N
      <4> QED
        BY <1>4, <1>5, <3>1
    <3> QED
      BY <2>1, <3>2, <3>3
  <2> QED
    BY <1>5, <2>2, <2>3
<1> HIDE DEF N
<1>7. N(a \o b) = N(a) \o N(b)
  <2>1. IsSeq(N(a \o b)) /\ Len(N(a \o b)) = Len(a) + Len(b)
    BY <1>2, <1>3
  <2>2. IsSeq(N(a) \o N(b)) /\ Len(N(a) \o N(b)) = Len(a) + Len(b)
    BY <1>4, <1>5
  <2> QED
    BY <1>6, <2>1, <2>2, SameSeq
<1> QED
  BY <1>1, <1>3, <1>7

\* The names of a single token.
LEMMA NamesOne ==
    ASSUME NEW tok
    PROVE  Names(<<tok>>) = <<NameOf(tok)>>
<1>1. DOMAIN <<tok>> = 1 .. 1
  OBVIOUS
<1>2. Names(<<tok>>) = [i \in 1 .. 1 |-> NameOf(<<tok>>[i])]
  BY <1>1 DEF Names, NameOf
<1> QED
  BY <1>2

\* The text of a step is made of tokens.
LEMMA StepText ==
    ASSUME NEW pp \in Steps
    PROVE  /\ WrittenStep(pp) \in Seq(Token) /\ Modifier(pp.pattern) \in Seq(Token)
           /\ Mark("/") \in Token
<1>1. \A m \in {"uri", "/", "?", "+", "*"} : Mark(m) \in Token
  BY DEF Mark, Token, TokenTypes
<1>2. pp.pred \in Token /\ pp.pattern \in Patterns
  BY DEF Steps
<1>3. Modifier(pp.pattern) \in Seq(Token)
  <2>1. \A m \in {"uri", "/", "?", "+", "*"} : <<Mark(m)>> \in Seq(Token)
    BY <1>1
  <2>2. Modifier("PATTERN_SINGLE") = <<>> /\ Modifier("PATTERN_ZERO_ONE") = <<Mark("?")>>
        /\ Modifier("PATTERN_ONE_PLUS") = <<Mark("+")>> /\ Modifier("PATTERN_ZERO_PLUS") = <<Mark("*")>>
    BY DEF Modifier
  <2>3. <<>> \in Seq(Token)
    OBVIOUS
  <2> QED
    BY <1>2, <2>1, <2>2, <2>3 DEF Patterns
<1>4. <<pp.pred>> \in Seq(Token)
  BY <1>2
<1> QED
  BY <1>1, <1>3, <1>4, ConcatProperties DEF WrittenStep

\* The text of a path of one step, and of a path with a step more.
LEMMA PathText ==
    ASSUME NEW pp \in Steps
    PROVE  /\ WrittenPath(<<pp>>) = WrittenStep(pp)
           /\ \A v \in Seq(Steps) : /\ WrittenPath(v) \in Seq(Token)
                                    /\ v # <<>> => WrittenPath(Append(v, pp)) =
                                         WrittenPath(v) \o (<<Mark("/")>> \o WrittenStep(pp))
<1> DEFINE T(v, i) == (IF i = 1 THEN <<>> ELSE <<Mark("/")>>) \o WrittenStep(v[i])
           F(v) == [i \in DOMAIN v |-> T(v, i)]
<1>1. \A v : WrittenPath(v) = FlattenSeq(F(v))
  BY DEF WrittenPath
<1>2. ASSUME NEW x \in Steps
      PROVE  /\ <<>> \o WrittenStep(x) = WrittenStep(x) /\ WrittenStep(x) \in Seq(Token)
             /\ <<Mark("/")>> \o WrittenStep(x) \in Seq(Token)
  <2>1. WrittenStep(x) \in Seq(Token) /\ <<Mark("/")>> \in Seq(Token)
    <3>1. WrittenStep(x) \in Seq(Token) /\ Mark("/") \in Token
      BY StepText
    <3> QED
      BY <3>1
  <2> QED
    BY <2>1, ConcatEmptySeq, ConcatProperties
<1>3. ASSUME NEW v \in Seq(Steps)
      PROVE  F(v) \in Seq(Seq(Token)) /\ Len(F(v)) = Len(v) /\ \A i \in 1 .. Len(v) : F(v)[i] = T(v, i)
  <2>1. Len(v) \in Nat /\ DOMAIN v = 1 .. Len(v)
    BY LenProperties
  <2>2. ASSUME NEW i \in 1 .. Len(v)
        PROVE  T(v, i) \in Seq(Token)
    <3>1. v[i] \in Steps
      BY ElementOfSeq
    <3> QED
      BY <1>2, <3>1
  <2> HIDE DEF T
  <2>3. F(v) \in [1 .. Len(v) -> Seq(Token)]
    BY <2>1, <2>2
  <2>4. \A i \in 1 .. Len(v) : F(v)[i] = T(v, i)
    BY <2>1
  <2> HIDE DEF F
  <2> QED
    BY <2>1, <2>3, <2>4
<1>4. WrittenPath(<<pp>>) = WrittenStep(pp)
  <2>1. F(<<pp>>) = <<WrittenStep(pp)>>
    <3>1. DOMAIN <<pp>> = 1 .. 1
      OBVIOUS
    <3>2. T(<<pp>>, 1) = WrittenStep(pp)
      BY <1>2
    <3> HIDE DEF T
    <3>3. F(<<pp>>) = [i \in 1 .. 1 |-> WrittenStep(pp)]
      BY <3>1, <3>2
    <3> QED
      BY <3>3
  <2>2. FlattenSeq(<<WrittenStep(pp)>>) = WrittenStep(pp)
    BY <1>2, FlattenFew
  <2> QED
    BY <1>1, <2>1, <2>2
<1>5. ASSUME NEW v \in Seq(Steps)
      PROVE  /\ WrittenPath(v) \in Seq(Token)
             /\ v # <<>> => WrittenPath(Append(v, pp)) = WrittenPath(v) \o (<<Mark("/")>> \o WrittenStep(pp))
  <2>1. WrittenPath(v) \in Seq(Token)
    <3> HIDE DEF F
    <3> QED
      BY <1>1, <1>3, FlattenType
  <2>2. ASSUME v # <<>>
        PROVE  WrittenPath(Append(v, pp)) = WrittenPath(v) \o (<<Mark("/")>> \o WrittenStep(pp))
    <3> DEFINE w == Append(v, pp)
               x == <<Mark("/")>> \o WrittenStep(pp)
    <3>1. /\ w \in Seq(Steps) /\ Len(w) = Len(v) + 1 /\ Len(v) \in Nat /\ Len(v) # 0
          /\ \A i \in 1 .. Len(v) : w[i] = v[i]
          /\ w[Len(v) + 1] = pp
      BY <2>2, AppendProperties, LenProperties, EmptySeq
    <3> HIDE DEF w
    <3>2. T(w, Len(v) + 1) = x /\ x \in Seq(Token)
      BY <1>2, <3>1
    <3>3. \A i \in 1 .. Len(v) : T(w, i) = T(v, i)
      BY <3>1
    <3> HIDE DEF T, x
    <3>4. F(v) \in Seq(Seq(Token)) /\ F(w) \in Seq(Seq(Token))
          /\ Len(F(v)) = Len(v) /\ Len(F(w)) = Len(v) + 1
          /\ (\A i \in 1 .. Len(v) : F(v)[i] = T(v, i))
          /\ (\A i \in 1 .. Len(v) + 1 : F(w)[i] = T(w, i))
      <4> HIDE DEF F
      <4> QED
        BY <1>3, <3>1
    <3> HIDE DEF F
    <3>5. F(w) = Append(F(v), x)
      <4>1. /\ Append(F(v), x) \in Seq(Seq(Token)) /\ Len(Append(F(v), x)) = Len(F(v)) + 1
            /\ \A i \in 1 .. Len(F(v)) : Append(F(v), x)[i] = F(v)[i]
            /\ Append(F(v), x)[Len(F(v)) + 1] = x
        BY <3>2, <3>4, AppendProperties
      <4>2. IsSeq(F(w)) /\ IsSeq(Append(F(v), x))
        BY <3>4, <4>1, SeqIsSeq
      <4>3. \A i \in 1 .. Len(F(w)) : F(w)[i] = Append(F(v), x)[i]
        <5> TAKE i \in 1 .. Len(F(w))
        <5>1. i \in 1 .. Len(v) \/ i = Len(v) + 1
          BY <3>1, <3>4
        <5> QED
          BY <3>1, <3>2, <3>3, <3>4, <4>1, <5>1
      <4> QED
        BY <3>4, <4>1, <4>2, <4>3, SameSeq
    <3>6. FlattenSeq(F(w)) = FlattenSeq(F(v)) \o x
      BY <3>2, <3>4, <3>5, FlattenAppend
    <3> QED
      BY <1>1, <3>6 DEF w, x
  <2> QED
    BY <2>1, <2>2
<1> QED
  BY <1>4, <1>5

-----------------------------------------------------------------------------
(* What the groups mean.                                                   *)

WrittenAll(ts)   == {Written(t) : t \in ToSet(ts)}
NamesAll(a)      == {Names(t) : t \in a}

\* What a list of alternatives says, each a list of triples.
Alternatives(bs) == {WrittenAll(b) : b \in ToSet(bs)}

\* An alternative of the one with an alternative of the other.
Both(A, B) == {a \cup b : a \in A, b \in B}

\* Sequences of sequences.
IsLists(bs) == IsSeq(bs) /\ \A i \in DOMAIN bs : IsSeq(bs[i])

\* What a group holds.
IsGroup(v) == IsSeq(v.terms) /\ IsLists(v.unions)

\* The meaning of a text that means nothing, that means two things, or that offers two.
LEMMA MeaningOfTwo ==
    /\ TextMeaning(True) = {{}}
    /\ \A x, y : TextMeaning(Both(x, y)) = Both(TextMeaning(x), TextMeaning(y))
    /\ \A x, y : TextMeaning(x \cup y) = TextMeaning(x) \cup TextMeaning(y)
<1>1. \A m : TextMeaning(m) = {NamesAll(a) : a \in m}
  BY DEF TextMeaning, NamesAll
<1>2. NamesAll({}) = {} /\ \A a, b : NamesAll(a \cup b) = NamesAll(a) \cup NamesAll(b)
  BY DEF NamesAll
<1>3. TextMeaning(True) = {{}}
  BY <1>1, <1>2 DEF True
<1>4. ASSUME NEW x, NEW y
      PROVE  TextMeaning(Both(x, y)) = Both(TextMeaning(x), TextMeaning(y))
  <2>1. \A m : \A z : z \in TextMeaning(m) <=> \E a \in m : z = NamesAll(a)
    BY <1>1
  <2>2. \A A, B : \A z : z \in Both(A, B) <=> \E a \in A : \E b \in B : z = a \cup b
    BY DEF Both
  <2>3. ASSUME NEW z, z \in TextMeaning(Both(x, y))
        PROVE  z \in Both(TextMeaning(x), TextMeaning(y))
    <3>1. PICK u \in Both(x, y) : z = NamesAll(u)
      BY <2>1, <2>3
    <3>2. PICK a \in x, b \in y : u = a \cup b
      BY <2>2, <3>1
    <3>3. z = NamesAll(a) \cup NamesAll(b)
      BY <1>2, <3>1, <3>2
    <3>4. NamesAll(a) \in TextMeaning(x) /\ NamesAll(b) \in TextMeaning(y)
      BY <2>1
    <3> QED
      BY <2>2, <3>3, <3>4
  <2>4. ASSUME NEW z, z \in Both(TextMeaning(x), TextMeaning(y))
        PROVE  z \in TextMeaning(Both(x, y))
    <3>1. PICK c \in TextMeaning(x), d \in TextMeaning(y) : z = c \cup d
      BY <2>2, <2>4
    <3>2. PICK a \in x : c = NamesAll(a)
      BY <2>1
    <3>3. PICK b \in y : d = NamesAll(b)
      BY <2>1
    <3>4. z = NamesAll(a \cup b)
      BY <1>2, <3>1, <3>2, <3>3
    <3>5. a \cup b \in Both(x, y)
      BY <2>2
    <3> QED
      BY <2>1, <3>4, <3>5
  <2> QED
    BY <2>3, <2>4
<1>5. \A x, y : TextMeaning(x \cup y) = TextMeaning(x) \cup TextMeaning(y)
  BY <1>1
<1> QED
  BY <1>3, <1>4, <1>5

\* The texts of two lists of triples, one after the other, and of no triple.
LEMMA WrittenAllConcat ==
    /\ WrittenAll(<<>>) = {}
    /\ \A s, t : IsSeq(s) /\ IsSeq(t) => WrittenAll(s \o t) = WrittenAll(s) \cup WrittenAll(t)
<1>1. WrittenAll(<<>>) = {}
  BY DEF WrittenAll, ToSet
<1>2. ASSUME NEW s, NEW t, IsSeq(s), IsSeq(t)
      PROVE  WrittenAll(s \o t) = WrittenAll(s) \cup WrittenAll(t)
  <2>1. ToSet(s \o t) = ToSet(s) \cup ToSet(t)
    BY <1>2, ToSetConcat
  <2> QED
    BY <2>1 DEF WrittenAll
<1> QED
  BY <1>1, <1>2

\* The alternatives of two lists, one after the other, and of a single one.
LEMMA AlternativesConcat ==
    /\ \A b : Alternatives(<<b>>) = {WrittenAll(b)}
    /\ \A s, t : IsSeq(s) /\ IsSeq(t) => Alternatives(s \o t) = Alternatives(s) \cup Alternatives(t)
<1>1. \A b : Alternatives(<<b>>) = {WrittenAll(b)}
  <2>1. \A b : ToSet(<<b>>) = {b}
    BY DEF ToSet
  <2> QED
    BY <2>1 DEF Alternatives
<1>2. ASSUME NEW s, NEW t, IsSeq(s), IsSeq(t)
      PROVE  Alternatives(s \o t) = Alternatives(s) \cup Alternatives(t)
  <2>1. ToSet(s \o t) = ToSet(s) \cup ToSet(t)
    BY <1>2, ToSetConcat
  <2> QED
    BY <2>1 DEF Alternatives
<1> QED
  BY <1>1, <1>2

\* Triples in front of each of several lists.
LEMMA Prefixed ==
    ASSUME NEW t, NEW bs, IsSeq(t), IsLists(bs)
    PROVE  LET cs == [i \in DOMAIN bs |-> t \o bs[i]]
           IN  /\ IsLists(cs) /\ (bs # <<>> => cs # <<>>)
               /\ Alternatives(cs) = Both({WrittenAll(t)}, Alternatives(bs))
<1> DEFINE cs == [i \in DOMAIN bs |-> t \o bs[i]]
<1>1. Len(bs) \in Nat /\ DOMAIN bs = 1 .. Len(bs)
  BY LenProperties DEF IsLists, IsSeq
<1>2. IsSeq(cs) /\ Len(cs) = Len(bs) /\ DOMAIN cs = DOMAIN bs
  <2>1. cs = [i \in 1 .. Len(bs) |-> cs[i]]
    BY <1>1
  <2>2. DOMAIN cs = DOMAIN bs
    OBVIOUS
  <2> HIDE DEF cs
  <2> QED
    BY <1>1, <2>1, <2>2, TupleIsSeq
<1>3. \A i \in DOMAIN bs : cs[i] = t \o bs[i] /\ IsSeq(t \o bs[i])
  BY ConcatAt DEF IsLists
<1>4. \A i \in DOMAIN bs : WrittenAll(cs[i]) = WrittenAll(t) \cup WrittenAll(bs[i])
  <2>1. \A i \in DOMAIN bs : IsSeq(bs[i])
    BY DEF IsLists
  <2> HIDE DEF cs
  <2> QED
    BY <1>3, <2>1, WrittenAllConcat
<1> HIDE DEF cs
<1>5. bs # <<>> => cs # <<>>
  <2> SUFFICES ASSUME cs = <<>> PROVE bs = <<>>
    OBVIOUS
  <2>1. Len(bs) = 0
    BY <1>2
  <2>2. bs \in Seq(ToSet(bs))
    BY DEF IsLists, IsSeq
  <2> QED
    BY <2>1, <2>2, EmptySeq
<1>6. Alternatives(cs) = Both({WrittenAll(t)}, Alternatives(bs))
  <2>1. \A z : z \in Alternatives(cs) <=> \E i \in DOMAIN bs : z = WrittenAll(cs[i])
    BY <1>2 DEF Alternatives, ToSet
  <2>2. \A z : z \in Both({WrittenAll(t)}, Alternatives(bs)) <=>
                 \E i \in DOMAIN bs : z = WrittenAll(t) \cup WrittenAll(bs[i])
    BY DEF Both, Alternatives, ToSet
  <2>3. ASSUME NEW z
        PROVE  z \in Alternatives(cs) <=> z \in Both({WrittenAll(t)}, Alternatives(bs))
    <3>1. (\E i \in DOMAIN bs : z = WrittenAll(cs[i])) <=>
          (\E i \in DOMAIN bs : z = WrittenAll(t) \cup WrittenAll(bs[i]))
      BY <1>4
    <3> QED
      BY <2>1, <2>2, <3>1
  <2> QED
    BY <2>3
<1>7. IsLists(cs)
  BY <1>2, <1>3 DEF IsLists
<1> QED
  BY <1>5, <1>6, <1>7 DEF cs

\* A single list, and two lists of lists one after the other.
LEMMA ListsConcat ==
    /\ \A b : IsSeq(b) => IsLists(<<b>>)
    /\ IsSeq(<<>>) /\ IsLists(<<>>)
    /\ \A s, t : IsLists(s) /\ IsLists(t) => IsLists(s \o t)
<1>1. ASSUME NEW b, IsSeq(b)
      PROVE  IsLists(<<b>>)
  <2>1. <<b>> = [i \in 1 .. 1 |-> <<b>>[i]] /\ DOMAIN <<b>> = 1 .. 1 /\ <<b>>[1] = b
    OBVIOUS
  <2>2. IsSeq(<<b>>)
    BY <2>1, TupleIsSeq
  <2> QED
    BY <1>1, <2>1, <2>2 DEF IsLists
<1>2. IsSeq(<<>>) /\ IsLists(<<>>)
  BY DEF IsSeq, IsLists
<1>3. ASSUME NEW s, NEW t, IsLists(s), IsLists(t)
      PROVE  IsLists(s \o t)
  <2>1. IsSeq(s) /\ IsSeq(t)
    BY <1>3 DEF IsLists
  <2>2. IsSeq(s \o t) /\ ToSet(s \o t) = ToSet(s) \cup ToSet(t)
    BY <2>1, ConcatAt, ToSetConcat
  <2>3. \A x \in ToSet(s) \cup ToSet(t) : IsSeq(x)
    BY <1>3 DEF IsLists, ToSet
  <2>4. \A i \in DOMAIN (s \o t) : (s \o t)[i] \in ToSet(s \o t)
    BY DEF ToSet
  <2> QED
    BY <2>2, <2>3, <2>4 DEF IsLists
<1> QED
  BY <1>1, <1>2, <1>3

\* What a group expands to.
LEMMA Expanded ==
    ASSUME NEW v, IsGroup(v)
    PROVE  /\ IsLists(Expand(v)) /\ Expand(v) # <<>>
           /\ Alternatives(Expand(v)) =
                IF v.unions = <<>> THEN {WrittenAll(v.terms)}
                ELSE Both({WrittenAll(v.terms)}, Alternatives(v.unions))
<1>1. CASE v.unions = <<>>
  <2>1. Expand(v) = <<v.terms>> /\ <<v.terms>> # <<>>
    BY <1>1 DEF Expand
  <2> QED
    BY <1>1, <2>1, ListsConcat, AlternativesConcat DEF IsGroup
<1>2. CASE v.unions # <<>>
  <2>1. Expand(v) = [i \in DOMAIN v.unions |-> v.terms \o v.unions[i]]
    BY <1>2 DEF Expand
  <2>2. IsSeq(v.terms) /\ IsLists(v.unions)
    BY DEF IsGroup
  <2> DEFINE t  == v.terms
             bs == v.unions
             cs == [i \in DOMAIN bs |-> t \o bs[i]]
  <2>3. /\ IsLists(cs) /\ cs # <<>>
        /\ Alternatives(cs) = Both({WrittenAll(t)}, Alternatives(bs))
    <3>1. IsSeq(t) /\ IsLists(bs) /\ bs # <<>>
      BY <1>2, <2>2
    <3> HIDE DEF t, bs
    <3> QED
      BY <3>1, Prefixed
  <2> HIDE DEF cs
  <2> QED
    BY <1>2, <2>1, <2>3 DEF cs
<1> QED
  BY <1>1, <1>2

\* The constructors of groups.
LEMMA GroupsMean ==
    /\ \A ts : IsSeq(ts) => /\ IsGroup(GraphGroup(ts, <<>>))
                            /\ Alternatives(Expand(GraphGroup(ts, <<>>))) = {WrittenAll(ts)}
    /\ \A l, r : IsGroup(l) /\ IsGroup(r) =>
          /\ IsGroup(GraphGroupUnion(l, r))
          /\ Alternatives(Expand(GraphGroupUnion(l, r))) = Alternatives(Expand(l)) \cup Alternatives(Expand(r))
    /\ \A l, ts : IsGroup(l) /\ IsSeq(ts) =>
          /\ IsGroup(AddTriplesToGraphGroup(l, ts))
          /\ Alternatives(Expand(AddTriplesToGraphGroup(l, ts))) = Both(Alternatives(Expand(l)), {WrittenAll(ts)})
<1>1. ASSUME NEW ts, IsSeq(ts)
      PROVE  /\ IsGroup(GraphGroup(ts, <<>>))
             /\ Alternatives(Expand(GraphGroup(ts, <<>>))) = {WrittenAll(ts)}
  <2> DEFINE v == GraphGroup(ts, <<>>)
  <2>1. v.terms = ts /\ v.unions = <<>>
    BY DEF GraphGroup
  <2> HIDE DEF v
  <2>2. IsGroup(v)
    BY <1>1, <2>1, ListsConcat DEF IsGroup
  <2> QED
    BY <2>1, <2>2, Expanded DEF v
<1>2. ASSUME NEW l, NEW r, IsGroup(l), IsGroup(r)
      PROVE  /\ IsGroup(GraphGroupUnion(l, r))
             /\ Alternatives(Expand(GraphGroupUnion(l, r))) = Alternatives(Expand(l)) \cup Alternatives(Expand(r))
  <2> DEFINE v == GraphGroupUnion(l, r)
  <2>1. v.terms = <<>> /\ v.unions = Expand(l) \o Expand(r)
    BY DEF GraphGroup, GraphGroupUnion
  <2> HIDE DEF v
  <2>2. IsLists(Expand(l)) /\ IsLists(Expand(r)) /\ Expand(l) # <<>>
    BY <1>2, Expanded
  <2>3. IsGroup(v)
    BY <2>1, <2>2, ListsConcat DEF IsGroup
  <2>4. v.unions # <<>>
    <3>1. Len(v.unions) = Len(Expand(l)) + Len(Expand(r))
      BY <2>1, <2>2, ConcatAt DEF IsLists
    <3>2. Len(Expand(l)) \in Nat /\ Len(Expand(r)) \in Nat /\ Len(Expand(l)) # 0
      BY <2>2, LenProperties, EmptySeq DEF IsLists, IsSeq
    <3>3. Len(v.unions) # 0
      BY <3>1, <3>2
    <3> QED
      BY <3>3
  <2>5. Alternatives(Expand(v)) = Both({{}}, Alternatives(v.unions))
    BY <2>1, <2>3, <2>4, Expanded, WrittenAllConcat
  <2>6. \A A : Both({{}}, A) = A
    BY DEF Both
  <2>7. Alternatives(v.unions) = Alternatives(Expand(l)) \cup Alternatives(Expand(r))
    BY <2>1, <2>2, AlternativesConcat DEF IsLists
  <2> QED
    BY <2>3, <2>5, <2>6, <2>7 DEF v
<1>3. ASSUME NEW l, NEW ts, IsGroup(l), IsSeq(ts)
      PROVE  /\ IsGroup(AddTriplesToGraphGroup(l, ts))
             /\ Alternatives(Expand(AddTriplesToGraphGroup(l, ts))) = Both(Alternatives(Expand(l)), {WrittenAll(ts)})
  <2> DEFINE v == AddTriplesToGraphGroup(l, ts)
  <2>1. v.terms = l.terms \o ts /\ v.unions = l.unions
    BY DEF GraphGroup, AddTriplesToGraphGroup
  <2> HIDE DEF v
  <2>2. IsSeq(v.terms) /\ WrittenAll(v.terms) = WrittenAll(l.terms) \cup WrittenAll(ts)
    BY <1>3, <2>1, ConcatAt, WrittenAllConcat DEF IsGroup
  <2>3. IsGroup(v)
    BY <1>3, <2>1, <2>2 DEF IsGroup
  <2> DEFINE a == WrittenAll(l.terms)
             b == WrittenAll(ts)
             A == Alternatives(l.unions)
  <2>4. Both({a \cup b}, A) = Both(Both({a}, A), {b}) /\ {a \cup b} = Both({a}, {b})
    <3> HIDE DEF a, b, A
    <3>1. \A z : z \in Both({a \cup b}, A) <=> \E c \in A : z = (a \cup b) \cup c
      BY DEF Both
    <3>2. \A z : z \in Both({a}, A) <=> \E c \in A : z = a \cup c
      BY DEF Both
    <3>3. \A B : \A z : z \in Both(B, {b}) <=> \E d \in B : z = d \cup b
      BY DEF Both
    <3>4. Both({a \cup b}, A) = Both(Both({a}, A), {b})
      <4>1. ASSUME NEW z \in Both({a \cup b}, A)
            PROVE  z \in Both(Both({a}, A), {b})
        <5>1. PICK c \in A : z = (a \cup b) \cup c
          BY <3>1
        <5>2. a \cup c \in Both({a}, A) /\ z = (a \cup c) \cup b
          BY <3>2, <5>1
        <5> QED
          BY <3>3, <5>2
      <4>2. ASSUME NEW z \in Both(Both({a}, A), {b})
            PROVE  z \in Both({a \cup b}, A)
        <5>1. PICK d \in Both({a}, A) : z = d \cup b
          BY <3>3
        <5>2. PICK c \in A : d = a \cup c
          BY <3>2
        <5>3. z = (a \cup b) \cup c
          BY <5>1, <5>2
        <5> QED
          BY <3>1, <5>3
      <4> QED
        BY <4>1, <4>2
    <3>5. {a \cup b} = Both({a}, {b})
      BY DEF Both
    <3> QED
      BY <3>4, <3>5
  <2>5. Alternatives(Expand(v)) = Both(Alternatives(Expand(l)), {b})
    <3>1. Alternatives(Expand(v)) = IF v.unions = <<>> THEN {WrittenAll(v.terms)}
                                    ELSE Both({WrittenAll(v.terms)}, Alternatives(v.unions))
      BY <2>3, Expanded
    <3>2. Alternatives(Expand(l)) = IF l.unions = <<>> THEN {a} ELSE Both({a}, A)
      BY <1>3, Expanded
    <3>3. WrittenAll(v.terms) = a \cup b /\ v.unions = l.unions
      BY <2>1, <2>2
    <3> HIDE DEF a, b
    <3> QED
      BY <2>4, <3>1, <3>2, <3>3
  <2> QED
    BY <2>3, <2>5 DEF v
<1> QED
  BY <1>1, <1>2, <1>3

\* The constructors of WHERE clauses.
WhereBranches(w) ==
    IF w.group = <<>> THEN <<w.terms>>
    ELSE LET groups == Expand(w.group[1]) IN [i \in DOMAIN groups |-> w.terms \o groups[i]]

\* A WHERE clause means its triples together with its group.
LEMMA WheresMean ==
    /\ \A ts : Alternatives(WhereBranches(WhereClause(ts, <<>>))) = {WrittenAll(ts)}
    /\ \A ts, v : IsSeq(ts) /\ IsGroup(v) =>
          Alternatives(WhereBranches(WhereClause(ts, <<v>>))) = Both({WrittenAll(ts)}, Alternatives(Expand(v)))
<1>1. ASSUME NEW ts
      PROVE  Alternatives(WhereBranches(WhereClause(ts, <<>>))) = {WrittenAll(ts)}
  <2>1. WhereBranches(WhereClause(ts, <<>>)) = <<ts>>
    BY DEF WhereBranches, WhereClause
  <2> QED
    BY <2>1, AlternativesConcat
<1>2. ASSUME NEW ts, NEW v, IsSeq(ts), IsGroup(v)
      PROVE  Alternatives(WhereBranches(WhereClause(ts, <<v>>))) = Both({WrittenAll(ts)}, Alternatives(Expand(v)))
  <2>1. <<v>> # <<>> /\ <<v>>[1] = v
    OBVIOUS
  <2>2. WhereBranches(WhereClause(ts, <<v>>)) = [i \in DOMAIN Expand(v) |-> ts \o Expand(v)[i]]
    BY <2>1 DEF WhereBranches, WhereClause
  <2>3. IsLists(Expand(v))
    BY <1>2, Expanded
  <2> QED
    BY <1>2, <2>2, <2>3, Prefixed
<1> QED
  BY <1>1, <1>2

\* What a query means is what its WHERE clause means.
LEMMA QueriesMean ==
    /\ \A q : QueryMeaning(q) = Alternatives(WhereBranches(q.where))
    /\ \A x : /\ QueryOf("NewQuery", x).where = x[2] /\ QueryOf("NewCountQuery", x).where = x[2]
              /\ QueryOf("NewInsertQuery", x).where = x[2]
              /\ QueryOf("NewQueryMulti", x).where = x[3] /\ QueryOf("NewCountQueryMulti", x).where = x[3]
              /\ QueryOf("NewInsertQueryMulti", x).where = x[3]
<1>1. \A q : Branches(q) = WhereBranches(q.where)
  BY DEF Branches, WhereBranches
<1>2. \A q : QueryMeaning(q) = Alternatives(WhereBranches(q.where))
  BY <1>1 DEF QueryMeaning, Alternatives, WrittenAll
<1>3. \A x : QueryOf("NewQuery", x).where = x[2]
  BY DEF QueryOf, NewQuery, Filled
<1>4. \A x : QueryOf("NewCountQuery", x).where = x[2]
  BY DEF QueryOf, NewQuery, Filled
<1>5. \A x : QueryOf("NewInsertQuery", x).where = x[2]
  BY DEF QueryOf, NewInsertQuery, Filled
<1>6. \A x : QueryOf("NewQueryMulti", x).where = x[3]
  BY DEF QueryOf, NewQueryMulti, Filled
<1>7. \A x : QueryOf("NewCountQueryMulti", x).where = x[3]
  BY DEF QueryOf, NewQueryMulti, Filled
<1>8. \A x : QueryOf("NewInsertQueryMulti", x).where = x[3]
  BY DEF QueryOf, NewInsertQueryMulti, Filled
<1> QED
  BY <1>2, <1>3, <1>4, <1>5, <1>6, <1>7, <1>8

-----------------------------------------------------------------------------
(* What an attribute keeps of the text.                                    *)

\* The row of a path in parentheses.
InParentheses == 48

\* An attribute has a Go type that its symbol allows.
Typed(e, u) ==
    /\ e.val.t \in TypesOf(e.sym)
    /\ e.sym \in {"PathElt", "PathPrimary"} =>
          e.val.t = "PathPattern" \/ InParentheses \in u

\* An attribute means what the symbol it belongs to covers.
Means(e) ==
    LET t == e.val.t
        v == e.val.v
        m == TextMeaning(e.meaning)
    IN  /\ t = "Token" /\ e.sym # "Joiner" => e.text = <<v>> /\ v.type = e.sym
        /\ e.sym \in {"Var", "GraphTerm", "VarOrTerm"} =>
              e.text = <<v>> /\ v.type \in {"var", "uri", "url", "quotedstring"}
        /\ t = "PathPattern" =>
              /\ v \in Steps /\ Names(e.text) = WrittenStep(v)
              /\ e.sym = "PathPrimary" => v.pattern = "PATTERN_SINGLE"
        /\ e.sym \in {"Path", "PathSequence"} =>
              v \in Seq(Steps) /\ v # <<>> /\ Names(e.text) = WrittenPath(v)
        /\ t = "Pattern"     => v \in Patterns /\ Names(e.text) = Modifier(v)
        /\ t = "Triple"      => m = {{Written(v)}}
        /\ t = "[]Triple"    => IsSeq(v) /\ m = {WrittenAll(v)}
        /\ t = "GraphGroup"  => IsGroup(v) /\ m = Alternatives(Expand(v))
        /\ t = "WhereClause" => m = Alternatives(WhereBranches(v))
        /\ t = "Query"       => m = QueryMeaning(v)
        /\ t \in {"Token", "nil", "string", "[]string", "SelectClause", "FromClause", "InsertClause"} =>
              e.meaning = True

\* The second is asked for as long as nothing is known to have been lost.
Good(e, u) == Typed(e, u) /\ (u \cap Lossy = {} => Means(e))

\* What a reduction is given, and the entry that it makes.
Vals(es)  == [i \in DOMAIN es |-> es[i].val]
Texts(es) == FlattenSeq([i \in DOMAIN es |-> es[i].text])

\* The entries that a row pops.
Ready(p, es, u) ==
    /\ IsSeq(es) /\ Len(es) = Len(productionsTable[p].rhs) /\ DOMAIN es = 1 .. Len(es)
    /\ \A i \in DOMAIN es : /\ es[i].sym = productionsTable[p].rhs[i]
                            /\ es[i].text \in Seq(Token) /\ Good(es[i], u)

\* The entry that a row makes of them.
Result(p, es) ==
    Entry(0, ReduceFunc(p, Vals(es)), productionsTable[p].id, Texts(es), MeaningOf(p, es))

\* A row keeps what its symbols mean.
Fine(p, es, u) ==
    IF ReduceFunc(p, Vals(es)) = Panic THEN InParentheses \in u \cup {p}
    ELSE Good(Result(p, es), u \cup {p})

\* The symbols that a row pops.
LEMMA RowReady ==
    ASSUME NEW p, NEW prod, Row(p, prod), NEW es, NEW u, Ready(p, es, u)
    PROVE  /\ Len(es) = Len(prod.rhs) /\ DOMAIN es = 1 .. Len(prod.rhs)
           /\ \A i \in 1 .. Len(prod.rhs) :
                 /\ es[i].sym = prod.rhs[i] /\ es[i].text \in Seq(Token)
                 /\ es[i].val.t \in TypesOf(prod.rhs[i]) /\ Good(es[i], u)
                 /\ u \cap Lossy = {} => Means(es[i])
BY DEF Row, Ready, Good, Typed

\* ReduceFunc, with the attributes that a row names.
LEMMA CallGives ==
    ASSUME NEW p, NEW X
    PROVE  LET prod == productionsTable[p]
               args == [i \in DOMAIN prod.args |-> X[prod.args[i]]]
           IN  ReduceFunc(p, X) =
                  IF prod.call = "attrib" THEN args[1]
                  ELSE IF prod.call = "nil" THEN Nil
                  ELSE IF [i \in DOMAIN args |-> args[i].t] = Signature[prod.call]
                       THEN Build(prod.call, [i \in DOMAIN args |-> args[i].v])
                       ELSE Panic
BY DEF ReduceFunc

\* Rows without an ast function.
LEMMA CallNil ==
    ASSUME NEW p, NEW id, NEW rhs, NEW es, Row(p, Prod(id, rhs, "nil", <<>>))
    PROVE  ReduceFunc(p, Vals(es)) = Nil
<1>1. productionsTable[p].call = "nil"
  BY DEF Row, Prod
<1> QED
  BY <1>1, CallGives

\* Rows that pass an attribute on.
LEMMA CallAttrib ==
    ASSUME NEW p, NEW id, NEW rhs, NEW es, NEW a \in DOMAIN es, Row(p, Prod(id, rhs, "attrib", <<a>>))
    PROVE  ReduceFunc(p, Vals(es)) = es[a].val
<1> DEFINE X == Vals(es)
           prod == productionsTable[p]
           args == [i \in DOMAIN prod.args |-> X[prod.args[i]]]
<1>1. X[a] = es[a].val
  BY DEF Vals
<1> HIDE DEF X
<1>2. prod.call = "attrib" /\ prod.args = <<a>>
  BY DEF Row, Prod
<1>3. ReduceFunc(p, X) = args[1]
  BY <1>2, CallGives
<1>4. args[1] = X[a]
  BY <1>2
<1> HIDE DEF prod, args
<1> QED
  BY <1>1, <1>3, <1>4 DEF X

\* Rows whose ast function is given no attribute, one, two and three.
LEMMA CallNone ==
    ASSUME NEW p, NEW id, NEW rhs, NEW es, NEW c, c \notin {"attrib", "nil"},
           Row(p, Prod(id, rhs, c, <<>>)), Signature[c] = <<>>
    PROVE  ReduceFunc(p, Vals(es)) = Build(c, <<>>)
<1> DEFINE X == Vals(es)
           prod == productionsTable[p]
           args == [i \in DOMAIN prod.args |-> X[prod.args[i]]]
<1> HIDE DEF X
<1>1. prod.call = c /\ prod.args = <<>>
  BY DEF Row, Prod
<1>2. ReduceFunc(p, X) = IF [i \in DOMAIN args |-> args[i].t] = Signature[c]
                         THEN Build(c, [i \in DOMAIN args |-> args[i].v]) ELSE Panic
  BY <1>1, CallGives
<1>3. [i \in DOMAIN args |-> args[i].t] = <<>> /\ [i \in DOMAIN args |-> args[i].v] = <<>>
  BY <1>1
<1> HIDE DEF prod, args
<1> QED
  BY <1>2, <1>3 DEF X

\* One attribute.
LEMMA CallOne ==
    ASSUME NEW p, NEW id, NEW rhs, NEW es, NEW c, c \notin {"attrib", "nil"},
           NEW a \in DOMAIN es,
           Row(p, Prod(id, rhs, c, <<a>>))
    PROVE  ReduceFunc(p, Vals(es)) = IF <<es[a].val.t>> = Signature[c]
                                     THEN Build(c, <<es[a].val.v>>) ELSE Panic
<1> DEFINE X == Vals(es)
           prod == productionsTable[p]
           args == [i \in DOMAIN prod.args |-> X[prod.args[i]]]
<1>1. X[a] = es[a].val
  BY DEF Vals
<1> HIDE DEF X
<1>2. prod.call = c /\ prod.args = <<a>>
  BY DEF Row, Prod
<1>3. ReduceFunc(p, X) = IF [i \in DOMAIN args |-> args[i].t] = Signature[c]
                         THEN Build(c, [i \in DOMAIN args |-> args[i].v]) ELSE Panic
  BY <1>2, CallGives
<1>4. /\ [i \in DOMAIN args |-> args[i].t] = <<X[a].t>>
      /\ [i \in DOMAIN args |-> args[i].v] = <<X[a].v>>
  BY <1>2
<1> HIDE DEF prod, args
<1> QED
  BY <1>1, <1>3, <1>4 DEF X

\* Two attributes.
LEMMA CallTwo ==
    ASSUME NEW p, NEW id, NEW rhs, NEW es, NEW c, c \notin {"attrib", "nil"},
           NEW a \in DOMAIN es, NEW b \in DOMAIN es,
           Row(p, Prod(id, rhs, c, <<a, b>>))
    PROVE  ReduceFunc(p, Vals(es)) = IF <<es[a].val.t, es[b].val.t>> = Signature[c]
                                     THEN Build(c, <<es[a].val.v, es[b].val.v>>) ELSE Panic
<1> DEFINE X == Vals(es)
           prod == productionsTable[p]
           args == [i \in DOMAIN prod.args |-> X[prod.args[i]]]
<1>1. X[a] = es[a].val /\ X[b] = es[b].val
  BY DEF Vals
<1> HIDE DEF X
<1>2. prod.call = c /\ prod.args = <<a, b>>
  BY DEF Row, Prod
<1>3. ReduceFunc(p, X) = IF [i \in DOMAIN args |-> args[i].t] = Signature[c]
                         THEN Build(c, [i \in DOMAIN args |-> args[i].v]) ELSE Panic
  BY <1>2, CallGives
<1>4. /\ [i \in DOMAIN args |-> args[i].t] = <<X[a].t, X[b].t>>
      /\ [i \in DOMAIN args |-> args[i].v] = <<X[a].v, X[b].v>>
  BY <1>2
<1> HIDE DEF prod, args
<1> QED
  BY <1>1, <1>3, <1>4 DEF X

\* Three attributes.
LEMMA CallThree ==
    ASSUME NEW p, NEW id, NEW rhs, NEW es, NEW c, c \notin {"attrib", "nil"},
           1 \in DOMAIN es, 2 \in DOMAIN es, 3 \in DOMAIN es,
           Row(p, Prod(id, rhs, c, <<1, 2, 3>>))
    PROVE  ReduceFunc(p, Vals(es)) = IF <<es[1].val.t, es[2].val.t, es[3].val.t>> = Signature[c]
                                     THEN Build(c, <<es[1].val.v, es[2].val.v, es[3].val.v>>) ELSE Panic
<1> DEFINE X == Vals(es)
           prod == productionsTable[p]
           args == [i \in DOMAIN prod.args |-> X[prod.args[i]]]
<1>1. X[1] = es[1].val /\ X[2] = es[2].val /\ X[3] = es[3].val
  BY DEF Vals
<1> HIDE DEF X
<1>2. prod.call = c /\ prod.args = <<1, 2, 3>>
  BY DEF Row, Prod
<1>3. ReduceFunc(p, X) = IF [i \in DOMAIN args |-> args[i].t] = Signature[c]
                         THEN Build(c, [i \in DOMAIN args |-> args[i].v]) ELSE Panic
  BY <1>2, CallGives
<1>4. /\ [i \in DOMAIN args |-> args[i].t] = <<X[1].t, X[2].t, X[3].t>>
      /\ [i \in DOMAIN args |-> args[i].v] = <<X[1].v, X[2].v, X[3].v>>
  BY <1>2
<1> HIDE DEF prod, args
<1> QED
  BY <1>1, <1>3, <1>4 DEF X

\* Few texts, one after the other.
LEMMA TextsFew ==
    ASSUME NEW a \in Seq(Token), NEW b \in Seq(Token), NEW c \in Seq(Token)
    PROVE  FlattenSeq(<<a, b>>) = a \o b /\ FlattenSeq(<<a, b, c>>) = (a \o b) \o c
<1>1. <<a, b, c>> = Append(<<a, b>>, c) /\ <<a, b>> \in Seq(Seq(Token))
  OBVIOUS
<1>2. FlattenSeq(<<a, b>>) = a \o b
  BY FlattenFew
<1>3. FlattenSeq(Append(<<a, b>>, c)) = FlattenSeq(<<a, b>>) \o c
  BY <1>1, FlattenAppend
<1> QED
  BY <1>1, <1>2, <1>3

\* The texts of few entries.
LEMMA TextsOf ==
    ASSUME NEW es, IsSeq(es), DOMAIN es = 1 .. Len(es), \A i \in DOMAIN es : es[i].text \in Seq(Token)
    PROVE  /\ Len(es) = 0 => Texts(es) = <<>>
           /\ Len(es) = 1 => Texts(es) = es[1].text
           /\ Len(es) = 2 => Texts(es) = es[1].text \o es[2].text
           /\ Len(es) = 3 => Texts(es) = (es[1].text \o es[2].text) \o es[3].text
<1> DEFINE x == [i \in DOMAIN es |-> es[i].text]
<1>0. \A i \in DOMAIN es : x[i] \in Seq(Token) /\ x[i] = es[i].text
  OBVIOUS
<1>1. ASSUME Len(es) = 0
      PROVE  x = <<>>
  BY <1>1
<1>2. ASSUME Len(es) = 1
      PROVE  x = <<x[1]>> /\ 1 \in DOMAIN es
  BY <1>2
<1>3. ASSUME Len(es) = 2
      PROVE  x = <<x[1], x[2]>> /\ 1 \in DOMAIN es /\ 2 \in DOMAIN es
  BY <1>3
<1>4. ASSUME Len(es) = 3
      PROVE  x = <<x[1], x[2], x[3]>> /\ 1 \in DOMAIN es /\ 2 \in DOMAIN es /\ 3 \in DOMAIN es
  BY <1>4
<1>5. Texts(es) = FlattenSeq(x)
  BY DEF Texts
<1> HIDE DEF x
<1>6. ASSUME Len(es) = 0
      PROVE  Texts(es) = <<>>
  BY <1>1, <1>5, <1>6 DEF FlattenSeq
<1>7. ASSUME Len(es) = 1
      PROVE  Texts(es) = es[1].text
  <2>1. x[1] \in Seq(Token) /\ x[1] = es[1].text
    BY <1>0, <1>2, <1>7
  <2>2. FlattenSeq(<<x[1]>>) = x[1]
    BY <2>1, FlattenFew
  <2> QED
    BY <1>2, <1>5, <1>7, <2>1, <2>2
<1>8. ASSUME Len(es) = 2
      PROVE  Texts(es) = es[1].text \o es[2].text
  <2>1. /\ x[1] \in Seq(Token) /\ x[1] = es[1].text
        /\ x[2] \in Seq(Token) /\ x[2] = es[2].text
    BY <1>0, <1>3, <1>8
  <2>2. FlattenSeq(<<x[1], x[2]>>) = x[1] \o x[2]
    BY <2>1, TextsFew, Zenon
  <2> QED
    BY <1>3, <1>5, <1>8, <2>1, <2>2
<1>9. ASSUME Len(es) = 3
      PROVE  Texts(es) = (es[1].text \o es[2].text) \o es[3].text
  <2>1. /\ x[1] \in Seq(Token) /\ x[1] = es[1].text
        /\ x[2] \in Seq(Token) /\ x[2] = es[2].text
        /\ x[3] \in Seq(Token) /\ x[3] = es[3].text
    BY <1>0, <1>4, <1>9
  <2>2. FlattenSeq(<<x[1], x[2], x[3]>>) = (x[1] \o x[2]) \o x[3]
    BY <2>1, TextsFew, Zenon
  <2> QED
    BY <1>4, <1>5, <1>9, <2>1, <2>2
<1> QED
  BY <1>6, <1>7, <1>8, <1>9

-----------------------------------------------------------------------------
(* What a row comes to.                                                    *)

\* What a reduction comes to, given the value that ReduceFunc builds.
LEMMA FineOf ==
    ASSUME NEW p, NEW prod, Row(p, prod), NEW es, NEW u, NEW val,
           ReduceFunc(p, Vals(es)) = val, val.t \in TypesOf(prod.id),
           prod.id \in {"PathElt", "PathPrimary"} => val.t = "PathPattern" \/ InParentheses \in u \cup {p},
           (u \cup {p}) \cap Lossy = {} => Means(Entry(0, val, prod.id, Texts(es), MeaningOf(p, es)))
    PROVE  Fine(p, es, u)
<1>1. Result(p, es) = Entry(0, val, prod.id, Texts(es), MeaningOf(p, es))
  BY DEF Result, Row
<1> DEFINE e == Entry(0, val, prod.id, Texts(es), MeaningOf(p, es))
<1>2. e.val = val /\ e.sym = prod.id
  BY DEF Entry
<1> HIDE DEF e
<1>3. Good(e, u \cup {p})
  BY <1>2 DEF Good, Typed, e
<1>4. CASE val = Panic
  <2>1. val.t = "panic"
    BY <1>4 DEF Panic, Val
  <2>2. \A X : "panic" \notin TypesOf(X)
    BY DEF TypesOf
  <2> QED
    BY <2>1, <2>2
<1>5. CASE val # Panic
  BY <1>1, <1>3, <1>5 DEF Fine, e
<1> QED
  BY <1>4, <1>5

\* What a row means, given what its symbols mean.
LEMMA RowMeaning ==
    ASSUME NEW p, NEW prod, Row(p, prod), NEW es,
           prod.id \notin {"Triple", "InsertClause"}, prod.call # "GraphGroupUnion"
    PROVE  /\ (\A i \in DOMAIN es : es[i].meaning = True) => MeaningOf(p, es) = True
           /\ \A k \in DOMAIN es : (\A i \in DOMAIN es \ {k} : es[i].meaning = True) =>
                 MeaningOf(p, es) = es[k].meaning
           /\ \A j, k \in DOMAIN es : (j # k /\ \A i \in DOMAIN es \ {j, k} : es[i].meaning = True) =>
                 MeaningOf(p, es) = Both(es[j].meaning, es[k].meaning)
<1> DEFINE m == [i \in DOMAIN es |-> es[i].meaning]
<1>1. DOMAIN m = DOMAIN es /\ \A i \in DOMAIN es : m[i] = es[i].meaning
  OBVIOUS
<1>2. MeaningOf(p, es) = Conjunction(m)
  BY DEF MeaningOf, Row
<1> HIDE DEF m
<1>3. (\A i \in DOMAIN es : es[i].meaning = True) => MeaningOf(p, es) = True
  BY <1>1, <1>2, ConjunctionNone
<1>4. ASSUME NEW k \in DOMAIN es, \A i \in DOMAIN es \ {k} : es[i].meaning = True
      PROVE  MeaningOf(p, es) = es[k].meaning
  <2>1. Conjunction(m) = m[k]
    BY <1>1, <1>4, ConjunctionOne
  <2> QED
    BY <1>1, <1>2, <2>1
<1>5. ASSUME NEW j \in DOMAIN es, NEW k \in DOMAIN es, j # k,
             \A i \in DOMAIN es \ {j, k} : es[i].meaning = True
      PROVE  MeaningOf(p, es) = Both(es[j].meaning, es[k].meaning)
  <2>1. Conjunction(m) = {a \cup b : a \in m[j], b \in m[k]}
    BY <1>1, <1>5, ConjunctionTwo
  <2> QED
    BY <1>1, <1>2, <2>1 DEF Both
<1> QED
  BY <1>3, <1>4, <1>5

\* The fields of an entry.
LEMMA EntryFields ==
    ASSUME NEW s, NEW val, NEW X, NEW tx, NEW m
    PROVE  LET e == Entry(s, val, X, tx, m)
           IN  e.state = s /\ e.val = val /\ e.sym = X /\ e.text = tx /\ e.meaning = m
BY DEF Entry

\* The fields of a row and of a value.
LEMMA ProdFields ==
    ASSUME NEW id, NEW rhs, NEW call, NEW args
    PROVE  LET r == Prod(id, rhs, call, args)
           IN  r.id = id /\ r.rhs = rhs /\ r.call = call /\ r.args = args
BY DEF Prod

\* The fields of a value.
LEMMA ValFields ==
    ASSUME NEW t, NEW v
    PROVE  Val(t, v).t = t /\ Val(t, v).v = v
BY DEF Val

\* A clause that means nothing.
Mute == {"Token", "nil", "string", "[]string", "SelectClause", "FromClause", "InsertClause"}

\* Such an attribute, other than a token.
Silent == {"nil", "string", "[]string", "SelectClause", "FromClause", "InsertClause"}

\* Entries that mean nothing by themselves.
LEMMA SilentMeans ==
    ASSUME NEW s, NEW val, NEW X, NEW tx, val.t \in Silent \/ (X = "Joiner" /\ val.t = "Token"),
           X \notin {"Var", "GraphTerm", "VarOrTerm", "Path", "PathSequence"}
    PROVE  Means(Entry(s, val, X, tx, True))
BY EntryFields DEF Means, Silent

\* What is known of each type of attribute, given or to be shown: clauses without conditions,
LEMMA MuteMeans ==
    ASSUME NEW e, Means(e), e.val.t \in Mute
    PROVE  e.meaning = True
BY DEF Means, Mute

\* tokens,
LEMMA TokenMeans ==
    ASSUME NEW e, Means(e), e.val.t = "Token", e.sym # "Joiner"
    PROVE  e.text = <<e.val.v>> /\ e.val.v.type = e.sym /\ e.meaning = True
BY DEF Means

\* groups,
LEMMA GroupMeans ==
    ASSUME NEW s, NEW v, NEW X, NEW tx, NEW m, IsGroup(v), TextMeaning(m) = Alternatives(Expand(v)),
           X \notin {"Var", "GraphTerm", "VarOrTerm", "Path", "PathSequence"}
    PROVE  Means(Entry(s, Val("GraphGroup", v), X, tx, m))
BY EntryFields, ValFields DEF Means

\* groups,
LEMMA GroupMeaning ==
    ASSUME NEW e, Means(e), e.val.t = "GraphGroup"
    PROVE  IsGroup(e.val.v) /\ TextMeaning(e.meaning) = Alternatives(Expand(e.val.v))
BY DEF Means

\* WHERE clauses,
LEMMA WhereMeans ==
    ASSUME NEW s, NEW v, NEW X, NEW tx, NEW m, TextMeaning(m) = Alternatives(WhereBranches(v)),
           X \notin {"Var", "GraphTerm", "VarOrTerm", "Path", "PathSequence"}
    PROVE  Means(Entry(s, Val("WhereClause", v), X, tx, m))
BY EntryFields, ValFields DEF Means

\* queries,
LEMMA QueryMeans ==
    ASSUME NEW s, NEW v, NEW X, NEW tx, NEW m, TextMeaning(m) = QueryMeaning(v),
           X \notin {"Var", "GraphTerm", "VarOrTerm", "Path", "PathSequence"}
    PROVE  Means(Entry(s, Val("Query", v), X, tx, m))
BY EntryFields, ValFields DEF Means

\* and blocks of triples.
LEMMA BlockMeans ==
    ASSUME NEW s, NEW v, NEW X, NEW tx, NEW m, IsSeq(v), TextMeaning(m) = {WrittenAll(v)},
           X \notin {"Var", "GraphTerm", "VarOrTerm", "Path", "PathSequence"}
    PROVE  Means(Entry(s, Val("[]Triple", v), X, tx, m))
BY EntryFields, ValFields DEF Means

\* Symbols of which the text alone says nothing.
Named == {"Var", "GraphTerm", "VarOrTerm", "Path", "PathSequence", "PathElt", "PathPrimary"}

\* A row that returns an attribute, the other symbols meaning nothing.
LEMMA AttribFine ==
    ASSUME NEW p, NEW id, NEW rhs, NEW a \in 1 .. Len(rhs), NEW es, NEW u, NEW t,
           Row(p, Prod(id, rhs, "attrib", <<a>>)), Ready(p, es, u), Len(rhs) \in Nat,
           t \in {"Query", "GraphGroup"}, TypesOf(rhs[a]) = {t}, TypesOf(id) = {t},
           id \notin Named \cup {"Triple", "InsertClause"},
           \A i \in 1 .. Len(rhs) : i # a => TypesOf(rhs[i]) \subseteq Mute
    PROVE  Fine(p, es, u)
<1> DEFINE prod == Prod(id, rhs, "attrib", <<a>>)
<1>1. prod.id = id /\ prod.rhs = rhs /\ prod.call = "attrib" /\ Row(p, prod)
  BY ProdFields
<1> HIDE DEF prod
<1>2. /\ DOMAIN es = 1 .. Len(rhs)
      /\ \A i \in 1 .. Len(rhs) : es[i].val.t \in TypesOf(rhs[i]) /\ (u \cap Lossy = {} => Means(es[i]))
  BY <1>1, RowReady
<1>3. ReduceFunc(p, Vals(es)) = es[a].val
  BY <1>2, CallAttrib
<1>4. ASSUME u \cap Lossy = {}
      PROVE  MeaningOf(p, es) = es[a].meaning
  <2>1. \A i \in DOMAIN es \ {a} : es[i].meaning = True
    BY <1>2, <1>4, MuteMeans
  <2>2. prod.id \notin {"Triple", "InsertClause"} /\ prod.call # "GraphGroupUnion" /\ a \in DOMAIN es
    BY <1>1, <1>2
  <2> QED
    BY <1>1, <2>1, <2>2, RowMeaning
<1>5. ASSUME (u \cup {p}) \cap Lossy = {}
      PROVE  Means(Entry(0, es[a].val, id, Texts(es), MeaningOf(p, es)))
  <2>1. u \cap Lossy = {}
    BY <1>5
  <2>2. MeaningOf(p, es) = es[a].meaning /\ Means(es[a]) /\ es[a].val.t = t
    BY <1>2, <1>4, <2>1
  <2> DEFINE e == Entry(0, es[a].val, id, Texts(es), MeaningOf(p, es))
  <2>3. e.val = es[a].val /\ e.meaning = es[a].meaning /\ e.sym = id
    BY <2>2, EntryFields
  <2> HIDE DEF e
  <2>4. Means(e)
    BY <2>2, <2>3 DEF Means, Named
  <2> QED
    BY <2>4 DEF e
<1>6. es[a].val.t \in TypesOf(prod.id) /\ prod.id \notin {"PathElt", "PathPrimary"}
  BY <1>1, <1>2 DEF Named
<1> QED
  BY <1>1, <1>3, <1>5, <1>6, FineOf

\* A row whose action loses something.
LEMMA LossyFine ==
    ASSUME NEW p \in Lossy, NEW prod, Row(p, prod), NEW es, NEW u, NEW val,
           ReduceFunc(p, Vals(es)) = val, val.t \in TypesOf(prod.id),
           prod.id \notin {"PathElt", "PathPrimary"}
    PROVE  Fine(p, es, u)
<1>1. p \in (u \cup {p}) \cap Lossy
  OBVIOUS
<1> QED
  BY <1>1, FineOf

\* The symbols that a row pops.
LEMMA RhsReady ==
    ASSUME NEW p, NEW id, NEW rhs, NEW call, NEW args, Row(p, Prod(id, rhs, call, args)),
           NEW es, NEW u, Ready(p, es, u)
    PROVE  /\ Len(es) = Len(rhs) /\ DOMAIN es = 1 .. Len(rhs)
           /\ \A i \in 1 .. Len(rhs) :
                 /\ es[i].sym = rhs[i] /\ es[i].text \in Seq(Token)
                 /\ es[i].val.t \in TypesOf(rhs[i]) /\ Good(es[i], u)
                 /\ u \cap Lossy = {} => Means(es[i])
<1> DEFINE prod == Prod(id, rhs, call, args)
<1>1. prod.rhs = rhs /\ Row(p, prod)
  BY ProdFields
<1> HIDE DEF prod
<1> QED
  BY <1>1, RowReady

\* A query, which means what its WHERE clause means.
LEMMA QueryFine ==
    ASSUME NEW p, NEW id, NEW rhs, NEW call, NEW args, Row(p, Prod(id, rhs, call, args)),
           NEW es, NEW u, Ready(p, es, u), NEW q,
           ReduceFunc(p, Vals(es)) = Val("Query", q), TypesOf(id) = {"Query"},
           id \notin Named \cup {"Triple", "InsertClause"}, call # "GraphGroupUnion",
           NEW k \in 1 .. Len(rhs), TypesOf(rhs[k]) = {"WhereClause"}, q.where = es[k].val.v,
           \A i \in 1 .. Len(rhs) : i # k => TypesOf(rhs[i]) \subseteq Mute
    PROVE  Fine(p, es, u)
<1> DEFINE prod == Prod(id, rhs, call, args)
<1>1. prod.id = id /\ prod.call = call /\ Row(p, prod)
  BY ProdFields
<1>2. /\ DOMAIN es = 1 .. Len(rhs) /\ es[k].val.t = "WhereClause"
      /\ \A i \in 1 .. Len(rhs) : /\ es[i].val.t \in TypesOf(rhs[i])
                                  /\ u \cap Lossy = {} => Means(es[i])
  BY RhsReady
<1> HIDE DEF prod
<1>3. ASSUME (u \cup {p}) \cap Lossy = {}
      PROVE  Means(Entry(0, Val("Query", q), id, Texts(es), MeaningOf(p, es)))
  <2>1. \A i \in DOMAIN es : Means(es[i])
    BY <1>2, <1>3
  <2>2. \A i \in DOMAIN es \ {k} : es[i].meaning = True
    BY <1>2, <2>1, MuteMeans
  <2>3. MeaningOf(p, es) = es[k].meaning
    <3>1. k \in DOMAIN es /\ prod.id \notin {"Triple", "InsertClause"} /\ prod.call # "GraphGroupUnion"
      BY <1>1, <1>2
    <3> QED
      BY <1>1, <2>2, <3>1, RowMeaning
  <2>4. TextMeaning(es[k].meaning) = Alternatives(WhereBranches(es[k].val.v))
    BY <1>2, <2>1 DEF Means
  <2>5. TextMeaning(MeaningOf(p, es)) = QueryMeaning(q)
    BY <2>3, <2>4, QueriesMean
  <2> QED
    BY <2>5, QueryMeans DEF Named
<1>4. Val("Query", q).t \in TypesOf(prod.id) /\ prod.id \notin {"PathElt", "PathPrimary"}
  BY <1>1, ValFields DEF Named
<1> QED
  BY <1>1, <1>3, <1>4, FineOf

\* A row of two symbols whose function takes both.
LEMMA GivesBoth ==
    ASSUME NEW p, NEW id, NEW rhs, NEW c, Len(rhs) = 2, NEW s, NEW t, NEW es, NEW u,
           Row(p, Prod(id, rhs, c, <<1, 2>>)), Ready(p, es, u), c \notin {"attrib", "nil"},
           Signature[c] = <<s, t>>, TypesOf(rhs[1]) = {s}, TypesOf(rhs[2]) = {t}
    PROVE  ReduceFunc(p, Vals(es)) = Build(c, <<es[1].val.v, es[2].val.v>>)
<1>1. /\ 1 \in DOMAIN es /\ es[1].val.t = s
      /\ 2 \in DOMAIN es /\ es[2].val.t = t
  BY RhsReady
<1>2. ReduceFunc(p, Vals(es)) = IF <<es[1].val.t, es[2].val.t>> = Signature[c]
                                THEN Build(c, <<es[1].val.v, es[2].val.v>>) ELSE Panic
  BY <1>1, CallTwo
<1>3. <<es[1].val.t, es[2].val.t>> = <<s, t>>
  BY <1>1
<1> QED
  BY <1>2, <1>3

\* A row of three symbols whose function takes all.
LEMMA GivesThree ==
    ASSUME NEW p, NEW id, NEW rhs, NEW c, Len(rhs) = 3, NEW s, NEW t, NEW w, NEW es, NEW u,
           Row(p, Prod(id, rhs, c, <<1, 2, 3>>)), Ready(p, es, u), c \notin {"attrib", "nil"},
           Signature[c] = <<s, t, w>>, TypesOf(rhs[1]) = {s}, TypesOf(rhs[2]) = {t}, TypesOf(rhs[3]) = {w}
    PROVE  ReduceFunc(p, Vals(es)) = Build(c, <<es[1].val.v, es[2].val.v, es[3].val.v>>)
<1>1. /\ 1 \in DOMAIN es /\ es[1].val.t = s
      /\ 2 \in DOMAIN es /\ es[2].val.t = t
      /\ 3 \in DOMAIN es /\ es[3].val.t = w
  BY RhsReady
<1>2. ReduceFunc(p, Vals(es)) = IF <<es[1].val.t, es[2].val.t, es[3].val.t>> = Signature[c]
                                THEN Build(c, <<es[1].val.v, es[2].val.v, es[3].val.v>>) ELSE Panic
  BY <1>1, CallThree
<1>3. <<es[1].val.t, es[2].val.t, es[3].val.t>> = <<s, t, w>>
  BY <1>1
<1> QED
  BY <1>2, <1>3

\* The rows that build a query.
LEMMA TwoClauses ==
    ASSUME NEW p, NEW id \in {"SelectQuery", "CountQuery", "UpdateQuery"}, NEW S, NEW t \in Mute,
           NEW call \in {"NewQuery", "NewCountQuery", "NewInsertQuery"}, NEW es, NEW u,
           Row(p, Prod(id, <<S, "WhereClause">>, call, <<1, 2>>)), Ready(p, es, u),
           Signature[call] = <<t, "WhereClause">>, TypesOf(S) = {t}
    PROVE  Fine(p, es, u)
<1> DEFINE rhs == <<S, "WhereClause">>
           x == <<es[1].val.v, es[2].val.v>>
           q == QueryOf(call, x)
<1>1. TypesOf("WhereClause") = {"WhereClause"} /\ TypesOf(id) = {"Query"}
  BY SymbolTypes
<1>2. Len(rhs) = 2 /\ rhs[1] = S /\ rhs[2] = "WhereClause" /\ Row(p, Prod(id, rhs, call, <<1, 2>>))
  OBVIOUS
<1> HIDE DEF rhs
<1>3. Row(p, Prod(id, rhs, call, <<1, 2>>))
  BY <1>2
<1>4. ReduceFunc(p, Vals(es)) = Build(call, x)
  BY <1>1, <1>2, GivesBoth
<1>5. Build(call, x) = Val("Query", q) /\ q.where = es[2].val.v
  <2>1. Build(call, x) = Val("Query", QueryOf(call, x))
    BY BuildQuery
  <2>2. QueryOf(call, x).where = x[2]
    BY QueriesMean
  <2> QED
    BY <2>1, <2>2
<1> HIDE DEF x, q
<1>6. id \notin Named \cup {"Triple", "InsertClause"} /\ call # "GraphGroupUnion"
  BY DEF Named
<1>7. /\ TypesOf(id) = {"Query"} /\ 2 \in 1 .. Len(rhs) /\ TypesOf(rhs[2]) = {"WhereClause"}
      /\ \A i \in 1 .. Len(rhs) : i # 2 => TypesOf(rhs[i]) \subseteq Mute
  BY <1>1, <1>2
<1>8. ReduceFunc(p, Vals(es)) = Val("Query", q)
  BY <1>4, <1>5
<1> QED
  BY <1>3, <1>5, <1>6, <1>7, <1>8, QueryFine

\* Queries of three clauses, FROM among them.
LEMMA ThreeClauses ==
    ASSUME NEW p, NEW id \in {"SelectQuery", "CountQuery", "UpdateQuery"}, NEW S, NEW t \in Mute,
           NEW call \in {"NewQueryMulti", "NewCountQueryMulti", "NewInsertQueryMulti"}, NEW es, NEW u,
           Row(p, Prod(id, <<S, "DatasetClause", "WhereClause">>, call, <<1, 2, 3>>)), Ready(p, es, u),
           Signature[call] = <<t, "FromClause", "WhereClause">>, TypesOf(S) = {t}
    PROVE  Fine(p, es, u)
<1> DEFINE rhs == <<S, "DatasetClause", "WhereClause">>
           x == <<es[1].val.v, es[2].val.v, es[3].val.v>>
           q == QueryOf(call, x)
<1>1. /\ TypesOf("WhereClause") = {"WhereClause"} /\ TypesOf("DatasetClause") = {"FromClause"}
      /\ TypesOf(id) = {"Query"} /\ "FromClause" \in Mute
  BY SymbolTypes DEF Mute
<1>2. /\ Len(rhs) = 3 /\ rhs[1] = S /\ rhs[2] = "DatasetClause" /\ rhs[3] = "WhereClause"
      /\ Row(p, Prod(id, rhs, call, <<1, 2, 3>>))
  OBVIOUS
<1> HIDE DEF rhs
<1>3. Row(p, Prod(id, rhs, call, <<1, 2, 3>>))
  BY <1>2
<1>4. ReduceFunc(p, Vals(es)) = Build(call, x)
  BY <1>1, <1>2, GivesThree
<1>5. Build(call, x) = Val("Query", q) /\ q.where = es[3].val.v
  <2>1. Build(call, x) = Val("Query", QueryOf(call, x))
    BY BuildQuery
  <2>2. QueryOf(call, x).where = x[3]
    BY QueriesMean
  <2> QED
    BY <2>1, <2>2
<1> HIDE DEF x, q
<1>6. id \notin Named \cup {"Triple", "InsertClause"} /\ call # "GraphGroupUnion"
  BY DEF Named
<1>7. /\ TypesOf(id) = {"Query"} /\ 3 \in 1 .. Len(rhs) /\ TypesOf(rhs[3]) = {"WhereClause"}
      /\ \A i \in 1 .. Len(rhs) : i # 3 => TypesOf(rhs[i]) \subseteq Mute
  BY <1>1, <1>2
<1>8. ReduceFunc(p, Vals(es)) = Val("Query", q)
  BY <1>4, <1>5
<1> QED
  BY <1>3, <1>5, <1>6, <1>7, <1>8, QueryFine

\* The rows of queries.
LEMMA QueryRowsFine ==
    ASSUME NEW p \in 4 .. 9, NEW es, NEW u, Ready(p, es, u)
    PROVE  Fine(p, es, u)
<1>1. /\ "SelectClause" \in Mute /\ "InsertClause" \in Mute
      /\ TypesOf("SelectClause") = {"SelectClause"} /\ TypesOf("CountClause") = {"SelectClause"}
      /\ TypesOf("InsertClause") = {"InsertClause"}
  BY SymbolTypes DEF Mute
<1>4. CASE p = 4
  <2>1. Row(p, Prod("SelectQuery", <<"SelectClause", "DatasetClause", "WhereClause">>, "NewQueryMulti", <<1, 2, 3>>))
    BY <1>4, QueryRows
  <2>2. Signature["NewQueryMulti"] = <<"SelectClause", "FromClause", "WhereClause">>
    BY Signatures
  <2> QED
    BY <1>1, <2>1, <2>2, ThreeClauses
<1>5. CASE p = 5
  <2>1. Row(p, Prod("SelectQuery", <<"SelectClause", "WhereClause">>, "NewQuery", <<1, 2>>))
    BY <1>5, QueryRows
  <2>2. Signature["NewQuery"] = <<"SelectClause", "WhereClause">>
    BY Signatures
  <2> QED
    BY <1>1, <2>1, <2>2, TwoClauses
<1>6. CASE p = 6
  <2>1. Row(p, Prod("CountQuery", <<"CountClause", "DatasetClause", "WhereClause">>, "NewCountQueryMulti", <<1, 2, 3>>))
    BY <1>6, QueryRows
  <2>2. Signature["NewCountQueryMulti"] = <<"SelectClause", "FromClause", "WhereClause">>
    BY Signatures
  <2> QED
    BY <1>1, <2>1, <2>2, ThreeClauses
<1>7. CASE p = 7
  <2>1. Row(p, Prod("CountQuery", <<"CountClause", "WhereClause">>, "NewCountQuery", <<1, 2>>))
    BY <1>7, QueryRows
  <2>2. Signature["NewCountQuery"] = <<"SelectClause", "WhereClause">>
    BY Signatures
  <2> QED
    BY <1>1, <2>1, <2>2, TwoClauses
<1>8. CASE p = 8
  <2>1. Row(p, Prod("UpdateQuery", <<"InsertClause", "DatasetClause", "WhereClause">>, "NewInsertQueryMulti", <<1, 2, 3>>))
    BY <1>8, QueryRows
  <2>2. Signature["NewInsertQueryMulti"] = <<"InsertClause", "FromClause", "WhereClause">>
    BY Signatures
  <2> QED
    BY <1>1, <2>1, <2>2, ThreeClauses
<1>9. CASE p = 9
  <2>1. Row(p, Prod("UpdateQuery", <<"InsertClause", "WhereClause">>, "NewInsertQuery", <<1, 2>>))
    BY <1>9, QueryRows
  <2>2. Signature["NewInsertQuery"] = <<"InsertClause", "WhereClause">>
    BY Signatures
  <2> QED
    BY <1>1, <2>1, <2>2, TwoClauses
<1> QED
  BY <1>4, <1>5, <1>6, <1>7, <1>8, <1>9

-----------------------------------------------------------------------------
(* The rows of clauses and groups that are handed on.                      *)

\* A row that builds something the text says nothing of.
LEMMA SilentFine ==
    ASSUME NEW p, NEW id, NEW rhs, NEW call, NEW args, Row(p, Prod(id, rhs, call, args)),
           NEW es, NEW u, Ready(p, es, u), NEW val,
           ReduceFunc(p, Vals(es)) = val, val.t \in TypesOf(id),
           val.t \in Silent \/ (id = "Joiner" /\ val.t = "Token"),
           id \notin Named \cup {"Triple"}, call # "GraphGroupUnion",
           id = "InsertClause" \/ \A i \in 1 .. Len(rhs) : TypesOf(rhs[i]) \subseteq Mute
    PROVE  Fine(p, es, u)
<1> DEFINE prod == Prod(id, rhs, call, args)
<1>1. prod.id = id /\ prod.call = call /\ Row(p, prod)
  BY ProdFields
<1>2. /\ DOMAIN es = 1 .. Len(rhs)
      /\ \A i \in 1 .. Len(rhs) : /\ es[i].val.t \in TypesOf(rhs[i])
                                  /\ u \cap Lossy = {} => Means(es[i])
  BY RhsReady
<1> HIDE DEF prod
<1>3. ASSUME u \cap Lossy = {}
      PROVE  MeaningOf(p, es) = True
  <2>1. CASE id = "InsertClause"
    BY <1>1, <2>1 DEF MeaningOf, Row
  <2>2. CASE id # "InsertClause"
    <3>1. \A i \in DOMAIN es : es[i].meaning = True
      BY <1>2, <1>3, <2>2, MuteMeans
    <3>2. prod.id \notin {"Triple", "InsertClause"} /\ prod.call # "GraphGroupUnion"
      BY <1>1, <2>2
    <3> QED
      BY <1>1, <3>1, <3>2, RowMeaning
  <2> QED
    BY <2>1, <2>2
<1>4. ASSUME (u \cup {p}) \cap Lossy = {}
      PROVE  Means(Entry(0, val, id, Texts(es), MeaningOf(p, es)))
  <2>1. MeaningOf(p, es) = True
    BY <1>3, <1>4
  <2> QED
    BY <2>1, SilentMeans DEF Named
<1>5. prod.id \notin {"PathElt", "PathPrimary"}
  BY <1>1 DEF Named
<1> QED
  BY <1>1, <1>4, <1>5, FineOf

\* Such rows, by the number of attributes given to the function.
LEMMA SilentOne ==
    ASSUME NEW p, NEW id, NEW rhs, NEW c, NEW a \in 1 .. Len(rhs), Row(p, Prod(id, rhs, c, <<a>>)),
           NEW es, NEW u, Ready(p, es, u), NEW s, NEW t \in Silent,
           Signature[c] = <<s>>, TypesOf(rhs[a]) = {s}, TypesOf(id) = {t}, \A x : Build(c, x).t = t,
           id \notin Named \cup {"Triple"}, c \notin {"attrib", "nil", "GraphGroupUnion"},
           id = "InsertClause" \/ \A i \in 1 .. Len(rhs) : TypesOf(rhs[i]) \subseteq Mute
    PROVE  Fine(p, es, u)
<1>1. ReduceFunc(p, Vals(es)) = Build(c, <<es[a].val.v>>)
  <2>1. a \in DOMAIN es /\ es[a].val.t = s
    BY RhsReady
  <2>2. ReduceFunc(p, Vals(es)) = IF <<es[a].val.t>> = Signature[c]
                                  THEN Build(c, <<es[a].val.v>>) ELSE Panic
    BY <2>1, CallOne
  <2> QED
    BY <2>1, <2>2
<1> DEFINE val == Build(c, <<es[a].val.v>>)
<1>2. val.t = t /\ ReduceFunc(p, Vals(es)) = val
  BY <1>1
<1> HIDE DEF val
<1> QED
  BY <1>2, SilentFine

\* Clauses built from nothing,
LEMMA SilentNone ==
    ASSUME NEW p, NEW id, NEW rhs, NEW c, Row(p, Prod(id, rhs, c, <<>>)),
           NEW es, NEW u, Ready(p, es, u), NEW t \in Silent,
           Signature[c] = <<>>, TypesOf(id) = {t}, \A x : Build(c, x).t = t,
           id \notin Named \cup {"Triple"}, c \notin {"attrib", "nil", "GraphGroupUnion"},
           \A i \in 1 .. Len(rhs) : TypesOf(rhs[i]) \subseteq Mute
    PROVE  Fine(p, es, u)
<1>1. ReduceFunc(p, Vals(es)) = Build(c, <<>>)
  BY CallNone
<1> DEFINE val == Build(c, <<>>)
<1>2. val.t = t /\ ReduceFunc(p, Vals(es)) = val
  BY <1>1
<1> HIDE DEF val
<1> QED
  BY <1>2, SilentFine

\* and from two attributes.
LEMMA SilentBoth ==
    ASSUME NEW p, NEW id, NEW rhs, NEW c, Len(rhs) = 2, Row(p, Prod(id, rhs, c, <<1, 2>>)),
           NEW es, NEW u, Ready(p, es, u), NEW s \in Mute, NEW r \in Mute, NEW t \in Silent,
           Signature[c] = <<s, r>>, TypesOf(rhs[1]) = {s}, TypesOf(rhs[2]) = {r},
           TypesOf(id) = {t}, \A x : Build(c, x).t = t,
           id \notin Named \cup {"Triple"}, c \notin {"attrib", "nil", "GraphGroupUnion"}
    PROVE  Fine(p, es, u)
<1>1. ReduceFunc(p, Vals(es)) = Build(c, <<es[1].val.v, es[2].val.v>>)
  BY GivesBoth
<1> DEFINE val == Build(c, <<es[1].val.v, es[2].val.v>>)
<1>2. val.t = t /\ ReduceFunc(p, Vals(es)) = val
  BY <1>1
<1> HIDE DEF val
<1>3. \A i \in 1 .. Len(rhs) : TypesOf(rhs[i]) \subseteq Mute
  OBVIOUS
<1> QED
  BY <1>2, <1>3, SilentFine

\* The rows of the clauses that mean nothing.
LEMMA SilentRowsFine ==
    ASSUME NEW p \in 10 .. 23 \ {21}, NEW es, NEW u, Ready(p, es, u)
    PROVE  Fine(p, es, u)
<1>10. CASE p = 10
  <2> DEFINE rhs == <<"SELECT", "*">>
  <2>1. Row(10, Prod("SelectClause", rhs, "NewAllSelectClause", <<>>))
    BY ClauseRows
  <2>2. /\ Len(rhs) = 2 /\ TypesOf("SelectClause") = {"SelectClause"}
        /\ TypesOf(rhs[1]) = {"Token"} /\ TypesOf(rhs[2]) = {"Token"}
    BY SymbolTypes
  <2>3. Signature["NewAllSelectClause"] = <<>> /\ \A x : Build("NewAllSelectClause", x).t = "SelectClause"
    BY Signatures, BuildClause
  <2> HIDE DEF rhs
  <2>4. "SelectClause" \in Silent /\ "SelectClause" \notin Named \cup {"Triple"}
        /\ \A i \in 1 .. Len(rhs) : TypesOf(rhs[i]) \subseteq Mute
    BY <2>2 DEF Silent, Named, Mute
  <2> QED
    BY <1>10, <2>1, <2>2, <2>3, <2>4, SilentNone
<1>11. CASE p = 11
  <2> DEFINE rhs == <<"SELECT", "Varlist">>
  <2>1. Row(11, Prod("SelectClause", rhs, "NewSelectClause", <<2>>))
    BY ClauseRows
  <2>2. /\ Len(rhs) = 2 /\ TypesOf("SelectClause") = {"SelectClause"}
        /\ TypesOf(rhs[1]) = {"Token"} /\ TypesOf(rhs[2]) = {"[]string"}
    BY SymbolTypes
  <2>3. Signature["NewSelectClause"] = <<"[]string">> /\ \A x : Build("NewSelectClause", x).t = "SelectClause"
    BY Signatures, BuildClause
  <2> HIDE DEF rhs
  <2>4. "SelectClause" \in Silent /\ "SelectClause" \notin Named \cup {"Triple"}
        /\ 2 \in 1 .. Len(rhs)
        /\ \A i \in 1 .. Len(rhs) : TypesOf(rhs[i]) \subseteq Mute
    BY <2>2 DEF Silent, Named, Mute
  <2> QED
    BY <1>11, <2>1, <2>2, <2>3, <2>4, SilentOne
<1>12. CASE p = 12
  <2> DEFINE rhs == <<"INSERT", "{", "TriplesBlock", "}">>
  <2>1. Row(12, Prod("InsertClause", rhs, "NewInsertClause", <<3>>))
    BY ClauseRows
  <2>2. /\ Len(rhs) = 4 /\ TypesOf("InsertClause") = {"InsertClause"}
        /\ TypesOf(rhs[1]) = {"Token"}
        /\ TypesOf(rhs[2]) = {"Token"}
        /\ TypesOf(rhs[3]) = {"[]Triple"}
        /\ TypesOf(rhs[4]) = {"Token"}
    BY SymbolTypes
  <2>3. Signature["NewInsertClause"] = <<"[]Triple">> /\ \A x : Build("NewInsertClause", x).t = "InsertClause"
    BY Signatures, BuildClause
  <2> HIDE DEF rhs
  <2>4. "InsertClause" \in Silent /\ "InsertClause" \notin Named \cup {"Triple"} /\ 3 \in 1 .. Len(rhs)
    BY <2>2 DEF Silent, Named
  <2> QED
    BY <1>12, <2>1, <2>2, <2>3, <2>4, SilentOne
<1>13. CASE p = 13
  <2> DEFINE rhs == <<"INSERT", "{", "TriplesBlock", ".", "}">>
  <2>1. Row(13, Prod("InsertClause", rhs, "NewInsertClause", <<3>>))
    BY ClauseRows
  <2>2. /\ Len(rhs) = 5 /\ TypesOf("InsertClause") = {"InsertClause"}
        /\ TypesOf(rhs[1]) = {"Token"}
        /\ TypesOf(rhs[2]) = {"Token"}
        /\ TypesOf(rhs[3]) = {"[]Triple"}
        /\ TypesOf(rhs[4]) = {"Token"}
        /\ TypesOf(rhs[5]) = {"Token"}
    BY SymbolTypes
  <2>3. Signature["NewInsertClause"] = <<"[]Triple">> /\ \A x : Build("NewInsertClause", x).t = "InsertClause"
    BY Signatures, BuildClause
  <2> HIDE DEF rhs
  <2>4. "InsertClause" \in Silent /\ "InsertClause" \notin Named \cup {"Triple"} /\ 3 \in 1 .. Len(rhs)
    BY <2>2 DEF Silent, Named
  <2> QED
    BY <1>13, <2>1, <2>2, <2>3, <2>4, SilentOne
<1>14. CASE p = 14
  <2> DEFINE rhs == <<"COUNT", "*">>
  <2>1. Row(14, Prod("CountClause", rhs, "NewAllSelectClause", <<>>))
    BY ClauseRows
  <2>2. /\ Len(rhs) = 2 /\ TypesOf("CountClause") = {"SelectClause"}
        /\ TypesOf(rhs[1]) = {"Token"} /\ TypesOf(rhs[2]) = {"Token"}
    BY SymbolTypes
  <2>3. Signature["NewAllSelectClause"] = <<>> /\ \A x : Build("NewAllSelectClause", x).t = "SelectClause"
    BY Signatures, BuildClause
  <2> HIDE DEF rhs
  <2>4. "SelectClause" \in Silent /\ "CountClause" \notin Named \cup {"Triple"}
        /\ \A i \in 1 .. Len(rhs) : TypesOf(rhs[i]) \subseteq Mute
    BY <2>2 DEF Silent, Named, Mute
  <2> QED
    BY <1>14, <2>1, <2>2, <2>3, <2>4, SilentNone
<1>15. CASE p = 15
  <2> DEFINE rhs == <<"COUNT", "Varlist">>
  <2>1. Row(15, Prod("CountClause", rhs, "NewSelectClause", <<2>>))
    BY ClauseRows
  <2>2. /\ Len(rhs) = 2 /\ TypesOf("CountClause") = {"SelectClause"}
        /\ TypesOf(rhs[1]) = {"Token"} /\ TypesOf(rhs[2]) = {"[]string"}
    BY SymbolTypes
  <2>3. Signature["NewSelectClause"] = <<"[]string">> /\ \A x : Build("NewSelectClause", x).t = "SelectClause"
    BY Signatures, BuildClause
  <2> HIDE DEF rhs
  <2>4. "SelectClause" \in Silent /\ "CountClause" \notin Named \cup {"Triple"}
        /\ 2 \in 1 .. Len(rhs)
        /\ \A i \in 1 .. Len(rhs) : TypesOf(rhs[i]) \subseteq Mute
    BY <2>2 DEF Silent, Named, Mute
  <2> QED
    BY <1>15, <2>1, <2>2, <2>3, <2>4, SilentOne
<1>16. CASE p = 16
  <2> DEFINE rhs == <<"Var">>
  <2>1. Row(16, Prod("Varlist", rhs, "NewVarList", <<1>>))
    BY ClauseRows
  <2>2. /\ Len(rhs) = 1 /\ TypesOf("Varlist") = {"[]string"}
        /\ TypesOf(rhs[1]) = {"string"}
    BY SymbolTypes
  <2>3. Signature["NewVarList"] = <<"string">> /\ \A x : Build("NewVarList", x).t = "[]string"
    BY Signatures, BuildTerm
  <2> HIDE DEF rhs
  <2>4. "[]string" \in Silent /\ "Varlist" \notin Named \cup {"Triple"}
        /\ 1 \in 1 .. Len(rhs)
        /\ \A i \in 1 .. Len(rhs) : TypesOf(rhs[i]) \subseteq Mute
    BY <2>2 DEF Silent, Named, Mute
  <2> QED
    BY <1>16, <2>1, <2>2, <2>3, <2>4, SilentOne
<1>17. CASE p = 17
  <2> DEFINE rhs == <<"Varlist", "Var">>
  <2>1. Row(17, Prod("Varlist", rhs, "AppendVar", <<1, 2>>))
    BY ClauseRows
  <2>2. /\ Len(rhs) = 2 /\ TypesOf("Varlist") = {"[]string"}
        /\ TypesOf(rhs[1]) = {"[]string"} /\ TypesOf(rhs[2]) = {"string"}
    BY SymbolTypes
  <2>3. Signature["AppendVar"] = <<"[]string", "string">> /\ \A x : Build("AppendVar", x).t = "[]string"
    BY Signatures, BuildTerm
  <2> HIDE DEF rhs
  <2>4. "[]string" \in Silent /\ "Varlist" \notin Named \cup {"Triple"}
        /\ "[]string" \in Mute /\ "string" \in Mute
    BY <2>2 DEF Silent, Named, Mute
  <2> QED
    BY <1>17, <2>1, <2>2, <2>3, <2>4, SilentBoth
<1>18. CASE p = 18
  <2> DEFINE rhs == <<"String">>
  <2>1. Row(18, Prod("DBlist", rhs, "NewStringList", <<1>>))
    BY ClauseRows
  <2>2. /\ Len(rhs) = 1 /\ TypesOf("DBlist") = {"[]string"}
        /\ TypesOf(rhs[1]) = {"string"}
    BY SymbolTypes
  <2>3. Signature["NewStringList"] = <<"string">> /\ \A x : Build("NewStringList", x).t = "[]string"
    BY Signatures, BuildTerm
  <2> HIDE DEF rhs
  <2>4. "[]string" \in Silent /\ "DBlist" \notin Named \cup {"Triple"}
        /\ 1 \in 1 .. Len(rhs)
        /\ \A i \in 1 .. Len(rhs) : TypesOf(rhs[i]) \subseteq Mute
    BY <2>2 DEF Silent, Named, Mute
  <2> QED
    BY <1>18, <2>1, <2>2, <2>3, <2>4, SilentOne
<1>19. CASE p = 19
  <2> DEFINE rhs == <<"DBlist", "String">>
  <2>1. Row(19, Prod("DBlist", rhs, "AppendString", <<1, 2>>))
    BY ClauseRows
  <2>2. /\ Len(rhs) = 2 /\ TypesOf("DBlist") = {"[]string"}
        /\ TypesOf(rhs[1]) = {"[]string"} /\ TypesOf(rhs[2]) = {"string"}
    BY SymbolTypes
  <2>3. Signature["AppendString"] = <<"[]string", "string">> /\ \A x : Build("AppendString", x).t = "[]string"
    BY Signatures, BuildTerm
  <2> HIDE DEF rhs
  <2>4. "[]string" \in Silent /\ "DBlist" \notin Named \cup {"Triple"}
        /\ "[]string" \in Mute /\ "string" \in Mute
    BY <2>2 DEF Silent, Named, Mute
  <2> QED
    BY <1>19, <2>1, <2>2, <2>3, <2>4, SilentBoth
<1>20. CASE p = 20
  <2> DEFINE rhs == <<"string">>
  <2>1. Row(20, Prod("String", rhs, "ParseString", <<1>>))
    BY ClauseRows
  <2>2. /\ Len(rhs) = 1 /\ TypesOf("String") = {"string"}
        /\ TypesOf(rhs[1]) = {"Token"}
    BY SymbolTypes
  <2>3. Signature["ParseString"] = <<"Token">> /\ \A x : Build("ParseString", x).t = "string"
    BY Signatures, BuildTerm
  <2> HIDE DEF rhs
  <2>4. "string" \in Silent /\ "String" \notin Named \cup {"Triple"}
        /\ 1 \in 1 .. Len(rhs)
        /\ \A i \in 1 .. Len(rhs) : TypesOf(rhs[i]) \subseteq Mute
    BY <2>2 DEF Silent, Named, Mute
  <2> QED
    BY <1>20, <2>1, <2>2, <2>3, <2>4, SilentOne
<1>22. CASE p = 22
  <2> DEFINE rhs == <<"FROM", "DBlist">>
  <2>1. Row(22, Prod("DatasetClause", rhs, "NewFromClause", <<2>>))
    BY ClauseRows
  <2>2. /\ Len(rhs) = 2 /\ TypesOf("DatasetClause") = {"FromClause"}
        /\ TypesOf(rhs[1]) = {"Token"} /\ TypesOf(rhs[2]) = {"[]string"}
    BY SymbolTypes
  <2>3. Signature["NewFromClause"] = <<"[]string">> /\ \A x : Build("NewFromClause", x).t = "FromClause"
    BY Signatures, BuildClause
  <2> HIDE DEF rhs
  <2>4. "FromClause" \in Silent /\ "DatasetClause" \notin Named \cup {"Triple"}
        /\ 2 \in 1 .. Len(rhs)
        /\ \A i \in 1 .. Len(rhs) : TypesOf(rhs[i]) \subseteq Mute
    BY <2>2 DEF Silent, Named, Mute
  <2> QED
    BY <1>22, <2>1, <2>2, <2>3, <2>4, SilentOne
<1>23. CASE p = 23
  <2> DEFINE rhs == <<"FROM", "*">>
  <2>1. Row(23, Prod("DatasetClause", rhs, "NewAllFromClause", <<>>))
    BY ClauseRows
  <2>2. /\ Len(rhs) = 2 /\ TypesOf("DatasetClause") = {"FromClause"}
        /\ TypesOf(rhs[1]) = {"Token"} /\ TypesOf(rhs[2]) = {"Token"}
    BY SymbolTypes
  <2>3. Signature["NewAllFromClause"] = <<>> /\ \A x : Build("NewAllFromClause", x).t = "FromClause"
    BY Signatures, BuildClause
  <2> HIDE DEF rhs
  <2>4. "FromClause" \in Silent /\ "DatasetClause" \notin Named \cup {"Triple"}
        /\ \A i \in 1 .. Len(rhs) : TypesOf(rhs[i]) \subseteq Mute
    BY <2>2 DEF Silent, Named, Mute
  <2> QED
    BY <1>23, <2>1, <2>2, <2>3, <2>4, SilentNone
<1> QED
  BY <1>10, <1>11, <1>12, <1>13, <1>14, <1>15, <1>16, <1>17, <1>18, <1>19, <1>20, <1>22, <1>23

\* A row that returns its first attribute, a query or a group.
LEMMA FirstFine ==
    ASSUME NEW p, NEW id \in {"QueryUnit", "RestOfWhereList", "RestOfWhere", "GraphPatternNotTriples"},
           NEW rhs, Row(p, Prod(id, rhs, "attrib", << 1 >>)), NEW es, NEW u, Ready(p, es, u),
           Len(rhs) \in {1, 2}, TypesOf(rhs[1]) = TypesOf(id),
           Len(rhs) = 2 => TypesOf(rhs[2]) \subseteq Mute
    PROVE  Fine(p, es, u)
<1>1. PICK t \in {"Query", "GraphGroup"} : TypesOf(id) = {t}
  BY SymbolTypes
<1>2. id \notin Named \cup {"Triple", "InsertClause"}
  BY DEF Named
<1>3. 1 \in 1 .. Len(rhs) /\ Len(rhs) \in Nat
  OBVIOUS
<1>4. \A i \in 1 .. Len(rhs) : i # 1 => TypesOf(rhs[i]) \subseteq Mute
  OBVIOUS
<1>5. TypesOf(rhs[1]) = {t}
  BY <1>1
<1> QED
  BY <1>1, <1>2, <1>3, <1>4, <1>5, AttribFine

\* The rows that hand on a query or a group.
LEMMA AttribRowsFine ==
    ASSUME NEW p \in {1, 2, 3, 52, 55, 58, 60}, NEW es, NEW u, Ready(p, es, u)
    PROVE  Fine(p, es, u)
<1>1. CASE p = 1
  <2> DEFINE rhs == <<"SelectQuery", ";">>
  <2>1. Row(1, Prod("QueryUnit", rhs, "attrib", <<1>>))
    BY QueryRows
  <2>2. Len(rhs) = 2 /\ TypesOf(rhs[1]) = TypesOf("QueryUnit") /\ TypesOf(rhs[2]) \subseteq Mute
    BY SymbolTypes DEF Mute
  <2> HIDE DEF rhs
  <2> QED
    BY <1>1, <2>1, <2>2, FirstFine
<1>2. CASE p = 2
  <2> DEFINE rhs == <<"CountQuery", ";">>
  <2>1. Row(2, Prod("QueryUnit", rhs, "attrib", <<1>>))
    BY QueryRows
  <2>2. Len(rhs) = 2 /\ TypesOf(rhs[1]) = TypesOf("QueryUnit") /\ TypesOf(rhs[2]) \subseteq Mute
    BY SymbolTypes DEF Mute
  <2> HIDE DEF rhs
  <2> QED
    BY <1>2, <2>1, <2>2, FirstFine
<1>3. CASE p = 3
  <2> DEFINE rhs == <<"UpdateQuery", ";">>
  <2>1. Row(3, Prod("QueryUnit", rhs, "attrib", <<1>>))
    BY QueryRows
  <2>2. Len(rhs) = 2 /\ TypesOf(rhs[1]) = TypesOf("QueryUnit") /\ TypesOf(rhs[2]) \subseteq Mute
    BY SymbolTypes DEF Mute
  <2> HIDE DEF rhs
  <2> QED
    BY <1>3, <2>1, <2>2, FirstFine
<1>52. CASE p = 52
  <2> DEFINE rhs == <<"RestOfWhere">>
  <2>1. Row(52, Prod("RestOfWhereList", rhs, "attrib", <<1>>))
    BY GroupRows
  <2>2. Len(rhs) = 1 /\ TypesOf(rhs[1]) = TypesOf("RestOfWhereList")
    BY SymbolTypes DEF Mute
  <2> HIDE DEF rhs
  <2> QED
    BY <1>52, <2>1, <2>2, FirstFine
<1>55. CASE p = 55
  <2> DEFINE rhs == <<"GraphPatternNotTriples", "Joiner">>
  <2>1. Row(55, Prod("RestOfWhere", rhs, "attrib", <<1>>))
    BY GroupRows
  <2>2. Len(rhs) = 2 /\ TypesOf(rhs[1]) = TypesOf("RestOfWhere") /\ TypesOf(rhs[2]) \subseteq Mute
    BY SymbolTypes DEF Mute
  <2> HIDE DEF rhs
  <2> QED
    BY <1>55, <2>1, <2>2, FirstFine
<1>58. CASE p = 58
  <2> DEFINE rhs == <<"GroupGraphPattern">>
  <2>1. Row(58, Prod("GraphPatternNotTriples", rhs, "attrib", <<1>>))
    BY GroupRows
  <2>2. Len(rhs) = 1 /\ TypesOf(rhs[1]) = TypesOf("GraphPatternNotTriples")
    BY SymbolTypes DEF Mute
  <2> HIDE DEF rhs
  <2> QED
    BY <1>58, <2>1, <2>2, FirstFine
<1>60. CASE p = 60
  <2> DEFINE rhs == <<"{", "GroupGraphPatternSub", "Joiner", "}">>
  <2>1. Row(60, Prod("GroupGraphPattern", rhs, "attrib", <<2>>))
    BY GroupRows
  <2>2. /\ Len(rhs) = 4 /\ TypesOf("GroupGraphPattern") = {"GraphGroup"}
        /\ TypesOf(rhs[1]) = {"Token"}
        /\ TypesOf(rhs[2]) = {"GraphGroup"}
        /\ TypesOf(rhs[3]) = {"Token", "nil"}
        /\ TypesOf(rhs[4]) = {"Token"}
    BY SymbolTypes
  <2> HIDE DEF rhs
  <2>3. "GroupGraphPattern" \notin Named \cup {"Triple", "InsertClause"}
    BY DEF Named
  <2>4. \A i \in 1 .. Len(rhs) : i # 2 => TypesOf(rhs[i]) \subseteq Mute
    BY <2>2 DEF Mute
  <2>5. 2 \in 1 .. Len(rhs) /\ Len(rhs) \in Nat
    BY <2>2
  <2> QED
    BY <1>60, <2>1, <2>2, <2>3, <2>4, <2>5, AttribFine
<1> QED
  BY <1>1, <1>2, <1>3, <1>52, <1>55, <1>58, <1>60

\* The two rows of Joiner.
LEMMA JoinerRowsFine ==
    ASSUME NEW p \in {56, 57}, NEW es, NEW u, Ready(p, es, u)
    PROVE  Fine(p, es, u)
<1>1. /\ TypesOf("Joiner") = {"Token", "nil"} /\ TypesOf(".") = {"Token"}
      /\ "Joiner" \notin Named \cup {"Triple"} /\ "nil" \in Silent /\ "Token" \in Mute
  BY SymbolTypes DEF Named, Silent, Mute
<1>2. CASE p = 56
  <2> DEFINE rhs == <<".">>
  <2>1. Row(56, Prod("Joiner", rhs, "attrib", <<1>>))
    BY GroupRows
  <2>2. Len(rhs) = 1 /\ TypesOf(rhs[1]) = {"Token"}
    BY <1>1
  <2> HIDE DEF rhs
  <2>3. 1 \in DOMAIN es /\ es[1].val.t = "Token"
    BY <1>2, <2>1, <2>2, RhsReady
  <2>4. ReduceFunc(p, Vals(es)) = es[1].val
    BY <1>2, <2>1, <2>3, CallAttrib
  <2>5. \A i \in 1 .. Len(rhs) : TypesOf(rhs[i]) \subseteq Mute
    BY <1>1, <2>2
  <2> QED
    BY <1>1, <1>2, <2>1, <2>3, <2>4, <2>5, SilentFine
<1>3. CASE p = 57
  <2> DEFINE rhs == <<>>
  <2>1. Row(57, Prod("Joiner", rhs, "nil", <<>>))
    BY GroupRows
  <2>2. \A i \in 1 .. Len(rhs) : TypesOf(rhs[i]) \subseteq Mute
    OBVIOUS
  <2> HIDE DEF rhs
  <2>3. ReduceFunc(p, Vals(es)) = Nil /\ Nil.t = "nil"
    BY <1>3, <2>1, CallNil DEF Nil, Val
  <2> QED
    BY <1>1, <1>3, <2>1, <2>2, <2>3, SilentFine
<1> QED
  BY <1>2, <1>3

\* The rows whose action loses something.
LEMMA LossyRowsFine ==
    ASSUME NEW p \in {39, 53, 63}, NEW es, NEW u, Ready(p, es, u)
    PROVE  Fine(p, es, u)
<1>0. p \in Lossy
  BY DEF Lossy, PathAlternative, GroupInGroup, NextToEachOther
<1>1. CASE p = 39
  <2> DEFINE rhs == <<"Path", "|", "PathSequence">>
             prod == Prod("Path", rhs, "attrib", <<1>>)
  <2>1. Row(39, prod)
    BY TermRows
  <2>5. prod.id = "Path"
    BY ProdFields
  <2>2. Len(rhs) = 3 /\ rhs[1] = "Path"
    OBVIOUS
  <2> HIDE DEF rhs
  <2>3. 1 \in DOMAIN es /\ es[1].val.t \in TypesOf("Path")
    BY <1>1, <2>1, <2>2, RhsReady
  <2>4. ReduceFunc(p, Vals(es)) = es[1].val
    BY <1>1, <2>1, <2>3, CallAttrib
  <2> HIDE DEF prod
  <2> QED
    BY <1>0, <1>1, <2>1, <2>3, <2>4, <2>5, LossyFine
<1>2. CASE p = 53
  <2> DEFINE rhs == <<"RestOfWhereList", "RestOfWhere">>
             prod == Prod("RestOfWhereList", rhs, "MergeGraphGroups", <<1, 2>>)
  <2>1. Row(53, prod)
    BY GroupRows
  <2>5. prod.id = "RestOfWhereList"
    BY ProdFields
  <2>2. /\ Len(rhs) = 2 /\ TypesOf(rhs[1]) = {"GraphGroup"} /\ TypesOf(rhs[2]) = {"GraphGroup"}
        /\ TypesOf("RestOfWhereList") = {"GraphGroup"}
        /\ Signature["MergeGraphGroups"] = <<"GraphGroup", "GraphGroup">>
    BY SymbolTypes, Signatures
  <2> HIDE DEF rhs
  <2> DEFINE x == <<es[1].val.v, es[2].val.v>>
  <2>3. ReduceFunc(p, Vals(es)) = Build("MergeGraphGroups", x)
    BY <1>2, <2>1, <2>2, GivesBoth
  <2> HIDE DEF x, prod
  <2>4. ReduceFunc(p, Vals(es)) = Val("GraphGroup", MergeGraphGroups(x[1], x[2]))
    BY <2>3, BuildGroup
  <2> QED
    BY <1>0, <1>2, <2>1, <2>2, <2>4, <2>5, ValFields, LossyFine
<1>3. CASE p = 63
  <2> DEFINE rhs == <<"GroupGraphPatternSub", "GraphPatternNotTriples", ".", "TriplesBlock">>
             prod == Prod("GroupGraphPatternSub", rhs, "attrib", <<1>>)
  <2>1. Row(63, prod)
    BY GroupRows
  <2>5. prod.id = "GroupGraphPatternSub"
    BY ProdFields
  <2>2. Len(rhs) = 4 /\ rhs[1] = "GroupGraphPatternSub"
    OBVIOUS
  <2> HIDE DEF rhs
  <2>3. 1 \in DOMAIN es /\ es[1].val.t \in TypesOf("GroupGraphPatternSub")
    BY <1>3, <2>1, <2>2, RhsReady
  <2>4. ReduceFunc(p, Vals(es)) = es[1].val
    BY <1>3, <2>1, <2>3, CallAttrib
  <2> HIDE DEF prod
  <2> QED
    BY <1>0, <1>3, <2>1, <2>3, <2>4, <2>5, LossyFine
<1> QED
  BY <1>1, <1>2, <1>3

-----------------------------------------------------------------------------
(* The rows of names.                                                      *)

\* A row whose function is given the first attribute, of the type that it asserts.
GivenFirst(p, id, rhs, c, s) ==
    /\ Row(p, Prod(id, rhs, c, <<1>>)) /\ c \notin {"attrib", "nil"}
    /\ Signature[c] = <<s>> /\ 1 \in 1 .. Len(rhs) /\ TypesOf(rhs[1]) = {s}

\* What ReduceFunc builds from the first attribute.
LEMMA GivesFirst ==
    ASSUME NEW p, NEW id, NEW rhs, NEW c, NEW s, NEW es, NEW u,
           GivenFirst(p, id, rhs, c, s), Ready(p, es, u)
    PROVE  ReduceFunc(p, Vals(es)) = Build(c, <<es[1].val.v>>)
<1>1. Row(p, Prod(id, rhs, c, <<1>>))
  BY DEF GivenFirst
<1>2. c \notin {"attrib", "nil"} /\ Signature[c] = <<s>> /\ 1 \in 1 .. Len(rhs) /\ TypesOf(rhs[1]) = {s}
  BY DEF GivenFirst
<1>3. 1 \in DOMAIN es /\ es[1].val.t = s
  BY <1>1, <1>2, RhsReady
<1>4. ReduceFunc(p, Vals(es)) = IF <<es[1].val.t>> = Signature[c] THEN Build(c, <<es[1].val.v>>) ELSE Panic
  BY <1>1, <1>2, <1>3, CallOne
<1> QED
  BY <1>2, <1>3, <1>4

\* The text of one symbol.
LEMMA TextOne ==
    ASSUME NEW p, NEW es, NEW u, Ready(p, es, u), Len(es) = 1
    PROVE  Texts(es) = es[1].text
<1>1. IsSeq(es) /\ DOMAIN es = 1 .. Len(es) /\ \A i \in DOMAIN es : es[i].text \in Seq(Token)
  BY DEF Ready
<1> QED
  BY <1>1, TextsOf

\* A row that hands on the name of a variable or of a term.
LEMMA NamedFine ==
    ASSUME NEW p, NEW id \in {"Var", "GraphTerm", "VarOrTerm"}, NEW rhs, NEW call,
           NEW s \in {"Token", "string"}, GivenFirst(p, id, rhs, call, s), Len(rhs) = 1, NEW es, NEW u, Ready(p, es, u),
           NEW val, ReduceFunc(p, Vals(es)) = val, val.t \in TypesOf(id), val.v = es[1].val.v,
           call # "GraphGroupUnion",
           rhs[1] \in {"var", "uri", "url", "quotedstring", "Var", "GraphTerm"}
    PROVE  Fine(p, es, u)
<1> DEFINE prod == Prod(id, rhs, call, <<1>>)
<1>1. prod.id = id /\ prod.rhs = rhs /\ prod.call = call /\ Row(p, prod)
  BY ProdFields DEF GivenFirst
<1>2. /\ DOMAIN es = 1 .. 1 /\ Len(es) = 1
      /\ \A i \in 1 .. 1 : /\ es[i].sym = rhs[i] /\ es[i].text \in Seq(Token)
                           /\ es[i].val.t \in TypesOf(rhs[i])
                           /\ u \cap Lossy = {} => Means(es[i])
  BY <1>1, RhsReady
<1> HIDE DEF prod
<1>4. Texts(es) = es[1].text
  <2>1. Len(es) = 1
    BY <1>2
  <2> QED
    BY <2>1, TextOne, Zenon
<1>5. TypesOf(rhs[1]) = {s}
  BY DEF GivenFirst
<1>8. TypesOf(id) \subseteq {"string", "URI"}
  <2>1. TypesOf("Var") = {"string"} /\ TypesOf("GraphTerm") = {"string"} /\ TypesOf("VarOrTerm") = {"URI"}
    BY SymbolTypes
  <2> QED
    BY <2>1
<1>9. rhs[1] \in {"Var", "GraphTerm"} => s = "string"
  <2>1. TypesOf("Var") = {"string"} /\ TypesOf("GraphTerm") = {"string"}
    BY SymbolTypes
  <2> QED
    BY <1>5, <2>1
<1>10. rhs[1] \in {"var", "uri", "url", "quotedstring"} => s = "Token"
  <2>1. TypesOf("var") = {"Token"} /\ TypesOf("uri") = {"Token"} /\ TypesOf("url") = {"Token"} /\ TypesOf("quotedstring") = {"Token"}
    BY SymbolTypes
  <2> QED
    BY <1>5, <2>1
<1>6. ASSUME (u \cup {p}) \cap Lossy = {}
      PROVE  Means(Entry(0, val, id, Texts(es), MeaningOf(p, es)))
  <2>1. Means(es[1]) /\ es[1].sym = rhs[1] /\ es[1].val.t \in TypesOf(rhs[1])
    BY <1>2, <1>6
  <2>2. es[1].meaning = True
    <3>1. es[1].val.t \in Mute
      BY <1>5, <2>1 DEF Mute
    <3> QED
      BY <2>1, <3>1, MuteMeans
  <2>3. MeaningOf(p, es) = True
    <3>1. \A i \in DOMAIN es : es[i].meaning = True
      BY <1>2, <2>2
    <3>2. prod.id \notin {"Triple", "InsertClause"} /\ prod.call # "GraphGroupUnion"
      BY <1>1
    <3> QED
      BY <1>1, <3>1, <3>2, RowMeaning
  <2>4. es[1].text = <<es[1].val.v>> /\ es[1].val.v.type \in {"var", "uri", "url", "quotedstring"}
    BY <1>5, <1>9, <1>10, <2>1 DEF Means
  <2> DEFINE e == Entry(0, val, id, Texts(es), MeaningOf(p, es))
  <2>5. e.val = val /\ e.sym = id /\ e.text = es[1].text /\ e.meaning = True
    BY <1>4, <2>3, EntryFields
  <2> HIDE DEF e
  <2>6. e.text = <<e.val.v>> /\ e.val.v.type \in {"var", "uri", "url", "quotedstring"}
    BY <2>4, <2>5
  <2>7. e.val.t \in {"string", "URI"}
    BY <1>8, <2>5
  <2>8. Means(e)
    BY <2>5, <2>6, <2>7 DEF Means
  <2> QED
    BY <2>8 DEF e
<1>7. prod.id \notin {"PathElt", "PathPrimary"} /\ val.t \in TypesOf(prod.id)
  BY <1>1
<1> QED
  BY <1>1, <1>6, <1>7, FineOf

\* The rows of variables and terms.
LEMMA NamedRowsFine ==
    ASSUME NEW p \in {21, 33, 34, 35, 36, 37}, NEW es, NEW u, Ready(p, es, u)
    PROVE  Fine(p, es, u)
<1>21. CASE p = 21
  <2> DEFINE rhs == <<"var">>
  <2>1. Row(21, Prod("Var", rhs, "ParseString", <<1>>))
    BY ClauseRows
  <2>2. Len(rhs) = 1 /\ rhs[1] = "var" /\ TypesOf(rhs[1]) = {"Token"} /\ TypesOf("Var") = {"string"}
    BY SymbolTypes
  <2>3. Signature["ParseString"] = <<"Token">>
    BY Signatures
  <2> HIDE DEF rhs
  <2>4. 1 \in 1 .. Len(rhs)
    BY <2>2
  <2> DEFINE x == <<es[1].val.v>>
  <2>9. GivenFirst(p, "Var", rhs, "ParseString", "Token")
    BY <1>21, <2>1, <2>2, <2>3, <2>4 DEF GivenFirst
  <2>5. ReduceFunc(p, Vals(es)) = Build("ParseString", x)
    BY <2>9, GivesFirst
  <2>8. x[1] = es[1].val.v
    OBVIOUS
  <2> HIDE DEF x
  <2> DEFINE val == Val("string", x[1])
  <2>6. ReduceFunc(p, Vals(es)) = val
    BY <2>5, BuildTerm
  <2>7. val.t = "string" /\ val.v = es[1].val.v
    BY <2>8, ValFields
  <2> HIDE DEF val
  <2>10. val.t \in TypesOf("Var")
    BY <2>2, <2>7
  <2>11. "Var" \in {"Var", "GraphTerm", "VarOrTerm"} /\ "Token" \in {"Token", "string"} /\ "ParseString" # "GraphGroupUnion"
    OBVIOUS
  <2>12. Len(rhs) = 1 /\ rhs[1] \in {"var", "uri", "url", "quotedstring", "Var", "GraphTerm"}
    BY <2>2
  <2> QED
    BY <2>6, <2>7, <2>9, <2>10, <2>11, <2>12, NamedFine, Zenon
<1>33. CASE p = 33
  <2> DEFINE rhs == <<"Var">>
  <2>1. Row(33, Prod("VarOrTerm", rhs, "NewURI", <<1>>))
    BY TermRows
  <2>2. Len(rhs) = 1 /\ rhs[1] = "Var" /\ TypesOf(rhs[1]) = {"string"} /\ TypesOf("VarOrTerm") = {"URI"}
    BY SymbolTypes
  <2>3. Signature["NewURI"] = <<"string">>
    BY Signatures
  <2> HIDE DEF rhs
  <2>4. 1 \in 1 .. Len(rhs)
    BY <2>2
  <2> DEFINE x == <<es[1].val.v>>
  <2>9. GivenFirst(p, "VarOrTerm", rhs, "NewURI", "string")
    BY <1>33, <2>1, <2>2, <2>3, <2>4 DEF GivenFirst
  <2>5. ReduceFunc(p, Vals(es)) = Build("NewURI", x)
    BY <2>9, GivesFirst
  <2>8. x[1] = es[1].val.v
    OBVIOUS
  <2> HIDE DEF x
  <2> DEFINE val == Val("URI", x[1])
  <2>6. ReduceFunc(p, Vals(es)) = val
    BY <2>5, BuildTerm
  <2>7. val.t = "URI" /\ val.v = es[1].val.v
    BY <2>8, ValFields
  <2> HIDE DEF val
  <2>10. val.t \in TypesOf("VarOrTerm")
    BY <2>2, <2>7
  <2>11. "VarOrTerm" \in {"Var", "GraphTerm", "VarOrTerm"} /\ "string" \in {"Token", "string"} /\ "NewURI" # "GraphGroupUnion"
    OBVIOUS
  <2>12. Len(rhs) = 1 /\ rhs[1] \in {"var", "uri", "url", "quotedstring", "Var", "GraphTerm"}
    BY <2>2
  <2> QED
    BY <2>6, <2>7, <2>9, <2>10, <2>11, <2>12, NamedFine, Zenon
<1>34. CASE p = 34
  <2> DEFINE rhs == <<"GraphTerm">>
  <2>1. Row(34, Prod("VarOrTerm", rhs, "NewURI", <<1>>))
    BY TermRows
  <2>2. Len(rhs) = 1 /\ rhs[1] = "GraphTerm" /\ TypesOf(rhs[1]) = {"string"} /\ TypesOf("VarOrTerm") = {"URI"}
    BY SymbolTypes
  <2>3. Signature["NewURI"] = <<"string">>
    BY Signatures
  <2> HIDE DEF rhs
  <2>4. 1 \in 1 .. Len(rhs)
    BY <2>2
  <2> DEFINE x == <<es[1].val.v>>
  <2>9. GivenFirst(p, "VarOrTerm", rhs, "NewURI", "string")
    BY <1>34, <2>1, <2>2, <2>3, <2>4 DEF GivenFirst
  <2>5. ReduceFunc(p, Vals(es)) = Build("NewURI", x)
    BY <2>9, GivesFirst
  <2>8. x[1] = es[1].val.v
    OBVIOUS
  <2> HIDE DEF x
  <2> DEFINE val == Val("URI", x[1])
  <2>6. ReduceFunc(p, Vals(es)) = val
    BY <2>5, BuildTerm
  <2>7. val.t = "URI" /\ val.v = es[1].val.v
    BY <2>8, ValFields
  <2> HIDE DEF val
  <2>10. val.t \in TypesOf("VarOrTerm")
    BY <2>2, <2>7
  <2>11. "VarOrTerm" \in {"Var", "GraphTerm", "VarOrTerm"} /\ "string" \in {"Token", "string"} /\ "NewURI" # "GraphGroupUnion"
    OBVIOUS
  <2>12. Len(rhs) = 1 /\ rhs[1] \in {"var", "uri", "url", "quotedstring", "Var", "GraphTerm"}
    BY <2>2
  <2> QED
    BY <2>6, <2>7, <2>9, <2>10, <2>11, <2>12, NamedFine, Zenon
<1>35. CASE p = 35
  <2> DEFINE rhs == <<"uri">>
  <2>1. Row(35, Prod("GraphTerm", rhs, "ParseString", <<1>>))
    BY TermRows
  <2>2. Len(rhs) = 1 /\ rhs[1] = "uri" /\ TypesOf(rhs[1]) = {"Token"} /\ TypesOf("GraphTerm") = {"string"}
    BY SymbolTypes
  <2>3. Signature["ParseString"] = <<"Token">>
    BY Signatures
  <2> HIDE DEF rhs
  <2>4. 1 \in 1 .. Len(rhs)
    BY <2>2
  <2> DEFINE x == <<es[1].val.v>>
  <2>9. GivenFirst(p, "GraphTerm", rhs, "ParseString", "Token")
    BY <1>35, <2>1, <2>2, <2>3, <2>4 DEF GivenFirst
  <2>5. ReduceFunc(p, Vals(es)) = Build("ParseString", x)
    BY <2>9, GivesFirst
  <2>8. x[1] = es[1].val.v
    OBVIOUS
  <2> HIDE DEF x
  <2> DEFINE val == Val("string", x[1])
  <2>6. ReduceFunc(p, Vals(es)) = val
    BY <2>5, BuildTerm
  <2>7. val.t = "string" /\ val.v = es[1].val.v
    BY <2>8, ValFields
  <2> HIDE DEF val
  <2>10. val.t \in TypesOf("GraphTerm")
    BY <2>2, <2>7
  <2>11. "GraphTerm" \in {"Var", "GraphTerm", "VarOrTerm"} /\ "Token" \in {"Token", "string"} /\ "ParseString" # "GraphGroupUnion"
    OBVIOUS
  <2>12. Len(rhs) = 1 /\ rhs[1] \in {"var", "uri", "url", "quotedstring", "Var", "GraphTerm"}
    BY <2>2
  <2> QED
    BY <2>6, <2>7, <2>9, <2>10, <2>11, <2>12, NamedFine, Zenon
<1>36. CASE p = 36
  <2> DEFINE rhs == <<"quotedstring">>
  <2>1. Row(36, Prod("GraphTerm", rhs, "ParseQuotedString", <<1>>))
    BY TermRows
  <2>2. Len(rhs) = 1 /\ rhs[1] = "quotedstring" /\ TypesOf(rhs[1]) = {"Token"} /\ TypesOf("GraphTerm") = {"string"}
    BY SymbolTypes
  <2>3. Signature["ParseQuotedString"] = <<"Token">>
    BY Signatures
  <2> HIDE DEF rhs
  <2>4. 1 \in 1 .. Len(rhs)
    BY <2>2
  <2> DEFINE x == <<es[1].val.v>>
  <2>9. GivenFirst(p, "GraphTerm", rhs, "ParseQuotedString", "Token")
    BY <1>36, <2>1, <2>2, <2>3, <2>4 DEF GivenFirst
  <2>5. ReduceFunc(p, Vals(es)) = Build("ParseQuotedString", x)
    BY <2>9, GivesFirst
  <2>8. x[1] = es[1].val.v
    OBVIOUS
  <2> HIDE DEF x
  <2> DEFINE val == Val("string", x[1])
  <2>6. ReduceFunc(p, Vals(es)) = val
    BY <2>5, BuildTerm
  <2>7. val.t = "string" /\ val.v = es[1].val.v
    BY <2>8, ValFields
  <2> HIDE DEF val
  <2>10. val.t \in TypesOf("GraphTerm")
    BY <2>2, <2>7
  <2>11. "GraphTerm" \in {"Var", "GraphTerm", "VarOrTerm"} /\ "Token" \in {"Token", "string"} /\ "ParseQuotedString" # "GraphGroupUnion"
    OBVIOUS
  <2>12. Len(rhs) = 1 /\ rhs[1] \in {"var", "uri", "url", "quotedstring", "Var", "GraphTerm"}
    BY <2>2
  <2> QED
    BY <2>6, <2>7, <2>9, <2>10, <2>11, <2>12, NamedFine, Zenon
<1>37. CASE p = 37
  <2> DEFINE rhs == <<"url">>
  <2>1. Row(37, Prod("GraphTerm", rhs, "ParseString", <<1>>))
    BY TermRows
  <2>2. Len(rhs) = 1 /\ rhs[1] = "url" /\ TypesOf(rhs[1]) = {"Token"} /\ TypesOf("GraphTerm") = {"string"}
    BY SymbolTypes
  <2>3. Signature["ParseString"] = <<"Token">>
    BY Signatures
  <2> HIDE DEF rhs
  <2>4. 1 \in 1 .. Len(rhs)
    BY <2>2
  <2> DEFINE x == <<es[1].val.v>>
  <2>9. GivenFirst(p, "GraphTerm", rhs, "ParseString", "Token")
    BY <1>37, <2>1, <2>2, <2>3, <2>4 DEF GivenFirst
  <2>5. ReduceFunc(p, Vals(es)) = Build("ParseString", x)
    BY <2>9, GivesFirst
  <2>8. x[1] = es[1].val.v
    OBVIOUS
  <2> HIDE DEF x
  <2> DEFINE val == Val("string", x[1])
  <2>6. ReduceFunc(p, Vals(es)) = val
    BY <2>5, BuildTerm
  <2>7. val.t = "string" /\ val.v = es[1].val.v
    BY <2>8, ValFields
  <2> HIDE DEF val
  <2>10. val.t \in TypesOf("GraphTerm")
    BY <2>2, <2>7
  <2>11. "GraphTerm" \in {"Var", "GraphTerm", "VarOrTerm"} /\ "Token" \in {"Token", "string"} /\ "ParseString" # "GraphGroupUnion"
    OBVIOUS
  <2>12. Len(rhs) = 1 /\ rhs[1] \in {"var", "uri", "url", "quotedstring", "Var", "GraphTerm"}
    BY <2>2
  <2> QED
    BY <2>6, <2>7, <2>9, <2>10, <2>11, <2>12, NamedFine, Zenon
<1> QED
  BY <1>21, <1>33, <1>34, <1>35, <1>36, <1>37

-----------------------------------------------------------------------------
(* The rows of WHERE clauses, groups and triples.                          *)

\* The meaning of a row of whose symbols one means something.
LEMMA MeaningAt ==
    ASSUME NEW p, NEW id, NEW rhs, NEW call, NEW args, Row(p, Prod(id, rhs, call, args)),
           NEW es, NEW u, Ready(p, es, u), u \cap Lossy = {},
           id \notin {"Triple", "InsertClause"}, call # "GraphGroupUnion", NEW k \in 1 .. Len(rhs),
           \A i \in 1 .. Len(rhs) : i # k => TypesOf(rhs[i]) \subseteq Mute
    PROVE  MeaningOf(p, es) = es[k].meaning
<1> DEFINE prod == Prod(id, rhs, call, args)
<1>1. prod.id = id /\ prod.call = call /\ Row(p, prod)
  BY ProdFields
<1>2. DOMAIN es = 1 .. Len(rhs) /\ \A i \in 1 .. Len(rhs) : es[i].val.t \in TypesOf(rhs[i]) /\ Means(es[i])
  BY RhsReady
<1> HIDE DEF prod
<1>3. \A i \in DOMAIN es \ {k} : es[i].meaning = True
  BY <1>2, MuteMeans
<1>4. k \in DOMAIN es /\ prod.id \notin {"Triple", "InsertClause"} /\ prod.call # "GraphGroupUnion"
  BY <1>1, <1>2
<1> QED
  BY <1>1, <1>3, <1>4, RowMeaning

\* The meaning of a row of whose symbols two mean something.
LEMMA MeaningBoth ==
    ASSUME NEW p, NEW id, NEW rhs, NEW call, NEW args, Row(p, Prod(id, rhs, call, args)),
           NEW es, NEW u, Ready(p, es, u), u \cap Lossy = {},
           id \notin {"Triple", "InsertClause"}, call # "GraphGroupUnion",
           NEW j \in 1 .. Len(rhs), NEW k \in 1 .. Len(rhs), j # k,
           \A i \in 1 .. Len(rhs) : i \notin {j, k} => TypesOf(rhs[i]) \subseteq Mute
    PROVE  MeaningOf(p, es) = Both(es[j].meaning, es[k].meaning)
<1> DEFINE prod == Prod(id, rhs, call, args)
<1>1. prod.id = id /\ prod.call = call /\ Row(p, prod)
  BY ProdFields
<1>2. DOMAIN es = 1 .. Len(rhs) /\ \A i \in 1 .. Len(rhs) : es[i].val.t \in TypesOf(rhs[i]) /\ Means(es[i])
  BY RhsReady
<1> HIDE DEF prod
<1>3. \A i \in DOMAIN es \ {j, k} : es[i].meaning = True
  BY <1>2, MuteMeans
<1>4. j \in DOMAIN es /\ k \in DOMAIN es /\ prod.id \notin {"Triple", "InsertClause"} /\ prod.call # "GraphGroupUnion"
  BY <1>1, <1>2
<1> QED
  BY <1>1, <1>3, <1>4, RowMeaning

\* What a row comes to, by its fields.
LEMMA RowFine ==
    ASSUME NEW p, NEW id, NEW rhs, NEW call, NEW args, Row(p, Prod(id, rhs, call, args)),
           NEW es, NEW u, NEW val, ReduceFunc(p, Vals(es)) = val, val.t \in TypesOf(id),
           id \notin {"PathElt", "PathPrimary"},
           (u \cup {p}) \cap Lossy = {} => Means(Entry(0, val, id, Texts(es), MeaningOf(p, es)))
    PROVE  Fine(p, es, u)
<1> DEFINE prod == Prod(id, rhs, call, args)
<1>1. prod.id = id /\ Row(p, prod)
  BY ProdFields
<1> HIDE DEF prod
<1> QED
  BY <1>1, FineOf

\* A row that builds triples, a WHERE clause, or a group.
LEMMA BlockFine ==
    ASSUME NEW p, NEW id, NEW rhs, NEW call, NEW args, Row(p, Prod(id, rhs, call, args)),
           NEW es, NEW u, NEW v, ReduceFunc(p, Vals(es)) = Val("[]Triple", v),
           TypesOf(id) = {"[]Triple"}, id \notin Named,
           u \cap Lossy = {} => IsSeq(v) /\ TextMeaning(MeaningOf(p, es)) = {WrittenAll(v)}
    PROVE  Fine(p, es, u)
<1> DEFINE val == Val("[]Triple", v)
<1>1. val.t \in TypesOf(id) /\ id \notin {"PathElt", "PathPrimary"}
  BY ValFields DEF Named
<1>2. ASSUME (u \cup {p}) \cap Lossy = {}
      PROVE  Means(Entry(0, val, id, Texts(es), MeaningOf(p, es)))
  <2>1. u \cap Lossy = {}
    BY <1>2
  <2> QED
    BY <2>1, BlockMeans DEF Named
<1>3. ReduceFunc(p, Vals(es)) = val
  OBVIOUS
<1> HIDE DEF val
<1> QED
  BY <1>1, <1>2, <1>3, RowFine

\* A row that makes a WHERE clause.
LEMMA WhereFine ==
    ASSUME NEW p, NEW id, NEW rhs, NEW call, NEW args, Row(p, Prod(id, rhs, call, args)),
           NEW es, NEW u, NEW v, ReduceFunc(p, Vals(es)) = Val("WhereClause", v),
           TypesOf(id) = {"WhereClause"}, id \notin Named,
           u \cap Lossy = {} => TextMeaning(MeaningOf(p, es)) = Alternatives(WhereBranches(v))
    PROVE  Fine(p, es, u)
<1> DEFINE val == Val("WhereClause", v)
<1>1. val.t \in TypesOf(id) /\ id \notin {"PathElt", "PathPrimary"}
  BY ValFields DEF Named
<1>2. ASSUME (u \cup {p}) \cap Lossy = {}
      PROVE  Means(Entry(0, val, id, Texts(es), MeaningOf(p, es)))
  <2>1. u \cap Lossy = {}
    BY <1>2
  <2> QED
    BY <2>1, WhereMeans DEF Named
<1>3. ReduceFunc(p, Vals(es)) = val
  OBVIOUS
<1> HIDE DEF val
<1> QED
  BY <1>1, <1>2, <1>3, RowFine

\* A row that makes a group.
LEMMA GroupFine ==
    ASSUME NEW p, NEW id, NEW rhs, NEW call, NEW args, Row(p, Prod(id, rhs, call, args)),
           NEW es, NEW u, NEW v, ReduceFunc(p, Vals(es)) = Val("GraphGroup", v),
           TypesOf(id) = {"GraphGroup"}, id \notin Named,
           u \cap Lossy = {} => IsGroup(v) /\ TextMeaning(MeaningOf(p, es)) = Alternatives(Expand(v))
    PROVE  Fine(p, es, u)
<1> DEFINE val == Val("GraphGroup", v)
<1>1. val.t \in TypesOf(id) /\ id \notin {"PathElt", "PathPrimary"}
  BY ValFields DEF Named
<1>2. ASSUME (u \cup {p}) \cap Lossy = {}
      PROVE  Means(Entry(0, val, id, Texts(es), MeaningOf(p, es)))
  <2>1. u \cap Lossy = {}
    BY <1>2
  <2> QED
    BY <2>1, GroupMeans DEF Named
<1>3. ReduceFunc(p, Vals(es)) = val
  OBVIOUS
<1> HIDE DEF val
<1> QED
  BY <1>1, <1>2, <1>3, RowFine

\* What the triples and the groups that a row pops mean.
LEMMA BlockMeaning ==
    ASSUME NEW e, Means(e), e.val.t = "[]Triple"
    PROVE  IsSeq(e.val.v) /\ TextMeaning(e.meaning) = {WrittenAll(e.val.v)}
BY DEF Means

\* What is known of a triple.
LEMMA TripleMeaning ==
    ASSUME NEW e, Means(e), e.val.t = "Triple"
    PROVE  TextMeaning(e.meaning) = {{Written(e.val.v)}}
BY DEF Means

\* One triple more.
LEMMA WrittenAppend ==
    /\ \A t : IsSeq(<<t>>) /\ WrittenAll(<<t>>) = {Written(t)}
    /\ \A v, t : IsSeq(v) => /\ IsSeq(Append(v, t))
                             /\ WrittenAll(Append(v, t)) = WrittenAll(v) \cup {Written(t)}
<1>1. ASSUME NEW t
      PROVE  IsSeq(<<t>>) /\ ToSet(<<t>>) = {t}
  BY DEF IsSeq, ToSet
<1>2. ASSUME NEW v, NEW t, IsSeq(v)
      PROVE  IsSeq(Append(v, t)) /\ Append(v, t) = v \o <<t>>
  <2> DEFINE S == ToSet(v) \cup {t}
  <2>1. v \in Seq(S) /\ t \in S
    BY <1>2, SeqMonotonic DEF IsSeq
  <2> HIDE DEF S
  <2>2. Append(v, t) \in Seq(S) /\ Append(v, t) = v \o <<t>>
    BY <2>1, AppendProperties, ConcatProperties
  <2> QED
    BY <2>2, SeqIsSeq
<1>3. \A t : WrittenAll(<<t>>) = {Written(t)}
  <2> TAKE t
  <2> DEFINE s == <<t>>
  <2>1. ToSet(s) = {t}
    BY <1>1
  <2> HIDE DEF s
  <2>2. WrittenAll(s) = {Written(t)}
    BY <2>1 DEF WrittenAll
  <2> QED
    BY <2>2 DEF s
<1>4. ASSUME NEW v, NEW t, IsSeq(v)
      PROVE  WrittenAll(Append(v, t)) = WrittenAll(v) \cup {Written(t)}
  <2>1. WrittenAll(v \o <<t>>) = WrittenAll(v) \cup WrittenAll(<<t>>)
    BY <1>1, <1>4, WrittenAllConcat
  <2> QED
    BY <1>2, <1>3, <1>4, <2>1
<1> QED
  BY <1>1, <1>2, <1>3, <1>4

\* The rows of WHERE clauses.
LEMMA EmptyWhereFine ==
    ASSUME NEW es, NEW u, Ready(24, es, u)
    PROVE  Fine(24, es, u)
<1> DEFINE rhs == <<"WHERE", "{", "}">>
<1>1. Row(24, Prod("WhereClause", rhs, "NewEmptyWhereClause", <<>>))
  BY WhereRows
<1>2. TypesOf(rhs[1]) = {"Token"} /\ TypesOf(rhs[2]) = {"Token"} /\ TypesOf(rhs[3]) = {"Token"} /\ Len(rhs) = 3
  BY SymbolTypes
<1> HIDE DEF rhs
<1>3. Signature["NewEmptyWhereClause"] = <<>> /\ TypesOf("WhereClause") = {"WhereClause"}
  BY Signatures, SymbolTypes
<1> DEFINE v == WhereClause(<<>>, <<>>)
<1>4. ReduceFunc(24, Vals(es)) = Build("NewEmptyWhereClause", <<>>)
  BY <1>1, <1>3, CallNone
<1>5. ReduceFunc(24, Vals(es)) = Val("WhereClause", v)
  BY <1>4, BuildClause
<1>6. Alternatives(WhereBranches(v)) = {{}}
  BY WheresMean, WrittenAllConcat
<1> HIDE DEF v
<1>7. ASSUME u \cap Lossy = {}
      PROVE  TextMeaning(MeaningOf(24, es)) = Alternatives(WhereBranches(v))
  <2> DEFINE prod == Prod("WhereClause", rhs, "NewEmptyWhereClause", <<>>)
  <2>1. prod.id = "WhereClause" /\ prod.call = "NewEmptyWhereClause" /\ Row(24, prod)
    BY <1>1, ProdFields
  <2>2. DOMAIN es = 1 .. Len(rhs) /\ \A i \in 1 .. Len(rhs) : es[i].val.t \in TypesOf(rhs[i]) /\ Means(es[i])
    BY <1>1, <1>7, RhsReady
  <2> HIDE DEF prod
  <2>3. \A i \in DOMAIN es : es[i].meaning = True
    <3>1. \A i \in 1 .. Len(rhs) : TypesOf(rhs[i]) = {"Token"}
      BY <1>2
    <3>2. "Token" \in Mute
      BY DEF Mute
    <3> QED
      BY <2>2, <3>1, <3>2, MuteMeans
  <2>4. MeaningOf(24, es) = True
    <3>1. prod.id \notin {"Triple", "InsertClause"} /\ prod.call # "GraphGroupUnion"
      BY <2>1
    <3> QED
      BY <2>1, <2>3, <3>1, RowMeaning
  <2> QED
    BY <1>6, <2>4, MeaningOfTwo
<1>8. "WhereClause" \notin Named
  BY DEF Named
<1> QED
  BY <1>1, <1>3, <1>5, <1>7, <1>8, WhereFine

\* WHERE with triples only,
LEMMA BlockWhereFine ==
    ASSUME NEW es, NEW u, Ready(25, es, u)
    PROVE  Fine(25, es, u)
<1> DEFINE rhs  == <<"WHERE", "{", "TriplesBlock", "}">>
           args == <<3>>
<1>1. Row(25, Prod("WhereClause", rhs, "NewWhereClause", args))
  BY WhereRows
<1>2. /\ Len(rhs) = 4
      /\ TypesOf(rhs[1]) = {"Token"}
      /\ TypesOf(rhs[2]) = {"Token"}
      /\ TypesOf(rhs[3]) = {"[]Triple"}
      /\ TypesOf(rhs[4]) = {"Token"}
  BY SymbolTypes
<1>3. Signature["NewWhereClause"] = <<"[]Triple">> /\ TypesOf("WhereClause") = {"WhereClause"}
  BY Signatures, SymbolTypes
<1> HIDE DEF rhs
<1>4. 3 \in 1 .. Len(rhs) /\ es[3].val.t = "[]Triple"
  BY <1>1, <1>2, RhsReady
<1> DEFINE x == <<es[3].val.v>>
<1>5. ReduceFunc(25, Vals(es)) = Build("NewWhereClause", x)
  <2>1. Row(25, Prod("WhereClause", rhs, "NewWhereClause", <<3>>))
    BY <1>1
  <2>2. 3 \in DOMAIN es
    BY <1>1, <1>4, RhsReady
  <2>3. <<es[3].val.t>> = Signature["NewWhereClause"]
    BY <1>3, <1>4
  <2> QED
    BY <2>1, <2>2, <2>3, CallOne
<1>6. x[1] = es[3].val.v
  OBVIOUS
<1> HIDE DEF x, args
<1> DEFINE v == WhereClause(x[1], <<>>)
<1>7. ReduceFunc(25, Vals(es)) = Val("WhereClause", v)
  BY <1>5, BuildClause
<1>8. ASSUME u \cap Lossy = {}
      PROVE  TextMeaning(MeaningOf(25, es)) = Alternatives(WhereBranches(v))
  <2>1. Means(es[3])
    BY <1>1, <1>4, <1>8, RhsReady
  <2>2. \A i \in 1 .. Len(rhs) : i # 3 => TypesOf(rhs[i]) \subseteq Mute
    BY <1>2 DEF Mute
  <2>3. MeaningOf(25, es) = es[3].meaning
    BY <1>1, <1>4, <1>8, <2>2, MeaningAt
  <2>4. TextMeaning(es[3].meaning) = {WrittenAll(x[1])}
    BY <1>4, <1>6, <2>1, BlockMeaning
  <2> QED
    BY <2>3, <2>4, WheresMean
<1> HIDE DEF v
<1>9. "WhereClause" \notin Named
  BY DEF Named
<1> QED
  BY <1>1, <1>3, <1>7, <1>8, <1>9, WhereFine

\* with triples and a full stop,
LEMMA BlockDotWhereFine ==
    ASSUME NEW es, NEW u, Ready(26, es, u)
    PROVE  Fine(26, es, u)
<1> DEFINE rhs  == <<"WHERE", "{", "TriplesBlock", ".", "}">>
           args == <<3>>
<1>1. Row(26, Prod("WhereClause", rhs, "NewWhereClause", args))
  BY WhereRows
<1>2. /\ Len(rhs) = 5
      /\ TypesOf(rhs[1]) = {"Token"}
      /\ TypesOf(rhs[2]) = {"Token"}
      /\ TypesOf(rhs[3]) = {"[]Triple"}
      /\ TypesOf(rhs[4]) = {"Token"}
      /\ TypesOf(rhs[5]) = {"Token"}
  BY SymbolTypes
<1>3. Signature["NewWhereClause"] = <<"[]Triple">> /\ TypesOf("WhereClause") = {"WhereClause"}
  BY Signatures, SymbolTypes
<1> HIDE DEF rhs
<1>4. 3 \in 1 .. Len(rhs) /\ es[3].val.t = "[]Triple"
  BY <1>1, <1>2, RhsReady
<1> DEFINE x == <<es[3].val.v>>
<1>5. ReduceFunc(26, Vals(es)) = Build("NewWhereClause", x)
  <2>1. Row(26, Prod("WhereClause", rhs, "NewWhereClause", <<3>>))
    BY <1>1
  <2>2. 3 \in DOMAIN es
    BY <1>1, <1>4, RhsReady
  <2>3. <<es[3].val.t>> = Signature["NewWhereClause"]
    BY <1>3, <1>4
  <2> QED
    BY <2>1, <2>2, <2>3, CallOne
<1>6. x[1] = es[3].val.v
  OBVIOUS
<1> HIDE DEF x, args
<1> DEFINE v == WhereClause(x[1], <<>>)
<1>7. ReduceFunc(26, Vals(es)) = Val("WhereClause", v)
  BY <1>5, BuildClause
<1>8. ASSUME u \cap Lossy = {}
      PROVE  TextMeaning(MeaningOf(26, es)) = Alternatives(WhereBranches(v))
  <2>1. Means(es[3])
    BY <1>1, <1>4, <1>8, RhsReady
  <2>2. \A i \in 1 .. Len(rhs) : i # 3 => TypesOf(rhs[i]) \subseteq Mute
    BY <1>2 DEF Mute
  <2>3. MeaningOf(26, es) = es[3].meaning
    BY <1>1, <1>4, <1>8, <2>2, MeaningAt
  <2>4. TextMeaning(es[3].meaning) = {WrittenAll(x[1])}
    BY <1>4, <1>6, <2>1, BlockMeaning
  <2> QED
    BY <2>3, <2>4, WheresMean
<1> HIDE DEF v
<1>9. "WhereClause" \notin Named
  BY DEF Named
<1> QED
  BY <1>1, <1>3, <1>7, <1>8, <1>9, WhereFine

\* with a group only,
LEMMA GroupWhereFine ==
    ASSUME NEW es, NEW u, Ready(29, es, u)
    PROVE  Fine(29, es, u)
<1> DEFINE rhs  == <<"WHERE", "{", "RestOfWhereList", "}">>
           args == <<3>>
<1>1. Row(29, Prod("WhereClause", rhs, "NewWhereClauseGraphGroup", args))
  BY WhereRows
<1>2. /\ Len(rhs) = 4
      /\ TypesOf(rhs[1]) = {"Token"}
      /\ TypesOf(rhs[2]) = {"Token"}
      /\ TypesOf(rhs[3]) = {"GraphGroup"}
      /\ TypesOf(rhs[4]) = {"Token"}
  BY SymbolTypes
<1>3. Signature["NewWhereClauseGraphGroup"] = <<"GraphGroup">> /\ TypesOf("WhereClause") = {"WhereClause"}
  BY Signatures, SymbolTypes
<1> HIDE DEF rhs
<1>4. 3 \in 1 .. Len(rhs) /\ es[3].val.t = "GraphGroup"
  BY <1>1, <1>2, RhsReady
<1> DEFINE x == <<es[3].val.v>>
<1>5. ReduceFunc(29, Vals(es)) = Build("NewWhereClauseGraphGroup", x)
  <2>1. Row(29, Prod("WhereClause", rhs, "NewWhereClauseGraphGroup", <<3>>))
    BY <1>1
  <2>2. 3 \in DOMAIN es
    BY <1>1, <1>4, RhsReady
  <2>3. <<es[3].val.t>> = Signature["NewWhereClauseGraphGroup"]
    BY <1>3, <1>4
  <2> QED
    BY <2>1, <2>2, <2>3, CallOne
<1>6. x[1] = es[3].val.v
  OBVIOUS
<1> HIDE DEF x, args
<1> DEFINE v == WhereClause(<<>>, <<x[1]>>)
<1>7. ReduceFunc(29, Vals(es)) = Val("WhereClause", v)
  BY <1>5, BuildClause
<1>8. ASSUME u \cap Lossy = {}
      PROVE  TextMeaning(MeaningOf(29, es)) = Alternatives(WhereBranches(v))
  <2>1. Means(es[3])
    BY <1>1, <1>4, <1>8, RhsReady
  <2>2. \A i \in 1 .. Len(rhs) : i # 3 => TypesOf(rhs[i]) \subseteq Mute
    BY <1>2 DEF Mute
  <2>3. MeaningOf(29, es) = es[3].meaning
    BY <1>1, <1>4, <1>8, <2>2, MeaningAt
  <2>4. IsGroup(x[1]) /\ TextMeaning(es[3].meaning) = Alternatives(Expand(x[1]))
    BY <1>4, <1>6, <2>1, GroupMeaning
  <2>5. IsSeq(<<>>) /\ WrittenAll(<<>>) = {}
    BY ListsConcat, WrittenAllConcat DEF IsSeq, ToSet
  <2>6. Alternatives(WhereBranches(v)) = Both({{}}, Alternatives(Expand(x[1])))
    BY <2>4, <2>5, WheresMean
  <2>7. \A A : Both({{}}, A) = A
    BY DEF Both
  <2> QED
    BY <2>3, <2>4, <2>6, <2>7
<1> HIDE DEF v
<1>9. "WhereClause" \notin Named
  BY DEF Named
<1> QED
  BY <1>1, <1>3, <1>7, <1>8, <1>9, WhereFine

\* with triples and a group,
LEMMA MixedWhereFine ==
    ASSUME NEW es, NEW u, Ready(27, es, u)
    PROVE  Fine(27, es, u)
<1> DEFINE rhs  == <<"WHERE", "{", "TriplesBlock", "RestOfWhereList", "}">>
           args == <<3, 4>>
<1>1. Row(27, Prod("WhereClause", rhs, "NewWhereClauseWithGraphGroup", args))
  BY WhereRows
<1>2. /\ Len(rhs) = 5
      /\ TypesOf(rhs[1]) = {"Token"}
      /\ TypesOf(rhs[2]) = {"Token"}
      /\ TypesOf(rhs[3]) = {"[]Triple"}
      /\ TypesOf(rhs[4]) = {"GraphGroup"}
      /\ TypesOf(rhs[5]) = {"Token"}
  BY SymbolTypes
<1>3. Signature["NewWhereClauseWithGraphGroup"] = <<"[]Triple", "GraphGroup">> /\ TypesOf("WhereClause") = {"WhereClause"}
  BY Signatures, SymbolTypes
<1> HIDE DEF rhs
<1>4. /\ 3 \in 1 .. Len(rhs) /\ es[3].val.t = "[]Triple"
      /\ 4 \in 1 .. Len(rhs) /\ es[4].val.t = "GraphGroup"
  BY <1>1, <1>2, RhsReady
<1> DEFINE x == <<es[3].val.v, es[4].val.v>>
<1>5. ReduceFunc(27, Vals(es)) = Build("NewWhereClauseWithGraphGroup", x)
  <2>1. Row(27, Prod("WhereClause", rhs, "NewWhereClauseWithGraphGroup", <<3, 4>>))
    BY <1>1
  <2>2. 3 \in DOMAIN es /\ 4 \in DOMAIN es
    BY <1>1, <1>4, RhsReady
  <2>3. <<es[3].val.t, es[4].val.t>> = Signature["NewWhereClauseWithGraphGroup"]
    BY <1>3, <1>4
  <2> QED
    BY <2>1, <2>2, <2>3, CallTwo
<1>6. x[1] = es[3].val.v /\ x[2] = es[4].val.v
  OBVIOUS
<1> HIDE DEF x, args
<1> DEFINE v == WhereClause(x[1], <<x[2]>>)
<1>7. ReduceFunc(27, Vals(es)) = Val("WhereClause", v)
  BY <1>5, BuildClause
<1>8. ASSUME u \cap Lossy = {}
      PROVE  TextMeaning(MeaningOf(27, es)) = Alternatives(WhereBranches(v))
  <2>1. Means(es[3]) /\ Means(es[4])
    BY <1>1, <1>4, <1>8, RhsReady
  <2>2. \A i \in 1 .. Len(rhs) : i \notin {3, 4} => TypesOf(rhs[i]) \subseteq Mute
    BY <1>2 DEF Mute
  <2>3. MeaningOf(27, es) = Both(es[3].meaning, es[4].meaning)
    BY <1>1, <1>4, <1>8, <2>2, MeaningBoth
  <2>4. IsSeq(x[1]) /\ TextMeaning(es[3].meaning) = {WrittenAll(x[1])}
    BY <1>4, <1>6, <2>1, BlockMeaning
  <2>5. IsGroup(x[2]) /\ TextMeaning(es[4].meaning) = Alternatives(Expand(x[2]))
    BY <1>4, <1>6, <2>1, GroupMeaning
  <2>6. Alternatives(WhereBranches(v)) = Both({WrittenAll(x[1])}, Alternatives(Expand(x[2])))
    BY <2>4, <2>5, WheresMean
  <2>7. TextMeaning(Both(es[3].meaning, es[4].meaning)) = Both(TextMeaning(es[3].meaning), TextMeaning(es[4].meaning))
    BY MeaningOfTwo
  <2> HIDE DEF v
  <2> QED
    BY <2>3, <2>4, <2>5, <2>6, <2>7
<1> HIDE DEF v
<1>9. "WhereClause" \notin Named
  BY DEF Named
<1> QED
  BY <1>1, <1>3, <1>7, <1>8, <1>9, WhereFine

\* and with a full stop between them.
LEMMA MixedDotWhereFine ==
    ASSUME NEW es, NEW u, Ready(28, es, u)
    PROVE  Fine(28, es, u)
<1> DEFINE rhs  == <<"WHERE", "{", "TriplesBlock", ".", "RestOfWhereList", "}">>
           args == <<3, 5>>
<1>1. Row(28, Prod("WhereClause", rhs, "NewWhereClauseWithGraphGroup", args))
  BY WhereRows
<1>2. /\ Len(rhs) = 6
      /\ TypesOf(rhs[1]) = {"Token"}
      /\ TypesOf(rhs[2]) = {"Token"}
      /\ TypesOf(rhs[3]) = {"[]Triple"}
      /\ TypesOf(rhs[4]) = {"Token"}
      /\ TypesOf(rhs[5]) = {"GraphGroup"}
      /\ TypesOf(rhs[6]) = {"Token"}
  BY SymbolTypes
<1>3. Signature["NewWhereClauseWithGraphGroup"] = <<"[]Triple", "GraphGroup">> /\ TypesOf("WhereClause") = {"WhereClause"}
  BY Signatures, SymbolTypes
<1> HIDE DEF rhs
<1>4. /\ 3 \in 1 .. Len(rhs) /\ es[3].val.t = "[]Triple"
      /\ 5 \in 1 .. Len(rhs) /\ es[5].val.t = "GraphGroup"
  BY <1>1, <1>2, RhsReady
<1> DEFINE x == <<es[3].val.v, es[5].val.v>>
<1>5. ReduceFunc(28, Vals(es)) = Build("NewWhereClauseWithGraphGroup", x)
  <2>1. Row(28, Prod("WhereClause", rhs, "NewWhereClauseWithGraphGroup", <<3, 5>>))
    BY <1>1
  <2>2. 3 \in DOMAIN es /\ 5 \in DOMAIN es
    BY <1>1, <1>4, RhsReady
  <2>3. <<es[3].val.t, es[5].val.t>> = Signature["NewWhereClauseWithGraphGroup"]
    BY <1>3, <1>4
  <2> QED
    BY <2>1, <2>2, <2>3, CallTwo
<1>6. x[1] = es[3].val.v /\ x[2] = es[5].val.v
  OBVIOUS
<1> HIDE DEF x, args
<1> DEFINE v == WhereClause(x[1], <<x[2]>>)
<1>7. ReduceFunc(28, Vals(es)) = Val("WhereClause", v)
  BY <1>5, BuildClause
<1>8. ASSUME u \cap Lossy = {}
      PROVE  TextMeaning(MeaningOf(28, es)) = Alternatives(WhereBranches(v))
  <2>1. Means(es[3]) /\ Means(es[5])
    BY <1>1, <1>4, <1>8, RhsReady
  <2>2. \A i \in 1 .. Len(rhs) : i \notin {3, 5} => TypesOf(rhs[i]) \subseteq Mute
    BY <1>2 DEF Mute
  <2>3. MeaningOf(28, es) = Both(es[3].meaning, es[5].meaning)
    BY <1>1, <1>4, <1>8, <2>2, MeaningBoth
  <2>4. IsSeq(x[1]) /\ TextMeaning(es[3].meaning) = {WrittenAll(x[1])}
    BY <1>4, <1>6, <2>1, BlockMeaning
  <2>5. IsGroup(x[2]) /\ TextMeaning(es[5].meaning) = Alternatives(Expand(x[2]))
    BY <1>4, <1>6, <2>1, GroupMeaning
  <2>6. Alternatives(WhereBranches(v)) = Both({WrittenAll(x[1])}, Alternatives(Expand(x[2])))
    BY <2>4, <2>5, WheresMean
  <2>7. TextMeaning(Both(es[3].meaning, es[5].meaning)) = Both(TextMeaning(es[3].meaning), TextMeaning(es[5].meaning))
    BY MeaningOfTwo
  <2> HIDE DEF v
  <2> QED
    BY <2>3, <2>4, <2>5, <2>6, <2>7
<1> HIDE DEF v
<1>9. "WhereClause" \notin Named
  BY DEF Named
<1> QED
  BY <1>1, <1>3, <1>7, <1>8, <1>9, WhereFine

\* The first triple of a block.
LEMMA FirstTripleFine ==
    ASSUME NEW es, NEW u, Ready(30, es, u)
    PROVE  Fine(30, es, u)
<1> DEFINE rhs  == <<"Triple">>
           args == <<1>>
<1>1. Row(30, Prod("TriplesBlock", rhs, "NewTripleBlock", args))
  BY WhereRows
<1>2. /\ Len(rhs) = 1
      /\ TypesOf(rhs[1]) = {"Triple"}
  BY SymbolTypes
<1>3. Signature["NewTripleBlock"] = <<"Triple">> /\ TypesOf("TriplesBlock") = {"[]Triple"}
  BY Signatures, SymbolTypes
<1> HIDE DEF rhs
<1>4. /\ 1 \in 1 .. Len(rhs) /\ es[1].val.t = "Triple"
  BY <1>1, <1>2, RhsReady
<1> DEFINE x == <<es[1].val.v>>
<1>5. ReduceFunc(30, Vals(es)) = Build("NewTripleBlock", x)
  <2>1. Row(30, Prod("TriplesBlock", rhs, "NewTripleBlock", <<1>>))
    BY <1>1
  <2>2. 1 \in DOMAIN es
    BY <1>1, <1>4, RhsReady
  <2>3. <<es[1].val.t>> = Signature["NewTripleBlock"]
    BY <1>3, <1>4
  <2> QED
    BY <2>1, <2>2, <2>3, CallOne
<1>6. x[1] = es[1].val.v
  OBVIOUS
<1> HIDE DEF x, args
<1> DEFINE v == <<x[1]>>
<1>7. ReduceFunc(30, Vals(es)) = Val("[]Triple", v)
  BY <1>5, BuildTerm
<1>10. IsSeq(v) /\ WrittenAll(v) = {Written(x[1])}
  BY WrittenAppend
<1> HIDE DEF v
<1>8. ASSUME u \cap Lossy = {}
      PROVE  IsSeq(v) /\ TextMeaning(MeaningOf(30, es)) = {WrittenAll(v)}
  <2>1. Means(es[1])
    BY <1>1, <1>4, <1>8, RhsReady
  <2>2. \A i \in 1 .. Len(rhs) : i # 1 => TypesOf(rhs[i]) \subseteq Mute
    BY <1>2
  <2>3. MeaningOf(30, es) = es[1].meaning
    BY <1>1, <1>4, <1>8, <2>2, MeaningAt
  <2>4. TextMeaning(es[1].meaning) = {{Written(x[1])}}
    BY <1>4, <1>6, <2>1, TripleMeaning
  <2> QED
    BY <1>10, <2>3, <2>4
<1>9. "TriplesBlock" \notin Named
  BY DEF Named
<1> QED
  BY <1>1, <1>3, <1>7, <1>8, <1>9, BlockFine

\* The next triple of a block.
LEMMA NextTripleFine ==
    ASSUME NEW es, NEW u, Ready(31, es, u)
    PROVE  Fine(31, es, u)
<1> DEFINE rhs  == <<"TriplesBlock", ".", "Triple">>
           args == <<1, 3>>
<1>1. Row(31, Prod("TriplesBlock", rhs, "AppendTripleBlock", args))
  BY WhereRows
<1>2. /\ Len(rhs) = 3
      /\ TypesOf(rhs[1]) = {"[]Triple"}
      /\ TypesOf(rhs[2]) = {"Token"}
      /\ TypesOf(rhs[3]) = {"Triple"}
  BY SymbolTypes
<1>3. Signature["AppendTripleBlock"] = <<"[]Triple", "Triple">> /\ TypesOf("TriplesBlock") = {"[]Triple"}
  BY Signatures, SymbolTypes
<1> HIDE DEF rhs
<1>4. /\ 1 \in 1 .. Len(rhs) /\ es[1].val.t = "[]Triple"
      /\ 3 \in 1 .. Len(rhs) /\ es[3].val.t = "Triple"
  BY <1>1, <1>2, RhsReady
<1> DEFINE x == <<es[1].val.v, es[3].val.v>>
<1>5. ReduceFunc(31, Vals(es)) = Build("AppendTripleBlock", x)
  <2>1. Row(31, Prod("TriplesBlock", rhs, "AppendTripleBlock", <<1, 3>>))
    BY <1>1
  <2>2. 1 \in DOMAIN es /\ 3 \in DOMAIN es
    BY <1>1, <1>4, RhsReady
  <2>3. <<es[1].val.t, es[3].val.t>> = Signature["AppendTripleBlock"]
    BY <1>3, <1>4
  <2> QED
    BY <2>1, <2>2, <2>3, CallTwo
<1>6. x[1] = es[1].val.v /\ x[2] = es[3].val.v
  OBVIOUS
<1> HIDE DEF x, args
<1> DEFINE v == Append(x[1], x[2])
<1>7. ReduceFunc(31, Vals(es)) = Val("[]Triple", v)
  BY <1>5, BuildTerm
<1>10. IsSeq(x[1]) => IsSeq(v) /\ WrittenAll(v) = WrittenAll(x[1]) \cup {Written(x[2])}
  BY WrittenAppend
<1> HIDE DEF v
<1>8. ASSUME u \cap Lossy = {}
      PROVE  IsSeq(v) /\ TextMeaning(MeaningOf(31, es)) = {WrittenAll(v)}
  <2>1. Means(es[1]) /\ Means(es[3])
    BY <1>1, <1>4, <1>8, RhsReady
  <2>2. \A i \in 1 .. Len(rhs) : i \notin {1, 3} => TypesOf(rhs[i]) \subseteq Mute
    BY <1>2 DEF Mute
  <2>3. MeaningOf(31, es) = Both(es[1].meaning, es[3].meaning)
    BY <1>1, <1>4, <1>8, <2>2, MeaningBoth
  <2>4. TextMeaning(es[3].meaning) = {{Written(x[2])}}
    BY <1>4, <1>6, <2>1, TripleMeaning
  <2>5. IsSeq(x[1]) /\ TextMeaning(es[1].meaning) = {WrittenAll(x[1])}
    BY <1>4, <1>6, <2>1, BlockMeaning
  <2>6. TextMeaning(Both(es[1].meaning, es[3].meaning)) = Both(TextMeaning(es[1].meaning), TextMeaning(es[3].meaning))
    BY MeaningOfTwo
  <2>7. Both({WrittenAll(x[1])}, {{Written(x[2])}}) = {WrittenAll(x[1]) \cup {Written(x[2])}}
    BY DEF Both
  <2>8. WrittenAll(v) = WrittenAll(x[1]) \cup {Written(x[2])} /\ IsSeq(v)
    BY <1>10, <2>5
  <2>9. TextMeaning(MeaningOf(31, es)) = {WrittenAll(x[1]) \cup {Written(x[2])}}
    BY <2>3, <2>4, <2>5, <2>6, <2>7
  <2> QED
    BY <2>8, <2>9
<1>9. "TriplesBlock" \notin Named
  BY DEF Named
<1> QED
  BY <1>1, <1>3, <1>7, <1>8, <1>9, BlockFine

\* A group of triples.
LEMMA GroupFromTriplesFine ==
    ASSUME NEW es, NEW u, Ready(61, es, u)
    PROVE  Fine(61, es, u)
<1> DEFINE rhs  == <<"TriplesBlock">>
           args == <<1>>
<1>1. Row(61, Prod("GroupGraphPatternSub", rhs, "GraphGroupFromTriples", args))
  BY GroupRows
<1>2. /\ Len(rhs) = 1
      /\ TypesOf(rhs[1]) = {"[]Triple"}
  BY SymbolTypes
<1>3. Signature["GraphGroupFromTriples"] = <<"[]Triple">> /\ TypesOf("GroupGraphPatternSub") = {"GraphGroup"}
  BY Signatures, SymbolTypes
<1> HIDE DEF rhs
<1>4. /\ 1 \in 1 .. Len(rhs) /\ es[1].val.t = "[]Triple"
  BY <1>1, <1>2, RhsReady
<1> DEFINE x == <<es[1].val.v>>
<1>5. ReduceFunc(61, Vals(es)) = Build("GraphGroupFromTriples", x)
  <2>1. Row(61, Prod("GroupGraphPatternSub", rhs, "GraphGroupFromTriples", <<1>>))
    BY <1>1
  <2>2. 1 \in DOMAIN es
    BY <1>1, <1>4, RhsReady
  <2>3. <<es[1].val.t>> = Signature["GraphGroupFromTriples"]
    BY <1>3, <1>4
  <2> QED
    BY <2>1, <2>2, <2>3, CallOne
<1>6. x[1] = es[1].val.v
  OBVIOUS
<1> HIDE DEF x, args
<1> DEFINE v == GraphGroup(x[1], <<>>)
<1>7. ReduceFunc(61, Vals(es)) = Val("GraphGroup", v)
  BY <1>5, BuildGroup
<1>10. IsSeq(x[1]) => IsGroup(v) /\ Alternatives(Expand(v)) = {WrittenAll(x[1])}
  BY GroupsMean
<1> HIDE DEF v
<1>8. ASSUME u \cap Lossy = {}
      PROVE  IsGroup(v) /\ TextMeaning(MeaningOf(61, es)) = Alternatives(Expand(v))
  <2>1. Means(es[1])
    BY <1>1, <1>4, <1>8, RhsReady
  <2>2. \A i \in 1 .. Len(rhs) : i # 1 => TypesOf(rhs[i]) \subseteq Mute
    BY <1>2
  <2>3. MeaningOf(61, es) = es[1].meaning
    BY <1>1, <1>4, <1>8, <2>2, MeaningAt
  <2>4. IsSeq(x[1]) /\ TextMeaning(es[1].meaning) = {WrittenAll(x[1])}
    BY <1>4, <1>6, <2>1, BlockMeaning
  <2> QED
    BY <1>10, <2>3, <2>4
<1>9. "GroupGraphPatternSub" \notin Named
  BY DEF Named
<1> QED
  BY <1>1, <1>3, <1>7, <1>8, <1>9, GroupFine

\* Triples after a group of a WHERE clause.
LEMMA TriplesAfterGroupFine ==
    ASSUME NEW es, NEW u, Ready(54, es, u)
    PROVE  Fine(54, es, u)
<1> DEFINE rhs  == <<"GraphPatternNotTriples", "Joiner", "TriplesBlock", "Joiner">>
           args == <<1, 3>>
<1>1. Row(54, Prod("RestOfWhere", rhs, "AddTriplesToGraphGroup", args))
  BY GroupRows
<1>2. /\ Len(rhs) = 4
      /\ TypesOf(rhs[1]) = {"GraphGroup"}
      /\ TypesOf(rhs[2]) = {"Token", "nil"}
      /\ TypesOf(rhs[3]) = {"[]Triple"}
      /\ TypesOf(rhs[4]) = {"Token", "nil"}
  BY SymbolTypes
<1>3. Signature["AddTriplesToGraphGroup"] = <<"GraphGroup", "[]Triple">> /\ TypesOf("RestOfWhere") = {"GraphGroup"}
  BY Signatures, SymbolTypes
<1> HIDE DEF rhs
<1>4. /\ 1 \in 1 .. Len(rhs) /\ es[1].val.t = "GraphGroup"
      /\ 3 \in 1 .. Len(rhs) /\ es[3].val.t = "[]Triple"
  BY <1>1, <1>2, RhsReady
<1> DEFINE x == <<es[1].val.v, es[3].val.v>>
<1>5. ReduceFunc(54, Vals(es)) = Build("AddTriplesToGraphGroup", x)
  <2>1. Row(54, Prod("RestOfWhere", rhs, "AddTriplesToGraphGroup", <<1, 3>>))
    BY <1>1
  <2>2. 1 \in DOMAIN es /\ 3 \in DOMAIN es
    BY <1>1, <1>4, RhsReady
  <2>3. <<es[1].val.t, es[3].val.t>> = Signature["AddTriplesToGraphGroup"]
    BY <1>3, <1>4
  <2> QED
    BY <2>1, <2>2, <2>3, CallTwo
<1>6. x[1] = es[1].val.v /\ x[2] = es[3].val.v
  OBVIOUS
<1> HIDE DEF x, args
<1> DEFINE v == AddTriplesToGraphGroup(x[1], x[2])
<1>7. ReduceFunc(54, Vals(es)) = Val("GraphGroup", v)
  BY <1>5, BuildGroup
<1>10. IsGroup(x[1]) /\ IsSeq(x[2]) =>
         IsGroup(v) /\ Alternatives(Expand(v)) = Both(Alternatives(Expand(x[1])), {WrittenAll(x[2])})
  BY GroupsMean
<1> HIDE DEF v
<1>8. ASSUME u \cap Lossy = {}
      PROVE  IsGroup(v) /\ TextMeaning(MeaningOf(54, es)) = Alternatives(Expand(v))
  <2>1. Means(es[1]) /\ Means(es[3])
    BY <1>1, <1>4, <1>8, RhsReady
  <2>2. \A i \in 1 .. Len(rhs) : i \notin {1, 3} => TypesOf(rhs[i]) \subseteq Mute
    BY <1>2 DEF Mute
  <2>3. MeaningOf(54, es) = Both(es[1].meaning, es[3].meaning)
    BY <1>1, <1>4, <1>8, <2>2, MeaningBoth
  <2>4. IsSeq(x[2]) /\ TextMeaning(es[3].meaning) = {WrittenAll(x[2])}
    BY <1>4, <1>6, <2>1, BlockMeaning
  <2>5. IsGroup(x[1]) /\ TextMeaning(es[1].meaning) = Alternatives(Expand(x[1]))
    BY <1>4, <1>6, <2>1, GroupMeaning
  <2>6. TextMeaning(Both(es[1].meaning, es[3].meaning)) = Both(TextMeaning(es[1].meaning), TextMeaning(es[3].meaning))
    BY MeaningOfTwo
  <2> QED
    BY <1>10, <2>3, <2>4, <2>5, <2>6
<1>9. "RestOfWhere" \notin Named
  BY DEF Named
<1> QED
  BY <1>1, <1>3, <1>7, <1>8, <1>9, GroupFine

\* Triples after a group, inside a group.
LEMMA GroupThenTriplesFine ==
    ASSUME NEW es, NEW u, Ready(62, es, u)
    PROVE  Fine(62, es, u)
<1> DEFINE rhs  == <<"GraphPatternNotTriples", ".", "TriplesBlock">>
           args == <<1, 3>>
<1>1. Row(62, Prod("GroupGraphPatternSub", rhs, "AddTriplesToGraphGroup", args))
  BY GroupRows
<1>2. /\ Len(rhs) = 3
      /\ TypesOf(rhs[1]) = {"GraphGroup"}
      /\ TypesOf(rhs[2]) = {"Token"}
      /\ TypesOf(rhs[3]) = {"[]Triple"}
  BY SymbolTypes
<1>3. Signature["AddTriplesToGraphGroup"] = <<"GraphGroup", "[]Triple">> /\ TypesOf("GroupGraphPatternSub") = {"GraphGroup"}
  BY Signatures, SymbolTypes
<1> HIDE DEF rhs
<1>4. /\ 1 \in 1 .. Len(rhs) /\ es[1].val.t = "GraphGroup"
      /\ 3 \in 1 .. Len(rhs) /\ es[3].val.t = "[]Triple"
  BY <1>1, <1>2, RhsReady
<1> DEFINE x == <<es[1].val.v, es[3].val.v>>
<1>5. ReduceFunc(62, Vals(es)) = Build("AddTriplesToGraphGroup", x)
  <2>1. Row(62, Prod("GroupGraphPatternSub", rhs, "AddTriplesToGraphGroup", <<1, 3>>))
    BY <1>1
  <2>2. 1 \in DOMAIN es /\ 3 \in DOMAIN es
    BY <1>1, <1>4, RhsReady
  <2>3. <<es[1].val.t, es[3].val.t>> = Signature["AddTriplesToGraphGroup"]
    BY <1>3, <1>4
  <2> QED
    BY <2>1, <2>2, <2>3, CallTwo
<1>6. x[1] = es[1].val.v /\ x[2] = es[3].val.v
  OBVIOUS
<1> HIDE DEF x, args
<1> DEFINE v == AddTriplesToGraphGroup(x[1], x[2])
<1>7. ReduceFunc(62, Vals(es)) = Val("GraphGroup", v)
  BY <1>5, BuildGroup
<1>10. IsGroup(x[1]) /\ IsSeq(x[2]) =>
         IsGroup(v) /\ Alternatives(Expand(v)) = Both(Alternatives(Expand(x[1])), {WrittenAll(x[2])})
  BY GroupsMean
<1> HIDE DEF v
<1>8. ASSUME u \cap Lossy = {}
      PROVE  IsGroup(v) /\ TextMeaning(MeaningOf(62, es)) = Alternatives(Expand(v))
  <2>1. Means(es[1]) /\ Means(es[3])
    BY <1>1, <1>4, <1>8, RhsReady
  <2>2. \A i \in 1 .. Len(rhs) : i \notin {1, 3} => TypesOf(rhs[i]) \subseteq Mute
    BY <1>2 DEF Mute
  <2>3. MeaningOf(62, es) = Both(es[1].meaning, es[3].meaning)
    BY <1>1, <1>4, <1>8, <2>2, MeaningBoth
  <2>4. IsSeq(x[2]) /\ TextMeaning(es[3].meaning) = {WrittenAll(x[2])}
    BY <1>4, <1>6, <2>1, BlockMeaning
  <2>5. IsGroup(x[1]) /\ TextMeaning(es[1].meaning) = Alternatives(Expand(x[1]))
    BY <1>4, <1>6, <2>1, GroupMeaning
  <2>6. TextMeaning(Both(es[1].meaning, es[3].meaning)) = Both(TextMeaning(es[1].meaning), TextMeaning(es[3].meaning))
    BY MeaningOfTwo
  <2> QED
    BY <1>10, <2>3, <2>4, <2>5, <2>6
<1>9. "GroupGraphPatternSub" \notin Named
  BY DEF Named
<1> QED
  BY <1>1, <1>3, <1>7, <1>8, <1>9, GroupFine

\* UNION.
LEMMA UnionFine ==
    ASSUME NEW es, NEW u, Ready(59, es, u)
    PROVE  Fine(59, es, u)
<1> DEFINE rhs  == <<"GraphPatternNotTriples", "UNION", "GroupGraphPattern">>
           args == <<1, 3>>
<1>1. Row(59, Prod("GraphPatternNotTriples", rhs, "GraphGroupUnion", args))
  BY GroupRows
<1>2. /\ Len(rhs) = 3
      /\ TypesOf(rhs[1]) = {"GraphGroup"}
      /\ TypesOf(rhs[2]) = {"Token"}
      /\ TypesOf(rhs[3]) = {"GraphGroup"}
  BY SymbolTypes
<1>3. Signature["GraphGroupUnion"] = <<"GraphGroup", "GraphGroup">> /\ TypesOf("GraphPatternNotTriples") = {"GraphGroup"}
  BY Signatures, SymbolTypes
<1> HIDE DEF rhs
<1>4. /\ 1 \in 1 .. Len(rhs) /\ es[1].val.t = "GraphGroup"
      /\ 3 \in 1 .. Len(rhs) /\ es[3].val.t = "GraphGroup"
  BY <1>1, <1>2, RhsReady
<1> DEFINE x == <<es[1].val.v, es[3].val.v>>
<1>5. ReduceFunc(59, Vals(es)) = Build("GraphGroupUnion", x)
  <2>1. Row(59, Prod("GraphPatternNotTriples", rhs, "GraphGroupUnion", <<1, 3>>))
    BY <1>1
  <2>2. 1 \in DOMAIN es /\ 3 \in DOMAIN es
    BY <1>1, <1>4, RhsReady
  <2>3. <<es[1].val.t, es[3].val.t>> = Signature["GraphGroupUnion"]
    BY <1>3, <1>4
  <2> QED
    BY <2>1, <2>2, <2>3, CallTwo
<1>6. x[1] = es[1].val.v /\ x[2] = es[3].val.v
  OBVIOUS
<1> HIDE DEF x, args
<1> DEFINE v == GraphGroupUnion(x[1], x[2])
<1>7. ReduceFunc(59, Vals(es)) = Val("GraphGroup", v)
  BY <1>5, BuildGroup
<1>10. IsGroup(x[1]) /\ IsGroup(x[2]) =>
         IsGroup(v) /\ Alternatives(Expand(v)) = Alternatives(Expand(x[1])) \cup Alternatives(Expand(x[2]))
  BY GroupsMean
<1> HIDE DEF v
<1>8. ASSUME u \cap Lossy = {}
      PROVE  IsGroup(v) /\ TextMeaning(MeaningOf(59, es)) = Alternatives(Expand(v))
  <2>1. Means(es[1]) /\ Means(es[3])
    BY <1>1, <1>4, <1>8, RhsReady
  <2>2. 1 \in DOMAIN es /\ 3 \in DOMAIN es
    BY <1>1, <1>4, RhsReady
  <2>3. MeaningOf(59, es) = es[1].meaning \cup es[3].meaning
    <3>1. productionsTable[59].id = "GraphPatternNotTriples" /\ productionsTable[59].call = "GraphGroupUnion"
      BY <1>1, ProdFields DEF Row
    <3> QED
      BY <2>2, <3>1 DEF MeaningOf
  <2>4. IsGroup(x[2]) /\ TextMeaning(es[3].meaning) = Alternatives(Expand(x[2]))
    BY <1>4, <1>6, <2>1, GroupMeaning
  <2>5. IsGroup(x[1]) /\ TextMeaning(es[1].meaning) = Alternatives(Expand(x[1]))
    BY <1>4, <1>6, <2>1, GroupMeaning
  <2>6. TextMeaning(es[1].meaning \cup es[3].meaning) = TextMeaning(es[1].meaning) \cup TextMeaning(es[3].meaning)
    BY MeaningOfTwo
  <2> QED
    BY <1>10, <2>3, <2>4, <2>5, <2>6
<1>9. "GraphPatternNotTriples" \notin Named
  BY DEF Named
<1> QED
  BY <1>1, <1>3, <1>7, <1>8, <1>9, GroupFine

-----------------------------------------------------------------------------
(* The rows of triples and paths.                                          *)

\* The text of a name.
LEMMA NameText ==
    ASSUME NEW tok, tok.type \in {"var", "uri", "url", "quotedstring"}
    PROVE  Names(<<tok>>) = <<tok>>
<1>1. NameOf(tok) = tok
  BY DEF NameOf, Name
<1> QED
  BY <1>1, NamesOne

\* The text of a triple.
LEMMA TripleText ==
    ASSUME NEW t \in Seq(Token), NEW s, NEW path, NEW o, <<s>> \in Seq(Token), <<o>> \in Seq(Token),
           s.type \in {"var", "uri", "url", "quotedstring"},
           o.type \in {"var", "uri", "url", "quotedstring"}, Names(t) = WrittenPath(path)
    PROVE  Names((<<s>> \o t) \o <<o>>) = Written(Triple(s, path, o))
<1> DEFINE a == <<s>>
           b == <<o>>
<1>1. Names(a) = a /\ Names(b) = b
  BY NameText
<1>2. Written(Triple(s, path, o)) = (a \o WrittenPath(path)) \o b
  BY DEF Written, Triple
<1>3. a \in Seq(Token) /\ b \in Seq(Token)
  OBVIOUS
<1> HIDE DEF a, b
<1>4. a \o t \in Seq(Token) /\ Names(a \o t) = Names(a) \o Names(t)
  BY <1>3, NamesConcat, ConcatProperties
<1>5. Names((a \o t) \o b) = Names(a \o t) \o Names(b)
  BY <1>3, <1>4, NamesConcat
<1>6. Names((a \o t) \o b) = Written(Triple(s, path, o))
  BY <1>1, <1>2, <1>4, <1>5
<1> QED
  BY <1>6 DEF a, b

\* What the names and the path of a triple keep.
LEMMA NameMeaning ==
    ASSUME NEW e, Means(e), e.sym \in {"Var", "GraphTerm", "VarOrTerm"}
    PROVE  e.text = <<e.val.v>> /\ e.val.v.type \in {"var", "uri", "url", "quotedstring"}
BY DEF Means

\* What is known of a path.
LEMMA PathMeaning ==
    ASSUME NEW e, Means(e), e.sym \in {"Path", "PathSequence"}
    PROVE  e.val.v \in Seq(Steps) /\ e.val.v # <<>> /\ Names(e.text) = WrittenPath(e.val.v)
BY DEF Means

\* The text of a row with three symbols.
LEMMA TextThree ==
    ASSUME NEW p, NEW es, NEW u, Ready(p, es, u), Len(es) = 3
    PROVE  /\ Texts(es) = (es[1].text \o es[2].text) \o es[3].text
           /\ es[1].text \in Seq(Token) /\ es[2].text \in Seq(Token) /\ es[3].text \in Seq(Token)
<1>1. IsSeq(es) /\ DOMAIN es = 1 .. Len(es) /\ \A i \in DOMAIN es : es[i].text \in Seq(Token)
  BY DEF Ready
<1>2. Texts(es) = (es[1].text \o es[2].text) \o es[3].text
  BY <1>1, TextsOf
<1> QED
  BY <1>1, <1>2

\* The text of a row with two symbols.
LEMMA TextTwo ==
    ASSUME NEW p, NEW es, NEW u, Ready(p, es, u), Len(es) = 2
    PROVE  /\ Texts(es) = es[1].text \o es[2].text
           /\ es[1].text \in Seq(Token) /\ es[2].text \in Seq(Token)
<1>1. IsSeq(es) /\ DOMAIN es = 1 .. Len(es) /\ \A i \in DOMAIN es : es[i].text \in Seq(Token)
  BY DEF Ready
<1>2. Texts(es) = es[1].text \o es[2].text
  BY <1>1, TextsOf
<1> QED
  BY <1>1, <1>2

\* A triple.
LEMMA TripleFine ==
    ASSUME NEW es, NEW u, Ready(32, es, u)
    PROVE  Fine(32, es, u)
<1> DEFINE rhs  == <<"VarOrTerm", "Path", "VarOrTerm">>
           args == <<1, 2, 3>>
<1>1. Row(32, Prod("Triple", rhs, "NewTriple", args))
  BY WhereRows
<1>2. /\ Len(rhs) = 3
      /\ rhs[1] = "VarOrTerm" /\ rhs[2] = "Path" /\ rhs[3] = "VarOrTerm"
  OBVIOUS
<1>3. /\ Signature["NewTriple"] = <<"URI", "[]PathPattern", "URI">>
      /\ TypesOf("Triple") = {"Triple"} /\ TypesOf("VarOrTerm") = {"URI"} /\ TypesOf("Path") = {"[]PathPattern"}
  BY Signatures, SymbolTypes
<1> HIDE DEF rhs
<1>4. /\ DOMAIN es = 1 .. 3 /\ Len(es) = 3
      /\ es[1].val.t = "URI" /\ es[1].sym = "VarOrTerm"
      /\ es[2].val.t = "[]PathPattern" /\ es[2].sym = "Path"
      /\ es[3].val.t = "URI" /\ es[3].sym = "VarOrTerm"
  BY <1>1, <1>2, <1>3, RhsReady
<1> DEFINE x == <<es[1].val.v, es[2].val.v, es[3].val.v>>
<1>5. ReduceFunc(32, Vals(es)) = Build("NewTriple", x)
  <2>1. Row(32, Prod("Triple", rhs, "NewTriple", <<1, 2, 3>>))
    BY <1>1
  <2>2. 1 \in DOMAIN es /\ 2 \in DOMAIN es /\ 3 \in DOMAIN es
    BY <1>4
  <2>3. <<es[1].val.t, es[2].val.t, es[3].val.t>> = Signature["NewTriple"]
    BY <1>3, <1>4
  <2> QED
    BY <2>1, <2>2, <2>3, CallThree
<1>6. x[1] = es[1].val.v /\ x[2] = es[2].val.v /\ x[3] = es[3].val.v
  OBVIOUS
<1> HIDE DEF x, args
<1> DEFINE t   == Triple(x[1], x[2], x[3])
           val == Val("Triple", t)
<1>7. ReduceFunc(32, Vals(es)) = val
  BY <1>5, BuildTerm
<1>8. val.t = "Triple" /\ val.v = t
  BY ValFields
<1>9. ASSUME u \cap Lossy = {}
      PROVE  TextMeaning(MeaningOf(32, es)) = {{Written(t)}}
  <2>1. Means(es[1]) /\ Means(es[2]) /\ Means(es[3])
    <3>1. 1 \in 1 .. Len(rhs) /\ 2 \in 1 .. Len(rhs) /\ 3 \in 1 .. Len(rhs)
      BY <1>2
    <3> QED
      BY <1>1, <1>9, <3>1, RhsReady
  <2>2. /\ es[1].text = <<x[1]>> /\ x[1].type \in {"var", "uri", "url", "quotedstring"}
        /\ es[3].text = <<x[3]>> /\ x[3].type \in {"var", "uri", "url", "quotedstring"}
    BY <1>4, <1>6, <2>1, NameMeaning
  <2>3. Names(es[2].text) = WrittenPath(x[2])
    BY <1>4, <1>6, <2>1, PathMeaning
  <2>4. /\ Texts(es) = (es[1].text \o es[2].text) \o es[3].text
        /\ es[1].text \in Seq(Token) /\ es[2].text \in Seq(Token) /\ es[3].text \in Seq(Token)
    BY <1>4, TextThree
  <2>5. Names(Texts(es)) = Written(t)
    <3> DEFINE b == es[2].text
    <3>1. b \in Seq(Token) /\ <<x[1]>> \in Seq(Token) /\ <<x[3]>> \in Seq(Token) /\ Names(b) = WrittenPath(x[2])
      BY <2>2, <2>3, <2>4
    <3>2. Texts(es) = (<<x[1]>> \o b) \o <<x[3]>>
      BY <2>2, <2>4
    <3> HIDE DEF b
    <3>3. Names((<<x[1]>> \o b) \o <<x[3]>>) = Written(Triple(x[1], x[2], x[3]))
      BY <2>2, <3>1, TripleText
    <3> QED
      BY <3>2, <3>3
  <2>6. MeaningOf(32, es) = {{Texts(es)}}
    <3>1. productionsTable[32].id = "Triple"
      BY <1>1, ProdFields DEF Row
    <3> QED
      BY <3>1 DEF MeaningOf, Texts
  <2>7. \A T : TextMeaning({{T}}) = {{Names(T)}}
    BY DEF TextMeaning
  <2> HIDE DEF t
  <2> QED
    BY <2>5, <2>6, <2>7
<1> HIDE DEF val, t
<1>10. ASSUME (u \cup {32}) \cap Lossy = {}
       PROVE  Means(Entry(0, val, "Triple", Texts(es), MeaningOf(32, es)))
  <2> DEFINE e == Entry(0, val, "Triple", Texts(es), MeaningOf(32, es))
  <2>1. e.val = val /\ e.sym = "Triple" /\ e.meaning = MeaningOf(32, es)
    BY EntryFields
  <2>2. TextMeaning(e.meaning) = {{Written(t)}}
    BY <1>9, <1>10, <2>1
  <2> HIDE DEF e
  <2>3. Means(e)
    BY <1>8, <2>1, <2>2 DEF Means
  <2> QED
    BY <2>3 DEF e
<1>11. val.t \in TypesOf("Triple") /\ "Triple" \notin {"PathElt", "PathPrimary"}
  BY <1>3, <1>8
<1> QED
  BY <1>1, <1>7, <1>10, <1>11, RowFine

\* What a row of paths comes to.
LEMMA PathRowFine ==
    ASSUME NEW p, NEW id, NEW rhs, NEW call, NEW args, Row(p, Prod(id, rhs, call, args)),
           NEW es, NEW u, NEW val, ReduceFunc(p, Vals(es)) = val, val.t \in TypesOf(id),
           val.t = "PathPattern" \/ InParentheses \in u \cup {p},
           (u \cup {p}) \cap Lossy = {} => Means(Entry(0, val, id, Texts(es), MeaningOf(p, es)))
    PROVE  Fine(p, es, u)
<1> DEFINE prod == Prod(id, rhs, call, args)
<1>1. prod.id = id /\ Row(p, prod)
  BY ProdFields
<1> HIDE DEF prod
<1> QED
  BY <1>1, FineOf

\* What is kept of a path, of a step and of a modifier.
LEMMA PathMeans ==
    ASSUME NEW s, NEW v, NEW X \in {"Path", "PathSequence"}, NEW tx, NEW m,
           v \in Seq(Steps), v # <<>>, Names(tx) = WrittenPath(v)
    PROVE  Means(Entry(s, Val("[]PathPattern", v), X, tx, m))
BY EntryFields, ValFields DEF Means

\* A step is to have the text that it is written with,
LEMMA StepMeans ==
    ASSUME NEW s, NEW v \in Steps, NEW X \in {"PathElt", "PathPrimary"}, NEW tx, NEW m,
           Names(tx) = WrittenStep(v), X = "PathPrimary" => v.pattern = "PATTERN_SINGLE"
    PROVE  Means(Entry(s, Val("PathPattern", v), X, tx, m))
BY EntryFields, ValFields DEF Means

\* and does when it is used.
LEMMA StepMeaning ==
    ASSUME NEW e, Means(e), e.val.t = "PathPattern"
    PROVE  /\ e.val.v \in Steps /\ Names(e.text) = WrittenStep(e.val.v)
           /\ e.sym = "PathPrimary" => e.val.v.pattern = "PATTERN_SINGLE"
BY DEF Means

\* What is known of a modifier.
LEMMA PatternMeaning ==
    ASSUME NEW e, Means(e), e.val.t = "Pattern"
    PROVE  e.val.v \in Patterns /\ Names(e.text) = Modifier(e.val.v)
BY DEF Means

\* A path that is a sequence of steps.
LEMMA SequencePathFine ==
    ASSUME NEW es, NEW u, Ready(38, es, u)
    PROVE  Fine(38, es, u)
<1> DEFINE rhs  == <<"PathSequence">>
           args == <<1>>
<1>1. Row(38, Prod("Path", rhs, "attrib", args))
  BY TermRows
<1>2. Len(rhs) = 1 /\ rhs[1] = "PathSequence"
  OBVIOUS
<1>3. TypesOf("Path") = {"[]PathPattern"} /\ TypesOf("PathSequence") = {"[]PathPattern"}
  BY SymbolTypes
<1> HIDE DEF rhs
<1>4. /\ DOMAIN es = 1 .. 1 /\ Len(es) = 1
      /\ es[1].val.t = "[]PathPattern" /\ es[1].sym = "PathSequence"
  BY <1>1, <1>2, <1>3, RhsReady
<1>5. ReduceFunc(38, Vals(es)) = es[1].val
  <2>1. Row(38, Prod("Path", rhs, "attrib", <<1>>)) /\ 1 \in DOMAIN es
    BY <1>1, <1>4
  <2> QED
    BY <2>1, CallAttrib
<1> HIDE DEF args
<1>6. ASSUME (u \cup {38}) \cap Lossy = {}
      PROVE  Means(Entry(0, es[1].val, "Path", Texts(es), MeaningOf(38, es)))
  <2>1. Means(es[1])
    <3>1. 1 \in 1 .. Len(rhs) /\ u \cap Lossy = {}
      BY <1>2, <1>6
    <3> QED
      BY <1>1, <3>1, RhsReady
  <2>2. Texts(es) = es[1].text
    BY <1>4, TextOne
  <2>3. es[1].val.v \in Seq(Steps) /\ es[1].val.v # <<>> /\ Names(Texts(es)) = WrittenPath(es[1].val.v)
    BY <1>4, <2>1, <2>2, PathMeaning
  <2> DEFINE e == Entry(0, es[1].val, "Path", Texts(es), MeaningOf(38, es))
  <2>4. e.val = es[1].val /\ e.sym = "Path" /\ e.text = Texts(es)
    BY EntryFields
  <2> HIDE DEF e
  <2>5. Means(e)
    BY <1>4, <2>3, <2>4 DEF Means
  <2> QED
    BY <2>5 DEF e
<1>7. es[1].val.t \in TypesOf("Path") /\ "Path" \notin {"PathElt", "PathPrimary"}
  BY <1>3, <1>4
<1> QED
  BY <1>1, <1>5, <1>6, <1>7, RowFine

\* A path that is a variable.
LEMMA VariablePathFine ==
    ASSUME NEW es, NEW u, Ready(40, es, u)
    PROVE  Fine(40, es, u)
<1> DEFINE rhs  == <<"Var">>
           args == <<1>>
<1>1. Row(40, Prod("Path", rhs, "PathFromVar", args))
  BY TermRows
<1>2. Len(rhs) = 1 /\ rhs[1] = "Var"
  OBVIOUS
<1>3. TypesOf("Path") = {"[]PathPattern"} /\ TypesOf("Var") = {"string"} /\ Signature["PathFromVar"] = <<"string">>
  BY SymbolTypes, Signatures
<1> HIDE DEF rhs
<1>4. /\ DOMAIN es = 1 .. 1 /\ Len(es) = 1
      /\ es[1].val.t = "string" /\ es[1].sym = "Var" /\ es[1].text \in Seq(Token)
  BY <1>1, <1>2, <1>3, RhsReady
<1> DEFINE x == <<es[1].val.v>>
<1>5. ReduceFunc(40, Vals(es)) = Build("PathFromVar", x)
  <2>1. Row(40, Prod("Path", rhs, "PathFromVar", <<1>>)) /\ 1 \in DOMAIN es
    BY <1>1, <1>4
  <2>2. <<es[1].val.t>> = Signature["PathFromVar"]
    BY <1>3, <1>4
  <2> QED
    BY <2>1, <2>2, CallOne
<1>6. x[1] = es[1].val.v
  OBVIOUS
<1> HIDE DEF x, args
<1> DEFINE pp  == PathPattern(x[1], "PATTERN_SINGLE")
           v   == <<pp>>
           val == Val("[]PathPattern", v)
<1>7. ReduceFunc(40, Vals(es)) = val
  <2>1. PathFromVar(x[1]) = v
    BY DEF PathFromVar
  <2> QED
    BY <1>5, <2>1, BuildTerm
<1>8. ASSUME u \cap Lossy = {}
      PROVE  v \in Seq(Steps) /\ v # <<>> /\ Names(Texts(es)) = WrittenPath(v)
  <2>1. Means(es[1])
    <3>1. 1 \in 1 .. Len(rhs)
      BY <1>2
    <3> QED
      BY <1>1, <1>8, <3>1, RhsReady
  <2>2. Texts(es) = es[1].text
    BY <1>4, TextOne
  <2>3. es[1].text = <<x[1]>> /\ x[1].type \in {"var", "uri", "url", "quotedstring"}
    BY <1>4, <1>6, <2>1, NameMeaning
  <2>4. x[1] \in Token
    <3>1. <<x[1]>> \in Seq(Token)
      BY <1>4, <2>3
    <3> QED
      BY <3>1
  <2>5. pp \in Steps /\ pp.pred = x[1] /\ pp.pattern = "PATTERN_SINGLE"
    BY <2>4 DEF PathPattern, Steps, Patterns
  <2> HIDE DEF pp
  <2>6. WrittenPath(<<pp>>) = WrittenStep(pp)
    BY <2>5, PathText
  <2>7. WrittenStep(pp) = <<x[1]>>
    <3>1. Modifier("PATTERN_SINGLE") = <<>> /\ <<x[1]>> \in Seq(Token)
      BY <2>4 DEF Modifier
    <3>2. <<x[1]>> \o <<>> = <<x[1]>>
      BY <3>1, ConcatEmptySeq
    <3> QED
      BY <2>5, <3>1, <3>2 DEF WrittenStep
  <2>8. Names(<<x[1]>>) = <<x[1]>>
    BY <2>3, NameText
  <2>9. v \in Seq(Steps) /\ v # <<>>
    BY <2>5
  <2> QED
    BY <2>2, <2>3, <2>6, <2>7, <2>8, <2>9
<1>9. val.t \in TypesOf("Path") /\ "Path" \notin {"PathElt", "PathPrimary"}
  BY <1>3, ValFields
<1> HIDE DEF v
<1>10. ASSUME (u \cup {40}) \cap Lossy = {}
       PROVE  Means(Entry(0, val, "Path", Texts(es), MeaningOf(40, es)))
  <2>1. u \cap Lossy = {}
    BY <1>10
  <2> QED
    BY <1>8, <2>1, PathMeans
<1> HIDE DEF val
<1> QED
  BY <1>1, <1>7, <1>9, <1>10, RowFine

\* A step in parentheses, of which the function that is given it makes a panic.
LEMMA PanicFine ==
    ASSUME NEW p, NEW es, NEW u, ReduceFunc(p, Vals(es)) = Panic, InParentheses \in u
    PROVE  Fine(p, es, u)
BY DEF Fine

\* A type assertion that does not hold is a panic.
LEMMA ElseOne ==
    ASSUME NEW p, NEW id, NEW rhs, NEW es, NEW c, c \notin {"attrib", "nil"}, NEW a \in DOMAIN es,
           Row(p, Prod(id, rhs, c, <<a>>))
    PROVE  <<es[a].val.t>> # Signature[c] => ReduceFunc(p, Vals(es)) = Panic
<1>1. ReduceFunc(p, Vals(es)) = IF <<es[a].val.t>> = Signature[c]
                                THEN Build(c, <<es[a].val.v>>) ELSE Panic
  BY CallOne
<1> QED
  BY <1>1

\* The same, of a row with two attributes.
LEMMA ElseTwo ==
    ASSUME NEW p, NEW id, NEW rhs, NEW es, NEW c, c \notin {"attrib", "nil"},
           1 \in DOMAIN es, NEW b \in DOMAIN es,
           Row(p, Prod(id, rhs, c, <<1, b>>))
    PROVE  <<es[1].val.t, es[b].val.t>> # Signature[c] => ReduceFunc(p, Vals(es)) = Panic
<1> DEFINE X == Vals(es)
           prod == productionsTable[p]
           args == [i \in DOMAIN prod.args |-> X[prod.args[i]]]
<1>1. X[1] = es[1].val /\ X[b] = es[b].val
  BY DEF Vals
<1> HIDE DEF X
<1>2. prod.call = c /\ prod.args = <<1, b>>
  BY DEF Row, Prod
<1>3. ReduceFunc(p, X) = IF [i \in DOMAIN args |-> args[i].t] = Signature[c]
                         THEN Build(c, [i \in DOMAIN args |-> args[i].v]) ELSE Panic
  BY <1>2, CallGives
<1>4. [i \in DOMAIN args |-> args[i].t] = <<X[1].t, X[b].t>>
  BY <1>2
<1> HIDE DEF prod, args
<1> QED
  BY <1>1, <1>3, <1>4 DEF X

\* A step is a single pattern, or something stood in parentheses.
LEMMA StepTyped ==
    ASSUME NEW e, NEW u, Good(e, u), e.sym \in {"PathElt", "PathPrimary"}
    PROVE  e.val.t = "PathPattern" \/ InParentheses \in u
BY DEF Good, Typed

\* The first step of a path.
LEMMA FirstStepFine ==
    ASSUME NEW es, NEW u, Ready(41, es, u)
    PROVE  Fine(41, es, u)
<1> DEFINE rhs  == <<"PathElt">>
           args == <<1>>
<1>1. Row(41, Prod("PathSequence", rhs, "NewPathSequence", args))
  BY PathRows
<1>2. Len(rhs) = 1 /\ rhs[1] = "PathElt"
  OBVIOUS
<1>3. TypesOf("PathSequence") = {"[]PathPattern"} /\ Signature["NewPathSequence"] = <<"PathPattern">>
  BY SymbolTypes, Signatures
<1> HIDE DEF rhs
<1>4. /\ DOMAIN es = 1 .. 1 /\ Len(es) = 1
      /\ es[1].sym = "PathElt" /\ es[1].text \in Seq(Token) /\ Good(es[1], u)
  BY <1>1, <1>2, RhsReady
<1> DEFINE x == <<es[1].val.v>>
<1>5. Row(41, Prod("PathSequence", rhs, "NewPathSequence", <<1>>)) /\ 1 \in DOMAIN es
  BY <1>1, <1>4
<1>6. x[1] = es[1].val.v
  OBVIOUS
<1> HIDE DEF args
<1>7. CASE es[1].val.t # "PathPattern"
  <2>1. ReduceFunc(41, Vals(es)) = Panic
    <3>1. <<es[1].val.t>> # Signature["NewPathSequence"]
      BY <1>3, <1>7
    <3> QED
      BY <1>5, <3>1, ElseOne
  <2>2. InParentheses \in u
    BY <1>4, <1>7, StepTyped
  <2> QED
    BY <2>1, <2>2, PanicFine
<1>8. CASE es[1].val.t = "PathPattern"
  <2>5. ReduceFunc(41, Vals(es)) = Build("NewPathSequence", x)
    <3>1. <<es[1].val.t>> = Signature["NewPathSequence"]
      BY <1>3, <1>8
    <3> QED
      BY <1>5, <3>1, CallOne
  <2> HIDE DEF x
  <2> DEFINE v   == <<x[1]>>
             val == Val("[]PathPattern", v)
  <2>1. ReduceFunc(41, Vals(es)) = val
    BY <2>5, BuildTerm
  <2>2. ASSUME u \cap Lossy = {}
        PROVE  v \in Seq(Steps) /\ v # <<>> /\ Names(Texts(es)) = WrittenPath(v)
    <3>1. Means(es[1])
      BY <1>4, <2>2 DEF Good
    <3>2. Texts(es) = es[1].text
      BY <1>4, TextOne
    <3>3. x[1] \in Steps /\ Names(es[1].text) = WrittenStep(x[1])
      BY <1>6, <1>8, <3>1, StepMeaning
    <3>4. WrittenPath(v) = WrittenStep(x[1])
      BY <3>3, PathText
    <3>5. v \in Seq(Steps) /\ v # <<>>
      BY <3>3
    <3> QED
      BY <3>2, <3>3, <3>4, <3>5
  <2>3. val.t \in TypesOf("PathSequence") /\ "PathSequence" \notin {"PathElt", "PathPrimary"}
    BY <1>3, ValFields
  <2> HIDE DEF v
  <2>4. ASSUME (u \cup {41}) \cap Lossy = {}
        PROVE  Means(Entry(0, val, "PathSequence", Texts(es), MeaningOf(41, es)))
    <3>1. u \cap Lossy = {}
      BY <2>4
    <3> QED
      BY <2>2, <3>1, PathMeans
  <2> HIDE DEF val
  <2> QED
    BY <1>1, <2>1, <2>3, <2>4, RowFine
<1> QED
  BY <1>7, <1>8

\* The text of a mark.
LEMMA MarkText ==
    ASSUME NEW tok, tok.type \in {"/", "?", "+", "*"}
    PROVE  Names(<<tok>>) = <<Mark(tok.type)>>
<1>1. NameOf(tok) = Mark(tok.type)
  BY DEF NameOf
<1> QED
  BY <1>1, NamesOne

\* Three texts, one after the other.
LEMMA TextsRegroup ==
    ASSUME NEW x \in Seq(Token), NEW y \in Seq(Token), NEW z \in Seq(Token)
    PROVE  (x \o y) \o z = x \o (y \o z)
BY ConcatAssociative

\* The text of a path with one step more.
LEMMA LongerText ==
    ASSUME NEW a \in Seq(Token), NEW tok, NEW c \in Seq(Token), <<tok>> \in Seq(Token), tok.type = "/",
           NEW path \in Seq(Steps), path # <<>>, NEW pp \in Steps,
           Names(a) = WrittenPath(path), Names(c) = WrittenStep(pp)
    PROVE  Names((a \o <<tok>>) \o c) = WrittenPath(Append(path, pp))
<1> DEFINE b == <<tok>>
           s == <<Mark("/")>>
<1>1. b \in Seq(Token) /\ Names(b) = s
  BY MarkText
<1>2. WrittenPath(Append(path, pp)) = WrittenPath(path) \o (s \o WrittenStep(pp))
  BY PathText
<1>3. WrittenPath(path) \in Seq(Token) /\ s \in Seq(Token) /\ WrittenStep(pp) \in Seq(Token)
  <2>1. WrittenStep(pp) \in Seq(Token) /\ Mark("/") \in Token
    BY StepText
  <2>2. WrittenPath(path) \in Seq(Token)
    BY PathText
  <2> QED
    BY <2>1, <2>2
<1> HIDE DEF b, s
<1>4. a \o b \in Seq(Token) /\ Names(a \o b) = Names(a) \o Names(b)
  BY <1>1, NamesConcat, ConcatProperties
<1>5. Names((a \o b) \o c) = Names(a \o b) \o Names(c)
  BY <1>4, NamesConcat
<1>6. (WrittenPath(path) \o s) \o WrittenStep(pp) = WrittenPath(path) \o (s \o WrittenStep(pp))
  <2> DEFINE f == WrittenPath(path)
             g == WrittenStep(pp)
  <2>1. f \in Seq(Token) /\ s \in Seq(Token) /\ g \in Seq(Token)
    BY <1>3
  <2> HIDE DEF f, g
  <2>2. (f \o s) \o g = f \o (s \o g)
    BY <2>1, TextsRegroup, SMTT(30)
  <2> QED
    BY <2>2 DEF f, g
<1>7. Names((a \o b) \o c) = WrittenPath(Append(path, pp))
  BY <1>1, <1>2, <1>4, <1>5, <1>6
<1> QED
  BY <1>7 DEF b

\* The next step of a path.
LEMMA NextStepFine ==
    ASSUME NEW es, NEW u, Ready(42, es, u)
    PROVE  Fine(42, es, u)
<1> DEFINE rhs  == <<"PathSequence", "/", "PathElt">>
           args == <<1, 3>>
<1>1. Row(42, Prod("PathSequence", rhs, "AppendPathSequence", args))
  BY PathRows
<1>2. Len(rhs) = 3 /\ rhs[1] = "PathSequence" /\ rhs[2] = "/" /\ rhs[3] = "PathElt"
  OBVIOUS
<1>3. /\ TypesOf("PathSequence") = {"[]PathPattern"} /\ TypesOf("/") = {"Token"}
      /\ Signature["AppendPathSequence"] = <<"[]PathPattern", "PathPattern">>
  BY SymbolTypes, Signatures
<1> HIDE DEF rhs
<1>4. /\ DOMAIN es = 1 .. 3 /\ Len(es) = 3
      /\ es[1].sym = "PathSequence" /\ es[1].val.t = "[]PathPattern"
      /\ es[2].sym = "/" /\ es[2].val.t = "Token"
      /\ es[3].sym = "PathElt" /\ Good(es[3], u)
  BY <1>1, <1>2, <1>3, RhsReady
<1> DEFINE x == <<es[1].val.v, es[3].val.v>>
<1>5. Row(42, Prod("PathSequence", rhs, "AppendPathSequence", <<1, 3>>)) /\ 1 \in DOMAIN es /\ 3 \in DOMAIN es
  BY <1>1, <1>4
<1>6. x[1] = es[1].val.v /\ x[2] = es[3].val.v
  OBVIOUS
<1> HIDE DEF args
<1>7. CASE es[3].val.t # "PathPattern"
  <2>1. ReduceFunc(42, Vals(es)) = Panic
    <3>1. <<es[1].val.t, es[3].val.t>> # Signature["AppendPathSequence"]
      BY <1>3, <1>7
    <3> QED
      BY <1>5, <3>1, ElseTwo
  <2>2. InParentheses \in u
    BY <1>4, <1>7, StepTyped
  <2> QED
    BY <2>1, <2>2, PanicFine
<1>8. CASE es[3].val.t = "PathPattern"
  <2>5. ReduceFunc(42, Vals(es)) = Build("AppendPathSequence", x)
    <3>1. <<es[1].val.t, es[3].val.t>> = Signature["AppendPathSequence"]
      BY <1>3, <1>4, <1>8
    <3> QED
      BY <1>5, <3>1, CallTwo
  <2> HIDE DEF x
  <2> DEFINE v   == Append(x[1], x[2])
             val == Val("[]PathPattern", v)
  <2>1. ReduceFunc(42, Vals(es)) = val
    BY <2>5, BuildTerm
  <2>2. ASSUME u \cap Lossy = {}
        PROVE  v \in Seq(Steps) /\ v # <<>> /\ Names(Texts(es)) = WrittenPath(v)
    <3>1. Means(es[1]) /\ Means(es[2]) /\ Means(es[3])
      <4>1. 1 \in 1 .. Len(rhs) /\ 2 \in 1 .. Len(rhs) /\ 3 \in 1 .. Len(rhs)
        BY <1>2
      <4> QED
        BY <1>1, <2>2, <4>1, RhsReady
    <3>2. /\ Texts(es) = (es[1].text \o es[2].text) \o es[3].text
          /\ es[1].text \in Seq(Token) /\ es[2].text \in Seq(Token) /\ es[3].text \in Seq(Token)
      BY <1>4, TextThree
    <3>3. x[2] \in Steps /\ Names(es[3].text) = WrittenStep(x[2])
      BY <1>6, <1>8, <3>1, StepMeaning
    <3>4. x[1] \in Seq(Steps) /\ x[1] # <<>> /\ Names(es[1].text) = WrittenPath(x[1])
      BY <1>4, <1>6, <3>1, PathMeaning
    <3> DEFINE tok == es[2].val.v
               a   == es[1].text
               c   == es[3].text
    <3>5. es[2].text = <<tok>> /\ tok.type = "/"
      BY <1>4, <3>1, TokenMeans
    <3>6. a \in Seq(Token) /\ c \in Seq(Token) /\ Names(a) = WrittenPath(x[1]) /\ Names(c) = WrittenStep(x[2])
      BY <3>2, <3>3, <3>4
    <3>7. Texts(es) = (a \o <<tok>>) \o c /\ <<tok>> \in Seq(Token)
      BY <3>2, <3>5
    <3> HIDE DEF a, c, tok
    <3>8. Names((a \o <<tok>>) \o c) = WrittenPath(v)
      BY <3>3, <3>4, <3>5, <3>6, <3>7, LongerText
    <3>9. v \in Seq(Steps) /\ v # <<>>
      BY <3>3, <3>4, AppendProperties
    <3> QED
      BY <3>7, <3>8, <3>9
  <2>3. val.t \in TypesOf("PathSequence") /\ "PathSequence" \notin {"PathElt", "PathPrimary"}
    BY <1>3, ValFields
  <2> HIDE DEF v
  <2>4. ASSUME (u \cup {42}) \cap Lossy = {}
        PROVE  Means(Entry(0, val, "PathSequence", Texts(es), MeaningOf(42, es)))
    <3>1. u \cap Lossy = {}
      BY <2>4
    <3> QED
      BY <2>2, <3>1, PathMeans
  <2> HIDE DEF val
  <2> QED
    BY <1>1, <2>1, <2>3, <2>4, RowFine
<1> QED
  BY <1>7, <1>8

\* A step with a modifier.
LEMMA ModifiedStepFine ==
    ASSUME NEW es, NEW u, Ready(43, es, u)
    PROVE  Fine(43, es, u)
<1> DEFINE rhs  == <<"PathPrimary", "PathMod">>
           args == <<1, 2>>
<1>1. Row(43, Prod("PathElt", rhs, "AddPathMod", args))
  BY PathRows
<1>2. Len(rhs) = 2 /\ rhs[1] = "PathPrimary" /\ rhs[2] = "PathMod"
  OBVIOUS
<1>3. /\ TypesOf("PathElt") = {"PathPattern", "[]PathPattern"} /\ TypesOf("PathMod") = {"Pattern"}
      /\ Signature["AddPathMod"] = <<"PathPattern", "Pattern">>
  BY SymbolTypes, Signatures
<1> HIDE DEF rhs
<1>4. /\ DOMAIN es = 1 .. 2 /\ Len(es) = 2
      /\ es[1].sym = "PathPrimary" /\ Good(es[1], u)
      /\ es[2].sym = "PathMod" /\ es[2].val.t = "Pattern"
  BY <1>1, <1>2, <1>3, RhsReady
<1> DEFINE x == <<es[1].val.v, es[2].val.v>>
<1>5. Row(43, Prod("PathElt", rhs, "AddPathMod", <<1, 2>>)) /\ 1 \in DOMAIN es /\ 2 \in DOMAIN es
  BY <1>1, <1>4
<1>6. x[1] = es[1].val.v /\ x[2] = es[2].val.v
  OBVIOUS
<1> HIDE DEF args
<1>7. CASE es[1].val.t # "PathPattern"
  <2>1. ReduceFunc(43, Vals(es)) = Panic
    <3>1. <<es[1].val.t, es[2].val.t>> # Signature["AddPathMod"]
      BY <1>3, <1>7
    <3> QED
      BY <1>5, <3>1, ElseTwo
  <2>2. InParentheses \in u
    BY <1>4, <1>7, StepTyped
  <2> QED
    BY <2>1, <2>2, PanicFine
<1>8. CASE es[1].val.t = "PathPattern"
  <2>1. ReduceFunc(43, Vals(es)) = Build("AddPathMod", x)
    <3>1. <<es[1].val.t, es[2].val.t>> = Signature["AddPathMod"]
      BY <1>3, <1>4, <1>8
    <3> QED
      BY <1>5, <3>1, CallTwo
  <2> HIDE DEF x
  <2> DEFINE v   == AddPathMod(x[1], x[2])
             val == Val("PathPattern", v)
  <2>2. ReduceFunc(43, Vals(es)) = val
    BY <2>1, BuildTerm
  <2>3. ASSUME u \cap Lossy = {}
        PROVE  v \in Steps /\ Names(Texts(es)) = WrittenStep(v)
    <3>1. Means(es[1]) /\ Means(es[2])
      <4>1. 1 \in 1 .. Len(rhs) /\ 2 \in 1 .. Len(rhs)
        BY <1>2
      <4> QED
        BY <1>1, <2>3, <4>1, RhsReady
    <3>2. Texts(es) = es[1].text \o es[2].text /\ es[1].text \in Seq(Token) /\ es[2].text \in Seq(Token)
      BY <1>4, TextTwo
    <3>3. x[1] \in Steps /\ Names(es[1].text) = WrittenStep(x[1]) /\ x[1].pattern = "PATTERN_SINGLE"
      BY <1>4, <1>6, <1>8, <3>1, StepMeaning
    <3>4. x[2] \in Patterns /\ Names(es[2].text) = Modifier(x[2])
      BY <1>4, <1>6, <3>1, PatternMeaning
    <3>5. v \in Steps /\ v.pred = x[1].pred /\ v.pattern = x[2]
      BY <3>3, <3>4 DEF AddPathMod, PathPattern, Steps
    <3> HIDE DEF v
    <3>6. WrittenStep(x[1]) = <<x[1].pred>>
      <4>1. Modifier("PATTERN_SINGLE") = <<>> /\ <<x[1].pred>> \in Seq(Token)
        BY <3>3 DEF Modifier, Steps
      <4>2. <<x[1].pred>> \o <<>> = <<x[1].pred>>
        BY <4>1, ConcatEmptySeq
      <4> QED
        BY <3>3, <4>1, <4>2 DEF WrittenStep
    <3>7. WrittenStep(v) = WrittenStep(x[1]) \o Modifier(x[2])
      BY <3>5, <3>6 DEF WrittenStep
    <3>8. Names(es[1].text \o es[2].text) = Names(es[1].text) \o Names(es[2].text)
      BY <3>2, NamesConcat
    <3> QED
      BY <3>2, <3>3, <3>4, <3>5, <3>7, <3>8
  <2>4. val.t = "PathPattern" /\ val.t \in TypesOf("PathElt")
    BY <1>3, ValFields
  <2> HIDE DEF v
  <2>5. ASSUME (u \cup {43}) \cap Lossy = {}
        PROVE  Means(Entry(0, val, "PathElt", Texts(es), MeaningOf(43, es)))
    <3>1. u \cap Lossy = {}
      BY <2>5
    <3> QED
      BY <2>3, <3>1, StepMeans
  <2> HIDE DEF val
  <2> QED
    BY <1>1, <2>2, <2>4, <2>5, PathRowFine
<1> QED
  BY <1>7, <1>8

\* A step without a modifier.
LEMMA PlainStepFine ==
    ASSUME NEW es, NEW u, Ready(44, es, u)
    PROVE  Fine(44, es, u)
<1> DEFINE rhs  == <<"PathPrimary">>
           args == <<1>>
<1>1. Row(44, Prod("PathElt", rhs, "attrib", args))
  BY PathRows
<1>2. Len(rhs) = 1 /\ rhs[1] = "PathPrimary"
  OBVIOUS
<1>3. TypesOf("PathElt") = TypesOf("PathPrimary") /\ TypesOf("PathElt") = {"PathPattern", "[]PathPattern"}
  BY SymbolTypes
<1> HIDE DEF rhs
<1>4. /\ DOMAIN es = 1 .. 1 /\ Len(es) = 1
      /\ es[1].sym = "PathPrimary" /\ es[1].val.t \in TypesOf("PathPrimary") /\ Good(es[1], u)
  BY <1>1, <1>2, RhsReady
<1> DEFINE val == es[1].val
<1>5. ReduceFunc(44, Vals(es)) = val
  <2>1. Row(44, Prod("PathElt", rhs, "attrib", <<1>>)) /\ 1 \in DOMAIN es
    BY <1>1, <1>4
  <2> QED
    BY <2>1, CallAttrib
<1> HIDE DEF args
<1>6. val.t \in TypesOf("PathElt") /\ (val.t = "PathPattern" \/ InParentheses \in u)
  BY <1>3, <1>4, StepTyped
<1>7. ASSUME (u \cup {44}) \cap Lossy = {}
      PROVE  Means(Entry(0, val, "PathElt", Texts(es), MeaningOf(44, es)))
  <2>1. Means(es[1])
    BY <1>4, <1>7 DEF Good
  <2>2. Texts(es) = es[1].text
    BY <1>4, TextOne
  <2> DEFINE e == Entry(0, val, "PathElt", Texts(es), MeaningOf(44, es))
  <2>3. e.val = val /\ e.sym = "PathElt" /\ e.text = Texts(es)
    BY EntryFields
  <2>4. val.t = "PathPattern" => val.v \in Steps /\ Names(es[1].text) = WrittenStep(val.v)
    BY <2>1, StepMeaning
  <2> HIDE DEF e
  <2>5. Means(e)
    BY <1>3, <1>6, <2>2, <2>3, <2>4 DEF Means
  <2> QED
    BY <2>5 DEF e
<1> HIDE DEF val
<1>8. val.t = "PathPattern" \/ InParentheses \in u \cup {44}
  BY <1>6
<1> QED
  BY <1>1, <1>5, <1>6, <1>7, <1>8, PathRowFine

\* A step that is a name.
LEMMA NameStepText ==
    ASSUME NEW tok, tok.type \in {"uri", "a", "url"}, <<tok>> \in Seq(Token)
    PROVE  LET v == NewPathPattern(tok)
           IN  v \in Steps /\ v.pattern = "PATTERN_SINGLE" /\ Names(<<tok>>) = WrittenStep(v)
<1> DEFINE v == NewPathPattern(tok)
<1>1. tok \in Token
  OBVIOUS
<1>2. v.pred = Name(tok) /\ v.pattern = "PATTERN_SINGLE" /\ v = PathPattern(Name(tok), "PATTERN_SINGLE")
  BY DEF NewPathPattern, PathPattern, Name
<1> HIDE DEF v
<1>3. Name(tok) \in Token
  BY <1>1 DEF Name, RdfType, Token, TokenTypes
<1>4. v \in Steps
  BY <1>2, <1>3 DEF Steps, Patterns, PathPattern
<1>5. Names(<<tok>>) = <<Name(tok)>>
  <2>1. NameOf(tok) = Name(tok)
    BY DEF NameOf
  <2> QED
    BY <2>1, NamesOne
<1>6. WrittenStep(v) = <<Name(tok)>>
  <2>1. Modifier("PATTERN_SINGLE") = <<>> /\ <<Name(tok)>> \in Seq(Token)
    BY <1>3 DEF Modifier
  <2>2. <<Name(tok)>> \o <<>> = <<Name(tok)>>
    BY <2>1, ConcatEmptySeq
  <2> QED
    BY <1>2, <2>1, <2>2 DEF WrittenStep
<1> QED
  BY <1>2, <1>4, <1>5, <1>6 DEF v

\* A step that is one name.
LEMMA NameStepFine ==
    ASSUME NEW p, NEW S \in {"uri", "a", "url"}, NEW rhs, Len(rhs) = 1, rhs[1] = S,
           Row(p, Prod("PathPrimary", rhs, "NewPathPattern", << 1 >>)), NEW es, NEW u, Ready(p, es, u)
    PROVE  Fine(p, es, u)
<1> DEFINE args == <<1>>
<1>1. Row(p, Prod("PathPrimary", rhs, "NewPathPattern", args))
  OBVIOUS
<1>2. /\ TypesOf("PathPrimary") = {"PathPattern", "[]PathPattern"}
      /\ Signature["NewPathPattern"] = <<"Token">>
  BY SymbolTypes, Signatures
<1>3. TypesOf(S) = {"Token"}
  <2>1. TypesOf("uri") = {"Token"} /\ TypesOf("a") = {"Token"} /\ TypesOf("url") = {"Token"}
    BY SymbolTypes
  <2> QED
    BY <2>1
<1>4. /\ DOMAIN es = 1 .. 1 /\ Len(es) = 1
      /\ es[1].sym = S /\ es[1].val.t = "Token" /\ es[1].text \in Seq(Token) /\ Good(es[1], u)
  BY <1>1, <1>3, RhsReady
<1> DEFINE x == <<es[1].val.v>>
<1>5. ReduceFunc(p, Vals(es)) = Build("NewPathPattern", x)
  <2>1. 1 \in DOMAIN es /\ "NewPathPattern" \notin {"attrib", "nil"}
    BY <1>4
  <2>2. <<es[1].val.t>> = Signature["NewPathPattern"]
    BY <1>2, <1>4
  <2> QED
    BY <2>1, <2>2, CallOne
<1>6. x[1] = es[1].val.v
  OBVIOUS
<1> HIDE DEF x, args
<1> DEFINE v   == NewPathPattern(x[1])
           val == Val("PathPattern", v)
<1>7. ReduceFunc(p, Vals(es)) = val
  BY <1>5, BuildTerm
<1>8. ASSUME u \cap Lossy = {}
      PROVE  v \in Steps /\ v.pattern = "PATTERN_SINGLE" /\ Names(Texts(es)) = WrittenStep(v)
  <2>1. Means(es[1])
    BY <1>4, <1>8 DEF Good
  <2>2. Texts(es) = es[1].text
    BY <1>4, TextOne, Zenon
  <2>3. es[1].text = <<x[1]>> /\ x[1].type = S
    BY <1>4, <1>6, <2>1, TokenMeans
  <2>4. <<x[1]>> \in Seq(Token)
    BY <1>4, <2>3
  <2>5. v \in Steps /\ v.pattern = "PATTERN_SINGLE" /\ Names(<<x[1]>>) = WrittenStep(v)
    BY <2>3, <2>4, NameStepText
  <2> QED
    BY <2>2, <2>3, <2>5
<1>9. val.t = "PathPattern" /\ val.t \in TypesOf("PathPrimary")
  BY <1>2, ValFields
<1> HIDE DEF v
<1>10. ASSUME (u \cup {p}) \cap Lossy = {}
       PROVE  Means(Entry(0, val, "PathPrimary", Texts(es), MeaningOf(p, es)))
  <2>1. u \cap Lossy = {}
    BY <1>10
  <2> QED
    BY <1>8, <2>1, StepMeans
<1> HIDE DEF val
<1> QED
  BY <1>1, <1>7, <1>9, <1>10, PathRowFine

\* A path in parentheses.
LEMMA ParenthesesFine ==
    ASSUME NEW es, NEW u, Ready(48, es, u)
    PROVE  Fine(48, es, u)
<1> DEFINE rhs  == <<"(", "Path", ")">>
           args == <<2>>
<1>1. Row(48, Prod("PathPrimary", rhs, "attrib", args))
  BY PathRows
<1>2. Len(rhs) = 3 /\ rhs[2] = "Path"
  OBVIOUS
<1>3. TypesOf("PathPrimary") = {"PathPattern", "[]PathPattern"} /\ TypesOf("Path") = {"[]PathPattern"}
  BY SymbolTypes
<1> HIDE DEF rhs
<1>4. DOMAIN es = 1 .. 3 /\ es[2].val.t = "[]PathPattern"
  BY <1>1, <1>2, <1>3, RhsReady
<1> DEFINE val == es[2].val
<1>5. ReduceFunc(48, Vals(es)) = val
  <2>1. Row(48, Prod("PathPrimary", rhs, "attrib", <<2>>)) /\ 2 \in DOMAIN es
    BY <1>1, <1>4
  <2> QED
    BY <2>1, CallAttrib
<1> HIDE DEF args
<1>6. Means(Entry(0, val, "PathPrimary", Texts(es), MeaningOf(48, es)))
  <2> DEFINE e == Entry(0, val, "PathPrimary", Texts(es), MeaningOf(48, es))
  <2>1. e.val = val /\ e.sym = "PathPrimary"
    BY EntryFields
  <2> HIDE DEF e
  <2>2. Means(e)
    BY <1>4, <2>1 DEF Means
  <2> QED
    BY <2>2 DEF e
<1>7. val.t \in TypesOf("PathPrimary") /\ InParentheses \in u \cup {48}
  BY <1>3, <1>4 DEF InParentheses
<1> HIDE DEF val
<1> QED
  BY <1>1, <1>5, <1>6, <1>7, PathRowFine

\* The modifiers.
LEMMA ModifierFine ==
    ASSUME NEW p, NEW S \in {"?", "*", "+"}, NEW rhs, Len(rhs) = 1, rhs[1] = S,
           NEW c \in Patterns \ {"PATTERN_SINGLE"}, Row(p, Prod("PathMod", rhs, c, <<>>)),
           Modifier(c) = <<Mark(S)>>, NEW es, NEW u, Ready(p, es, u)
    PROVE  Fine(p, es, u)
<1> DEFINE args == <<>>
<1>1. Row(p, Prod("PathMod", rhs, c, args))
  OBVIOUS
<1>2. TypesOf("PathMod") = {"Pattern"} /\ Signature[c] = <<>> /\ c \notin {"attrib", "nil"}
  <2>1. /\ Signature["PATTERN_ZERO_ONE"] = <<>> /\ Signature["PATTERN_ZERO_PLUS"] = <<>>
        /\ Signature["PATTERN_ONE_PLUS"] = <<>> /\ TypesOf("PathMod") = {"Pattern"}
    BY SymbolTypes, Signatures
  <2> QED
    BY <2>1 DEF Patterns
<1>3. TypesOf(S) = {"Token"}
  <2>1. TypesOf("?") = {"Token"} /\ TypesOf("*") = {"Token"} /\ TypesOf("+") = {"Token"}
    BY SymbolTypes
  <2> QED
    BY <2>1
<1>4. /\ DOMAIN es = 1 .. 1 /\ Len(es) = 1
      /\ es[1].sym = S /\ es[1].val.t = "Token" /\ Good(es[1], u)
  BY <1>1, <1>3, RhsReady
<1> DEFINE val == Val("Pattern", c)
<1>5. ReduceFunc(p, Vals(es)) = val
  <2>1. ReduceFunc(p, Vals(es)) = Build(c, <<>>)
    BY <1>2, CallNone
  <2>2. \A x : Build(c, x) = Val("Pattern", c)
    BY BuildTerm DEF Patterns
  <2> QED
    BY <2>1, <2>2
<1> HIDE DEF args
<1>6. val.t = "Pattern" /\ val.v = c
  BY ValFields
<1> HIDE DEF val
<1>7. ASSUME (u \cup {p}) \cap Lossy = {}
      PROVE  Means(Entry(0, val, "PathMod", Texts(es), MeaningOf(p, es)))
  <2>1. Means(es[1])
    BY <1>4, <1>7 DEF Good
  <2>2. Texts(es) = es[1].text
    BY <1>4, TextOne, Zenon
  <2>3. es[1].text = <<es[1].val.v>> /\ es[1].val.v.type = S
    BY <1>4, <2>1, TokenMeans
  <2>4. Names(<<es[1].val.v>>) = <<Mark(S)>>
    BY <2>3, MarkText
  <2>5. Names(Texts(es)) = Modifier(c)
    BY <2>2, <2>3, <2>4
  <2> DEFINE e == Entry(0, val, "PathMod", Texts(es), MeaningOf(p, es))
  <2>6. e.val = val /\ e.sym = "PathMod" /\ e.text = Texts(es)
    BY EntryFields
  <2> HIDE DEF e
  <2>7. Means(e)
    BY <1>6, <2>5, <2>6 DEF Means
  <2> QED
    BY <2>7 DEF e
<1>8. val.t \in TypesOf("PathMod") /\ "PathMod" \notin {"PathElt", "PathPrimary"}
  BY <1>2, <1>6
<1> QED
  BY <1>1, <1>5, <1>7, <1>8, RowFine

\* The rows of names and of modifiers.
LEMMA StepRowsFine ==
    ASSUME NEW p \in {45, 46, 47, 49, 50, 51}, NEW es, NEW u, Ready(p, es, u)
    PROVE  Fine(p, es, u)
<1>45. CASE p = 45
  <2> DEFINE rhs == <<"uri">>
  <2>1. Row(p, Prod("PathPrimary", rhs, "NewPathPattern", <<1>>))
    BY <1>45, PathRows
  <2>2. Len(rhs) = 1 /\ rhs[1] = "uri"
    OBVIOUS
  <2> HIDE DEF rhs
  <2> QED
    BY <2>1, <2>2, NameStepFine
<1>46. CASE p = 46
  <2> DEFINE rhs == <<"a">>
  <2>1. Row(p, Prod("PathPrimary", rhs, "NewPathPattern", <<1>>))
    BY <1>46, PathRows
  <2>2. Len(rhs) = 1 /\ rhs[1] = "a"
    OBVIOUS
  <2> HIDE DEF rhs
  <2> QED
    BY <2>1, <2>2, NameStepFine
<1>47. CASE p = 47
  <2> DEFINE rhs == <<"url">>
  <2>1. Row(p, Prod("PathPrimary", rhs, "NewPathPattern", <<1>>))
    BY <1>47, PathRows
  <2>2. Len(rhs) = 1 /\ rhs[1] = "url"
    OBVIOUS
  <2> HIDE DEF rhs
  <2> QED
    BY <2>1, <2>2, NameStepFine
<1>49. CASE p = 49
  <2> DEFINE rhs == <<"?">>
  <2>1. Row(p, Prod("PathMod", rhs, "PATTERN_ZERO_ONE", <<>>))
    BY <1>49, PathRows
  <2>2. Len(rhs) = 1 /\ rhs[1] = "?"
    OBVIOUS
  <2>3. Modifier("PATTERN_ZERO_ONE") = <<Mark("?")>> /\ "PATTERN_ZERO_ONE" \in Patterns \ {"PATTERN_SINGLE"}
    BY DEF Modifier, Patterns
  <2> HIDE DEF rhs
  <2> QED
    BY <2>1, <2>2, <2>3, ModifierFine
<1>50. CASE p = 50
  <2> DEFINE rhs == <<"*">>
  <2>1. Row(p, Prod("PathMod", rhs, "PATTERN_ZERO_PLUS", <<>>))
    BY <1>50, PathRows
  <2>2. Len(rhs) = 1 /\ rhs[1] = "*"
    OBVIOUS
  <2>3. Modifier("PATTERN_ZERO_PLUS") = <<Mark("*")>> /\ "PATTERN_ZERO_PLUS" \in Patterns \ {"PATTERN_SINGLE"}
    BY DEF Modifier, Patterns
  <2> HIDE DEF rhs
  <2> QED
    BY <2>1, <2>2, <2>3, ModifierFine
<1>51. CASE p = 51
  <2> DEFINE rhs == <<"+">>
  <2>1. Row(p, Prod("PathMod", rhs, "PATTERN_ONE_PLUS", <<>>))
    BY <1>51, PathRows
  <2>2. Len(rhs) = 1 /\ rhs[1] = "+"
    OBVIOUS
  <2>3. Modifier("PATTERN_ONE_PLUS") = <<Mark("+")>> /\ "PATTERN_ONE_PLUS" \in Patterns \ {"PATTERN_SINGLE"}
    BY DEF Modifier, Patterns
  <2> HIDE DEF rhs
  <2> QED
    BY <2>1, <2>2, <2>3, ModifierFine
<1> QED
  BY <1>45, <1>46, <1>47, <1>49, <1>50, <1>51

-----------------------------------------------------------------------------
(* All rows.                                                               *)

\* Every action of the tables keeps what its symbols mean.
LEMMA AllRowsFine ==
    ASSUME NEW p \in Productions \ {0}, NEW es, NEW u, Ready(p, es, u)
    PROVE  Fine(p, es, u)
<1>1. p \in 1 .. 63
  BY TableRows
<1>2. CASE p \in {1, 2, 3, 52, 55, 58, 60}
  BY <1>2, AttribRowsFine
<1>3. CASE p \in 4 .. 9
  BY <1>3, QueryRowsFine
<1>4. CASE p \in 10 .. 23 \ {21}
  BY <1>4, SilentRowsFine
<1>5. CASE p \in {21, 33, 34, 35, 36, 37}
  BY <1>5, NamedRowsFine
<1>6. CASE p \in {39, 53, 63}
  BY <1>6, LossyRowsFine
<1>7. CASE p \in {56, 57}
  BY <1>7, JoinerRowsFine
<1>8. CASE p \in {45, 46, 47, 49, 50, 51}
  BY <1>8, StepRowsFine
<1>9. CASE p \in {24, 25, 26, 27, 28, 29}
  BY <1>9, EmptyWhereFine, BlockWhereFine, BlockDotWhereFine, MixedWhereFine, MixedDotWhereFine,
     GroupWhereFine
<1>10. CASE p \in {30, 31, 32, 38, 40, 41, 42}
  BY <1>10, FirstTripleFine, NextTripleFine, TripleFine, SequencePathFine, VariablePathFine,
     FirstStepFine, NextStepFine
<1>11. CASE p \in {43, 44, 48, 54, 59, 61, 62}
  BY <1>11, ModifiedStepFine, PlainStepFine, ParenthesesFine, TriplesAfterGroupFine, UnionFine,
     GroupFromTriplesFine, GroupThenTriplesFine
<1> QED
  BY <1>1, <1>2, <1>3, <1>4, <1>5, <1>6, <1>7, <1>8, <1>9, <1>10, <1>11

\* A row's symbol is none that the scanner returns.
LEMMA RowSymbol ==
    ASSUME NEW p \in 0 .. 63, NEW id, NEW rhs, NEW call, NEW args, Row(p, Prod(id, rhs, call, args))
    PROVE  id \in NonTerminals
<1>1. productionsTable[p].id = id
  BY ProdFields DEF Row
<1>2. p \in Productions
  BY TableRows
<1> QED
  BY <1>1, <1>2 DEF NonTerminals

\* The symbols that stand for something, all of them left-hand sides.
LEMMA LeftHandSides ==
    /\ {"S'", "QueryUnit", "SelectQuery", "CountQuery", "UpdateQuery"} \subseteq NonTerminals
    /\ {"SelectClause", "CountClause", "InsertClause", "DatasetClause", "WhereClause"} \subseteq NonTerminals
    /\ {"Varlist", "DBlist", "String", "Var", "GraphTerm", "VarOrTerm"} \subseteq NonTerminals
    /\ {"TriplesBlock", "Triple", "Path", "PathSequence", "PathElt", "PathPrimary", "PathMod"}
           \subseteq NonTerminals
    /\ {"RestOfWhereList", "RestOfWhere", "GraphPatternNotTriples", "GroupGraphPattern",
        "GroupGraphPatternSub", "Joiner"} \subseteq NonTerminals
<1>1. "S'" \in NonTerminals
  <2>1. Row(0, Prod("S'", <<"QueryUnit">>, "attrib", <<1>>))
    BY QueryRows
  <2>2. 0 \in 0 .. 63
    OBVIOUS
  <2> QED
    BY <2>1, <2>2, RowSymbol, Zenon
<1>2. "QueryUnit" \in NonTerminals
  <2>1. Row(1, Prod("QueryUnit", <<"SelectQuery", ";">>, "attrib", <<1>>))
    BY QueryRows
  <2>2. 1 \in 0 .. 63
    OBVIOUS
  <2> QED
    BY <2>1, <2>2, RowSymbol, Zenon
<1>3. "SelectQuery" \in NonTerminals
  <2>1. Row(4, Prod("SelectQuery", <<"SelectClause", "DatasetClause", "WhereClause">>, "NewQueryMulti", <<1, 2, 3>>))
    BY QueryRows
  <2>2. 4 \in 0 .. 63
    OBVIOUS
  <2> QED
    BY <2>1, <2>2, RowSymbol, Zenon
<1>4. "CountQuery" \in NonTerminals
  <2>1. Row(6, Prod("CountQuery", <<"CountClause", "DatasetClause", "WhereClause">>, "NewCountQueryMulti", <<1, 2, 3>>))
    BY QueryRows
  <2>2. 6 \in 0 .. 63
    OBVIOUS
  <2> QED
    BY <2>1, <2>2, RowSymbol, Zenon
<1>5. "UpdateQuery" \in NonTerminals
  <2>1. Row(8, Prod("UpdateQuery", <<"InsertClause", "DatasetClause", "WhereClause">>, "NewInsertQueryMulti", <<1, 2, 3>>))
    BY QueryRows
  <2>2. 8 \in 0 .. 63
    OBVIOUS
  <2> QED
    BY <2>1, <2>2, RowSymbol, Zenon
<1>6. "SelectClause" \in NonTerminals
  <2>1. Row(10, Prod("SelectClause", <<"SELECT", "*">>, "NewAllSelectClause", <<>>))
    BY ClauseRows
  <2>2. 10 \in 0 .. 63
    OBVIOUS
  <2> QED
    BY <2>1, <2>2, RowSymbol, Zenon
<1>7. "InsertClause" \in NonTerminals
  <2>1. Row(12, Prod("InsertClause", <<"INSERT", "{", "TriplesBlock", "}">>, "NewInsertClause", <<3>>))
    BY ClauseRows
  <2>2. 12 \in 0 .. 63
    OBVIOUS
  <2> QED
    BY <2>1, <2>2, RowSymbol, Zenon
<1>8. "CountClause" \in NonTerminals
  <2>1. Row(14, Prod("CountClause", <<"COUNT", "*">>, "NewAllSelectClause", <<>>))
    BY ClauseRows
  <2>2. 14 \in 0 .. 63
    OBVIOUS
  <2> QED
    BY <2>1, <2>2, RowSymbol, Zenon
<1>9. "Varlist" \in NonTerminals
  <2>1. Row(16, Prod("Varlist", <<"Var">>, "NewVarList", <<1>>))
    BY ClauseRows
  <2>2. 16 \in 0 .. 63
    OBVIOUS
  <2> QED
    BY <2>1, <2>2, RowSymbol, Zenon
<1>10. "DBlist" \in NonTerminals
  <2>1. Row(18, Prod("DBlist", <<"String">>, "NewStringList", <<1>>))
    BY ClauseRows
  <2>2. 18 \in 0 .. 63
    OBVIOUS
  <2> QED
    BY <2>1, <2>2, RowSymbol, Zenon
<1>11. "String" \in NonTerminals
  <2>1. Row(20, Prod("String", <<"string">>, "ParseString", <<1>>))
    BY ClauseRows
  <2>2. 20 \in 0 .. 63
    OBVIOUS
  <2> QED
    BY <2>1, <2>2, RowSymbol, Zenon
<1>12. "Var" \in NonTerminals
  <2>1. Row(21, Prod("Var", <<"var">>, "ParseString", <<1>>))
    BY ClauseRows
  <2>2. 21 \in 0 .. 63
    OBVIOUS
  <2> QED
    BY <2>1, <2>2, RowSymbol, Zenon
<1>13. "DatasetClause" \in NonTerminals
  <2>1. Row(22, Prod("DatasetClause", <<"FROM", "DBlist">>, "NewFromClause", <<2>>))
    BY ClauseRows
  <2>2. 22 \in 0 .. 63
    OBVIOUS
  <2> QED
    BY <2>1, <2>2, RowSymbol, Zenon
<1>14. "WhereClause" \in NonTerminals
  <2>1. Row(24, Prod("WhereClause", <<"WHERE", "{", "}">>, "NewEmptyWhereClause", <<>>))
    BY WhereRows
  <2>2. 24 \in 0 .. 63
    OBVIOUS
  <2> QED
    BY <2>1, <2>2, RowSymbol, Zenon
<1>15. "TriplesBlock" \in NonTerminals
  <2>1. Row(30, Prod("TriplesBlock", <<"Triple">>, "NewTripleBlock", <<1>>))
    BY WhereRows
  <2>2. 30 \in 0 .. 63
    OBVIOUS
  <2> QED
    BY <2>1, <2>2, RowSymbol, Zenon
<1>16. "Triple" \in NonTerminals
  <2>1. Row(32, Prod("Triple", <<"VarOrTerm", "Path", "VarOrTerm">>, "NewTriple", <<1, 2, 3>>))
    BY WhereRows
  <2>2. 32 \in 0 .. 63
    OBVIOUS
  <2> QED
    BY <2>1, <2>2, RowSymbol, Zenon
<1>17. "VarOrTerm" \in NonTerminals
  <2>1. Row(33, Prod("VarOrTerm", <<"Var">>, "NewURI", <<1>>))
    BY TermRows
  <2>2. 33 \in 0 .. 63
    OBVIOUS
  <2> QED
    BY <2>1, <2>2, RowSymbol, Zenon
<1>18. "GraphTerm" \in NonTerminals
  <2>1. Row(35, Prod("GraphTerm", <<"uri">>, "ParseString", <<1>>))
    BY TermRows
  <2>2. 35 \in 0 .. 63
    OBVIOUS
  <2> QED
    BY <2>1, <2>2, RowSymbol, Zenon
<1>19. "Path" \in NonTerminals
  <2>1. Row(38, Prod("Path", <<"PathSequence">>, "attrib", <<1>>))
    BY TermRows
  <2>2. 38 \in 0 .. 63
    OBVIOUS
  <2> QED
    BY <2>1, <2>2, RowSymbol, Zenon
<1>20. "PathSequence" \in NonTerminals
  <2>1. Row(41, Prod("PathSequence", <<"PathElt">>, "NewPathSequence", <<1>>))
    BY PathRows
  <2>2. 41 \in 0 .. 63
    OBVIOUS
  <2> QED
    BY <2>1, <2>2, RowSymbol, Zenon
<1>21. "PathElt" \in NonTerminals
  <2>1. Row(43, Prod("PathElt", <<"PathPrimary", "PathMod">>, "AddPathMod", <<1, 2>>))
    BY PathRows
  <2>2. 43 \in 0 .. 63
    OBVIOUS
  <2> QED
    BY <2>1, <2>2, RowSymbol, Zenon
<1>22. "PathPrimary" \in NonTerminals
  <2>1. Row(45, Prod("PathPrimary", <<"uri">>, "NewPathPattern", <<1>>))
    BY PathRows
  <2>2. 45 \in 0 .. 63
    OBVIOUS
  <2> QED
    BY <2>1, <2>2, RowSymbol, Zenon
<1>23. "PathMod" \in NonTerminals
  <2>1. Row(49, Prod("PathMod", <<"?">>, "PATTERN_ZERO_ONE", <<>>))
    BY PathRows
  <2>2. 49 \in 0 .. 63
    OBVIOUS
  <2> QED
    BY <2>1, <2>2, RowSymbol, Zenon
<1>24. "RestOfWhereList" \in NonTerminals
  <2>1. Row(52, Prod("RestOfWhereList", <<"RestOfWhere">>, "attrib", <<1>>))
    BY GroupRows
  <2>2. 52 \in 0 .. 63
    OBVIOUS
  <2> QED
    BY <2>1, <2>2, RowSymbol, Zenon
<1>25. "RestOfWhere" \in NonTerminals
  <2>1. Row(54, Prod("RestOfWhere", <<"GraphPatternNotTriples", "Joiner", "TriplesBlock", "Joiner">>, "AddTriplesToGraphGroup", <<1, 3>>))
    BY GroupRows
  <2>2. 54 \in 0 .. 63
    OBVIOUS
  <2> QED
    BY <2>1, <2>2, RowSymbol, Zenon
<1>26. "Joiner" \in NonTerminals
  <2>1. Row(56, Prod("Joiner", <<".">>, "attrib", <<1>>))
    BY GroupRows
  <2>2. 56 \in 0 .. 63
    OBVIOUS
  <2> QED
    BY <2>1, <2>2, RowSymbol, Zenon
<1>27. "GraphPatternNotTriples" \in NonTerminals
  <2>1. Row(58, Prod("GraphPatternNotTriples", <<"GroupGraphPattern">>, "attrib", <<1>>))
    BY GroupRows
  <2>2. 58 \in 0 .. 63
    OBVIOUS
  <2> QED
    BY <2>1, <2>2, RowSymbol, Zenon
<1>28. "GroupGraphPattern" \in NonTerminals
  <2>1. Row(60, Prod("GroupGraphPattern", <<"{", "GroupGraphPatternSub", "Joiner", "}">>, "attrib", <<2>>))
    BY GroupRows
  <2>2. 60 \in 0 .. 63
    OBVIOUS
  <2> QED
    BY <2>1, <2>2, RowSymbol, Zenon
<1>29. "GroupGraphPatternSub" \in NonTerminals
  <2>1. Row(61, Prod("GroupGraphPatternSub", <<"TriplesBlock">>, "GraphGroupFromTriples", <<1>>))
    BY GroupRows
  <2>2. 61 \in 0 .. 63
    OBVIOUS
  <2> QED
    BY <2>1, <2>2, RowSymbol, Zenon
<1> QED
  BY <1>1, <1>2, <1>3, <1>4, <1>5, <1>6, <1>7, <1>8, <1>9, <1>10, <1>11, <1>12, <1>13,
     <1>14, <1>15, <1>16, <1>17, <1>18, <1>19, <1>20, <1>21, <1>22, <1>23, <1>24, <1>25,
     <1>26, <1>27, <1>28, <1>29

\* A token of the text is what it says.
LEMMA TokenGood ==
    ASSUME NEW s, NEW tok, tok.type \notin NonTerminals, NEW u
    PROVE  Good(Entry(s, Val("Token", tok), tok.type, <<tok>>, True), u)
<1> DEFINE X == tok.type
           e == Entry(s, Val("Token", tok), X, <<tok>>, True)
<1>1. /\ e.val.t = "Token" /\ e.val.v = tok /\ e.sym = X
      /\ e.meaning = True
  BY EntryFields, ValFields
<1>2. e.text = <<e.val.v>> /\ e.val.v.type = X
  BY <1>1 DEF Entry
<1> HIDE DEF e
<1>3. X \notin NonTerminals
  OBVIOUS
<1> HIDE DEF X
<1>4. TypesOf(X) = {"Token"}
  BY <1>3, LeftHandSides DEF TypesOf
<1>5. X \notin {"Var", "GraphTerm", "VarOrTerm", "Path", "PathSequence", "PathElt", "PathPrimary"}
  BY <1>3, LeftHandSides
<1>6. Typed(e, u)
  BY <1>1, <1>4, <1>5 DEF Typed
<1>7. Means(e)
  BY <1>1, <1>2, <1>5 DEF Means
<1> QED
  BY <1>6, <1>7 DEF Good, e, X

\* Whatever a caller goes on to reduce by.
LEMMA GoodLater ==
    ASSUME NEW e, NEW u, NEW p, Good(e, u)
    PROVE  Good(e, u \cup {p})
<1>1. Typed(e, u \cup {p})
  BY DEF Good, Typed
<1>2. (u \cup {p}) \cap Lossy = {} => u \cap Lossy = {}
  OBVIOUS
<1> QED
  BY <1>1, <1>2 DEF Good

\* The state that is pushed with an entry is no part of what the entry means.
LEMMA GoodAnyState ==
    ASSUME NEW e, NEW f, NEW u, Good(e, u),
           f.val = e.val, f.sym = e.sym, f.text = e.text, f.meaning = e.meaning
    PROVE  Good(f, u)
<1>1. Typed(f, u)
  BY DEF Good, Typed
<1>2. ASSUME Means(e)
      PROVE  Means(f)
  BY <1>2 DEF Means
<1> QED
  BY <1>1, <1>2 DEF Good

-----------------------------------------------------------------------------
(* What the stack holds means what it covers.                              *)

\* What holds of a caller: in Parse, every entry of the stack means what it covers; once Parse
\* has returned, so does the query that it returned.
ValueOf(g) ==
    /\ pc[g] # "idle" => /\ result[g] = NoResult
                         /\ \A i \in 2 .. Len(stack) : Good(stack[i], used[g])
    /\ pc[g] = "push" => Good(local[g].entry, used[g])
    /\ result[g].status = "panic" => InParentheses \in used[g]
    /\ result[g].status = "query" /\ used[g] \cap Lossy = {} =>
          QueryMeaning(result[g].val.v) = TextMeaning(result[g].meaning)

ValueInv == \A g \in Callers : ValueOf(g)

\* What a reduction is given is ready for its action.
LEMMA PoppedReady ==
    ASSUME TextInv, NEW g \in Callers, pc[g] = "loop", HasAction, Action.kind = "reduce",
           NEW u, \A i \in 2 .. Len(stack) : Good(stack[i], u)
    PROVE  LET p  == Action.n
               lo == Len(stack) - Len(productionsTable[p].rhs)
               es == SubSeq(stack, lo + 1, Len(stack))
           IN  /\ p \in Productions \ {0} /\ lo \in 1 .. Len(stack)
               /\ Ready(p, es, u)
<1> DEFINE p  == Action.n
           n  == Len(productionsTable[p].rhs)
           lo == Len(stack) - n
           es == SubSeq(stack, lo + 1, Len(stack))
<1>1. /\ p \in Productions \ {0} /\ lo \in 1 .. Len(stack)
      /\ IsSeq(es) /\ Len(es) = n /\ DOMAIN es = 1 .. n
      /\ \A i \in 1 .. n : /\ lo + i \in 2 .. Len(stack) /\ es[i] = stack[lo + i]
                           /\ es[i].sym = productionsTable[p].rhs[i]
                           /\ es[i].text \in Seq(Token)
  BY Popped
<1> HIDE DEF p, n, lo, es
<1>2. \A i \in 1 .. n : Good(es[i], u)
  BY <1>1
<1>3. Ready(p, es, u)
  BY <1>1, <1>2 DEF Ready, n
<1> QED
  BY <1>1, <1>3 DEF p, n, lo, es

\* The parser always finds a state, and the symbols that it pops.
LEMMA NeverOut ==
    ASSUME TextInv, NEW g \in Callers, pc[g] # "idle"
    PROVE  InRange
<1>1. Chained(stack)
  BY DEF TextInv, Parsing
<1>2. Len(stack) \in Nat /\ Len(stack) >= 1 /\ stack # <<>>
  BY <1>1, LenProperties, EmptySeq DEF Chained, IsSeq
<1>3. Len(stack) \in 1 .. Len(stack)
  BY <1>2
<1>4. stack[Len(stack)].state \in States
  BY <1>1, <1>3, ChainStates
<1> QED
  BY <1>2, <1>4 DEF InRange, Top

\* One more entry on the stack.
LEMMA PushGood ==
    ASSUME NEW s, NEW e, IsSeq(s), NEW u, \A i \in 2 .. Len(s) : Good(s[i], u), Good(e, u)
    PROVE  \A i \in 2 .. Len(Append(s, e)) : Good(Append(s, e)[i], u)
<1> DEFINE t == Append(s, e)
<1>1. /\ Len(s) \in Nat /\ Len(t) = Len(s) + 1 /\ t[Len(s) + 1] = e
      /\ \A i \in 1 .. Len(s) : t[i] = s[i]
  BY AppendAt
<1> HIDE DEF t
<1>2. ASSUME NEW i \in 2 .. Len(t)
      PROVE  Good(t[i], u)
  <2>1. CASE i \in 2 .. Len(s)
    BY <1>1, <2>1
  <2>2. CASE i = Len(s) + 1
    BY <1>1, <2>2
  <2> QED
    BY <1>1, <2>1, <2>2
<1> QED
  BY <1>2 DEF t

\* Fewer.
LEMMA PopGood ==
    ASSUME NEW s, IsSeq(s), NEW m \in 1 .. Len(s), NEW u, NEW p,
           \A i \in 2 .. Len(s) : Good(s[i], u)
    PROVE  \A i \in 2 .. Len(SubSeq(s, 1, m)) : Good(SubSeq(s, 1, m)[i], u \cup {p})
<1> DEFINE t == SubSeq(s, 1, m)
<1>1. Len(t) = m /\ \A i \in 1 .. m : t[i] = s[i]
  <2>1. m \in 0 .. Len(s)
    BY LenProperties DEF IsSeq
  <2> QED
    BY <2>1, SplitAt
<1>2. Len(s) \in Nat
  BY LenProperties DEF IsSeq
<1> HIDE DEF t
<1>3. ASSUME NEW i \in 2 .. Len(t)
      PROVE  Good(t[i], u \cup {p})
  <2>1. t[i] = s[i] /\ i \in 2 .. Len(s)
    BY <1>1, <1>2
  <2> QED
    BY <2>1, GoodLater
<1> QED
  BY <1>3 DEF t

\* The outcomes of Parse that are not queries.
LEMMA NoResultStatus == NoResult.status = "none" /\ [NoResult EXCEPT !.status = "error"].status = "error"
                        /\ [NoResult EXCEPT !.status = "panic"].status = "panic"
BY DEF NoResult

\* A reduction.
LEMMA ReducesValue ==
    ASSUME TextInv, NEW g \in Callers, ValueOf(g), Reduces(g)
    PROVE  ValueOf(g)'
<1> DEFINE p  == Action.n
           lo == Len(stack) - Len(productionsTable[p].rhs)
           es == SubSeq(stack, lo + 1, Len(stack))
           s  == SubSeq(stack, 1, lo)
           u  == used[g]
<1>1. /\ stack' = s /\ pc'[g] = "push" /\ result' = result
      /\ local'[g].entry = Result(p, es) /\ used'[g] = u \cup {p}
      /\ ReduceFunc(p, Vals(es)) # Panic
  <2>1. Domains
    BY DEF TextInv
  <2>2. /\ stack' = s /\ pc'[g] = "push" /\ result' = result
        /\ used'[g] = u \cup {p}
        /\ ReduceFunc(p, [i \in DOMAIN es |-> es[i].val]) # Panic
    BY <2>1 DEF Reduces, Domains
  <2>3. local'[g].entry = Entry(0, ReduceFunc(p, [i \in DOMAIN es |-> es[i].val]),
             productionsTable[p].id, FlattenSeq([i \in DOMAIN es |-> es[i].text]), MeaningOf(p, es))
    BY <2>1 DEF Reduces, Domains
  <2> QED
    BY <2>2, <2>3 DEF Result, Vals, Texts
<1>2. pc[g] = "loop" /\ HasAction /\ Action.kind = "reduce"
  BY DEF Reduces
<1>3. result[g] = NoResult /\ \A i \in 2 .. Len(stack) : Good(stack[i], u)
  BY <1>2 DEF ValueOf
<1>4. p \in Productions \ {0} /\ lo \in 1 .. Len(stack) /\ Ready(p, es, u)
  BY <1>2, <1>3, PoppedReady
<1>5. IsSeq(stack)
  BY <1>2 DEF TextInv, Parsing, Chained
<1> HIDE DEF p, lo, es, u
<1>6. Good(Result(p, es), u \cup {p})
  BY <1>1, <1>4, AllRowsFine DEF Fine
<1>7. \A i \in 2 .. Len(s) : Good(s[i], u \cup {p})
  BY <1>3, <1>4, <1>5, PopGood
<1> HIDE DEF s
<1>8. result'[g] = NoResult /\ NoResult.status = "none"
  BY <1>1, <1>3, NoResultStatus
<1> QED
  BY <1>1, <1>6, <1>7, <1>8 DEF ValueOf

\* A crash is one of a reduction.
LEMMA CrashesValue ==
    ASSUME TextInv, NEW g \in Callers, ValueOf(g), Crashes(g)
    PROVE  ValueOf(g)'
<1> DEFINE p  == Action.n
           lo == Len(stack) - Len(productionsTable[p].rhs)
           es == SubSeq(stack, lo + 1, Len(stack))
           u  == used[g]
<1>1. Domains
  BY DEF TextInv
<1>2. pc'[g] = "idle" /\ result'[g] = [NoResult EXCEPT !.status = "panic"]
  BY <1>1 DEF Crashes, Domains
<1>3. pc[g] # "idle"
  BY DEF Crashes
<1>4. InRange
  BY <1>3, NeverOut
<1>5. /\ pc[g] = "loop" /\ HasAction /\ Action.kind = "reduce"
      /\ lo < 0 \/ ReduceFunc(p, [i \in DOMAIN es |-> es[i].val]) = Panic
      /\ used'[g] = u \cup {p}
  BY <1>1, <1>4 DEF Crashes, Domains
<1>6. \A i \in 2 .. Len(stack) : Good(stack[i], u)
  BY <1>5 DEF ValueOf
<1>7. p \in Productions \ {0} /\ lo \in 1 .. Len(stack) /\ Ready(p, es, u)
  BY <1>5, <1>6, PoppedReady
<1> HIDE DEF p, lo, u
<1>8. ReduceFunc(p, Vals(es)) = Panic
  <2>1. ~(lo < 0)
    BY <1>7
  <2>2. lo < 0 \/ ReduceFunc(p, Vals(es)) = Panic
    BY <1>5, Zenon DEF Vals
  <2> QED
    BY <2>1, <2>2
<1> HIDE DEF es
<1>9. InParentheses \in u \cup {p}
  BY <1>7, <1>8, AllRowsFine DEF Fine
<1>10. result'[g].status = "panic"
  BY <1>2, NoResultStatus
<1> QED
  BY <1>2, <1>5, <1>9, <1>10 DEF ValueOf

\* A query that is returned is the one symbol of the grammar that means a query.
LEMMA AcceptsValue ==
    ASSUME TextInv, NEW g \in Callers, ValueOf(g), Accepts(g)
    PROVE  ValueOf(g)'
<1> DEFINE e == Top(stack)
           u == used[g]
<1>1. Domains /\ Chained(stack) /\ pc[g] = "loop" /\ HasAction /\ Action.kind = "accept"
  BY DEF TextInv, Parsing, Accepts
<1>2. /\ pc'[g] = "idle" /\ used' = used
      /\ result'[g] = [status |-> "query", val |-> e.val, meaning |-> e.meaning]
  BY <1>1 DEF Accepts, Returns, Domains
<1>3. Len(stack) \in Nat /\ Len(stack) >= 2 /\ e.sym = "QueryUnit"
  BY <1>1, ActionFits
<1>4. Good(e, u)
  BY <1>1, <1>3 DEF ValueOf, Top
<1> HIDE DEF e, u
<1>5. e.val.t = "Query"
  <2>1. TypesOf("QueryUnit") = {"Query"}
    BY SymbolTypes
  <2>2. e.val.t \in TypesOf(e.sym)
    BY <1>4 DEF Good, Typed
  <2> QED
    BY <1>3, <2>1, <2>2
<1>6. u \cap Lossy = {} => QueryMeaning(e.val.v) = TextMeaning(e.meaning)
  BY <1>4, <1>5 DEF Good, Means
<1>7. /\ result'[g].status = "query" /\ result'[g].val = e.val /\ result'[g].meaning = e.meaning
      /\ used'[g] = u
  BY <1>2 DEF u
<1> QED
  BY <1>2, <1>6, <1>7 DEF ValueOf

\* The rest.
LEMMA OtherValue ==
    ASSUME TextInv, NEW g \in Callers, ValueOf(g),
           Begin(g) \/ Scan(g) \/ Shifts(g) \/ Pushes(g) \/ Rejects(g)
    PROVE  ValueOf(g)'
<1>0. Domains /\ NoResult.status = "none"
  BY NoResultStatus DEF TextInv
<1>1. CASE Begin(g)
  <2>1. stack' = <<Bottom>> /\ pc'[g] = "scan" /\ result'[g] = NoResult
    BY <1>0, <1>1 DEF Begin, Domains
  <2>2. 2 .. Len(stack') = {}
    BY <2>1
  <2> QED
    BY <1>0, <2>1, <2>2 DEF ValueOf
<1>2. CASE Scan(g)
  <2>1. /\ stack' = stack /\ pc'[g] = "loop" /\ pc[g] = "scan" /\ result' = result
        /\ used' = used
    BY <1>0, <1>2 DEF Scan, Domains
  <2> QED
    BY <1>0, <2>1 DEF ValueOf
<1>3. CASE Shifts(g)
  <2> DEFINE e == Entry(Action.n, Val("Token", nextToken), nextToken.type, <<nextToken>>, True)
  <2>1. /\ stack' = Append(stack, e) /\ pc'[g] = "scan" /\ pc[g] = "loop" /\ result' = result
        /\ used' = used /\ HasAction
    BY <1>0, <1>3 DEF Shifts, Domains
  <2>2. nextToken.type \notin NonTerminals
    BY <2>1, TablesAssumption DEF HasAction, InRange
  <2>3. Good(e, used[g])
    BY <2>2, TokenGood
  <2>4. IsSeq(stack) /\ \A i \in 2 .. Len(stack) : Good(stack[i], used[g])
    BY <2>1 DEF ValueOf, TextInv, Parsing, Chained
  <2> HIDE DEF e
  <2>5. \A i \in 2 .. Len(Append(stack, e)) : Good(Append(stack, e)[i], used[g])
    BY <2>3, <2>4, PushGood
  <2> QED
    BY <1>0, <2>1, <2>5 DEF ValueOf
<1>4. CASE Pushes(g)
  <2> DEFINE X == local[g].entry
             row == gotoTab[Top(stack).state]
             id == productionsTable[local[g].p].id
             n == IF id \in DOMAIN row THEN row[id] ELSE -1
             e == [X EXCEPT !.state = n]
  <2>1. /\ stack' = Append(stack, e) /\ pc'[g] = "loop" /\ pc[g] = "push" /\ result' = result
        /\ used' = used
    BY <1>0, <1>4 DEF Pushes, Domains
  <2>2. X = Entry(0, X.val, X.sym, X.text, X.meaning)
    BY <2>1 DEF TextInv, Parsing, Awaited
  <2> HIDE DEF X, n
  <2>3. e.val = X.val /\ e.sym = X.sym /\ e.text = X.text /\ e.meaning = X.meaning
    BY <2>2 DEF Entry
  <2>4. /\ IsSeq(stack) /\ \A i \in 2 .. Len(stack) : Good(stack[i], used[g])
        /\ Good(X, used[g])
    BY <2>1 DEF ValueOf, TextInv, Parsing, Chained, X
  <2> HIDE DEF e
  <2>5. Good(e, used[g])
    BY <2>3, <2>4, GoodAnyState
  <2>6. \A i \in 2 .. Len(Append(stack, e)) : Good(Append(stack, e)[i], used[g])
    BY <2>4, <2>5, PushGood
  <2> QED
    BY <1>0, <2>1, <2>6 DEF ValueOf
<1>5. CASE Rejects(g)
  <2>1. pc'[g] = "idle" /\ result'[g] = [NoResult EXCEPT !.status = "error"]
    BY <1>0, <1>5 DEF Rejects, Returns, Domains
  <2>2. result'[g].status = "error"
    BY <2>1, NoResultStatus
  <2> QED
    BY <2>1, <2>2 DEF ValueOf
<1> QED
  BY <1>1, <1>2, <1>3, <1>4, <1>5

\* The inductive step.
LEMMA ValueInvStep ==
    ASSUME OneCaller, TextInv, ValueInv, [Next]_vars
    PROVE  ValueInv'
<1> PICK c : Callers = {c}
  BY DEF OneCaller
<1>1. \A g \in Callers : ValueOf(g)
  BY DEF ValueInv
<1>2. ASSUME NEW g \in Callers,
             \/ Begin(g) \/ Scan(g) \/ Shifts(g) \/ Reduces(g) \/ Pushes(g)
             \/ Accepts(g) \/ Rejects(g) \/ Crashes(g)
      PROVE  ValueOf(g)'
  BY <1>1, <1>2, ReducesValue, CrashesValue, AcceptsValue, OtherValue
<1>3. ASSUME UNCHANGED vars, NEW g \in Callers
      PROVE  ValueOf(g)'
  BY <1>1, <1>3 DEF ValueOf, vars
<1>4. \A g \in Callers : ValueOf(g)'
  <2>1. CASE UNCHANGED vars
    BY <1>3, <2>1
  <2>2. CASE Next
    <3>1. PICK g \in Callers : \/ Begin(g) \/ Scan(g) \/ Shifts(g) \/ Reduces(g) \/ Pushes(g)
                               \/ Accepts(g) \/ Rejects(g) \/ Crashes(g)
      BY <2>2 DEF Next
    <3> QED
      BY <1>2, <3>1
  <2> QED
    BY <2>1, <2>2
<1> QED
  BY <1>4 DEF ValueInv

\* Nobody has parsed yet.
LEMMA ValueInvInit == Init => ValueInv
<1> SUFFICES ASSUME Init, NEW g \in Callers PROVE ValueOf(g)
  BY DEF ValueInv
<1>1. pc[g] = "idle" /\ result[g] = NoResult
  BY DEF Init
<1>2. result[g].status = "none"
  BY <1>1, NoResultStatus
<1> QED
  BY <1>1, <1>2 DEF ValueOf

\* ReduceFunc's type assertions hold on every text, however long, unless it has a path in
\* parentheses: what row 48 of the production table passes on as PathPrimary's attribute is a
\* []PathPattern.
THEOREM PanicOnlyInParentheses ==
    ASSUME OneCaller
    PROVE  Spec => []PanicsOnlyOnParentheses
<1>1. Init => TextInv /\ ValueInv
  BY TextInvInit, ValueInvInit
<1>2. TextInv /\ ValueInv /\ [Next]_vars => TextInv' /\ ValueInv'
  BY TextInvStep, ValueInvStep
<1>3. ValueInv => PanicsOnlyOnParentheses
  BY DEF ValueInv, ValueOf, PanicsOnlyOnParentheses, InParentheses
<1> QED
  BY <1>1, <1>2, <1>3, PTL DEF Spec

\* The query that Parse returns asks for what the text says, whatever its length and the nesting
\* of its groups: the alternatives that runQuery evaluates, each with its own triples, every triple
\* with its steps and modifiers.  The three productions of Lossy are left out.
THEOREM QueriesMeanTheirText ==
    ASSUME OneCaller
    PROVE  Spec => []QueryMeansText
<1>1. Init => TextInv /\ ValueInv
  BY TextInvInit, ValueInvInit
<1>2. TextInv /\ ValueInv /\ [Next]_vars => TextInv' /\ ValueInv'
  BY TextInvStep, ValueInvStep
<1>3. ValueInv => QueryMeansText
  BY DEF ValueInv, ValueOf, QueryMeansText
<1> QED
  BY <1>1, <1>2, <1>3, PTL DEF Spec
================================================================================
