--------------------------- MODULE PathQueryProofs ---------------------------
(***************************************************************************)
(* Proofs about PathQuery, for every graph, every state of the extended    *)
(* index and every path.                                                   *)
(***************************************************************************)
EXTENDS PathQuery, TLAPS

USE BlankAssumption, DatabasesAssumption, QueriesAssumption

-----------------------------------------------------------------------------
(* The least set closed under following edges.                             *)

\* One edge is a path of one or more edges.
LEMMA ReachEdge ==
    ASSUME NEW edges, NEW e \in edges
    PROVE  e[2] \in ReachPlus(edges, e[1])
BY DEF ReachPlus, Ends, ClosedFrom

\* Two paths compose.
LEMMA ReachTransitive ==
    ASSUME NEW edges, NEW x, NEW y \in ReachPlus(edges, x), NEW z \in ReachPlus(edges, y)
    PROVE  z \in ReachPlus(edges, x)
<1> SUFFICES ASSUME NEW S \in SUBSET Ends(edges), ClosedFrom(edges, x, S)
             PROVE  z \in S
  BY DEF ReachPlus
<1>1. y \in S
  BY DEF ReachPlus
<1>2. ClosedFrom(edges, y, S)
  BY <1>1 DEF ClosedFrom
<1> QED
  BY <1>2 DEF ReachPlus

\* More edges lose no path.
LEMMA ReachMonotone ==
    ASSUME NEW E, NEW F, E \subseteq F, NEW x
    PROVE  ReachPlus(E, x) \subseteq ReachPlus(F, x)
<1> SUFFICES ASSUME NEW y \in ReachPlus(E, x),
                    NEW S \in SUBSET Ends(F), ClosedFrom(F, x, S)
             PROVE  y \in S
  <2>1. Ends(E) \subseteq Ends(F)
    BY DEF Ends
  <2> QED
    BY <2>1 DEF ReachPlus
<1> DEFINE T == S \cap Ends(E)
<1>1. ClosedFrom(E, x, T)
  BY DEF ClosedFrom, Ends
<1> QED
  BY <1>1 DEF ReachPlus

-----------------------------------------------------------------------------
(* Walks.                                                                  *)

\* A walk of no segment stays where it is.
LEMMA WalkNone ==
    ASSUME NEW d, NEW q, NEW k \in Key
    PROVE  WalkedTo(d, q, k, 0) = {k}
<1>1. \A w \in Walks(d, q, k, 0) : w[0] = k
  BY DEF Walks
<1>2. [m \in 0 .. 0 |-> k] \in Walks(d, q, k, 0)
  BY DEF Walks
<1> QED
  BY <1>1, <1>2 DEF WalkedTo

\* A walk is continued by one segment ...
LEMMA WalkOn ==
    ASSUME NEW d, NEW q, NEW k \in Key, NEW n \in Nat, NEW x \in WalkedTo(d, q, k, n),
           NEW y \in Key, y \in Leads(d, q.from, InOrder(q)[n + 1], x)
    PROVE  y \in WalkedTo(d, q, k, n + 1)
<1>1. PICK w \in Walks(d, q, k, n) : x = w[n]
  BY DEF WalkedTo
<1> DEFINE v == [m \in 0 .. n + 1 |-> IF m = n + 1 THEN y ELSE w[m]]
<1>2. w \in [0 .. n -> Key] /\ w[0] = k
      /\ \A m \in 1 .. n : w[m] \in Leads(d, q.from, InOrder(q)[m], w[m - 1])
  BY DEF Walks
<1>3. v \in [0 .. n + 1 -> Key] /\ v[0] = k /\ v[n + 1] = y /\ v[n] = x
  BY <1>1, <1>2
<1>4. ASSUME NEW m \in 1 .. n + 1
      PROVE  v[m] \in Leads(d, q.from, InOrder(q)[m], v[m - 1])
  <2>1. CASE m = n + 1
    <3>1. v[m] = y /\ v[m - 1] = x
      BY <1>3, <2>1
    <3> QED
      BY <2>1, <3>1
  <2>2. CASE m # n + 1
    <3>1. m \in 1 .. n /\ v[m] = w[m] /\ v[m - 1] = w[m - 1]
      BY <2>2
    <3> QED
      BY <1>2, <3>1
  <2> QED
    BY <2>1, <2>2
<1> HIDE DEF v
<1>5. v \in Walks(d, q, k, n + 1)
  BY <1>3, <1>4 DEF Walks
<1> QED
  BY <1>3, <1>5 DEF WalkedTo

\* ... and every longer walk is one that was continued.
LEMMA WalkBack ==
    ASSUME NEW d, NEW q, NEW k \in Key, NEW n \in Nat, NEW y \in WalkedTo(d, q, k, n + 1)
    PROVE  \E x \in WalkedTo(d, q, k, n) : y \in Leads(d, q.from, InOrder(q)[n + 1], x)
<1>1. PICK v \in Walks(d, q, k, n + 1) : y = v[n + 1]
  BY DEF WalkedTo
<1> DEFINE w == [m \in 0 .. n |-> v[m]]
<1>2. v \in [0 .. n + 1 -> Key] /\ v[0] = k
      /\ \A m \in 1 .. n + 1 : v[m] \in Leads(d, q.from, InOrder(q)[m], v[m - 1])
  BY DEF Walks
<1>3. w \in [0 .. n -> Key] /\ w[0] = k
  BY <1>2
<1>4. \A m \in 1 .. n : w[m] \in Leads(d, q.from, InOrder(q)[m], w[m - 1])
  <2> SUFFICES ASSUME NEW m \in 1 .. n
               PROVE  w[m] \in Leads(d, q.from, InOrder(q)[m], w[m - 1])
    OBVIOUS
  <2>1. w[m] = v[m] /\ w[m - 1] = v[m - 1]
    OBVIOUS
  <2> QED
    BY <1>2, <2>1
<1>5. w[n] = v[n]
  OBVIOUS
<1> HIDE DEF w
<1>6. w \in Walks(d, q, k, n)
  BY <1>3, <1>4 DEF Walks
<1>7. v[n + 1] \in Leads(d, q.from, InOrder(q)[n + 1], v[n])
  <2>1. v[n + 1] \in Leads(d, q.from, InOrder(q)[n + 1], v[(n + 1) - 1])
    BY <1>2
  <2> QED
    BY <2>1
<1> QED
  BY <1>1, <1>5, <1>6, <1>7 DEF WalkedTo

\* A walk of the path's segments ends at keys.
LEMMA WalkedKeys ==
    ASSUME NEW d, NEW q, NEW k, NEW n \in Nat
    PROVE  WalkedTo(d, q, k, n) \subseteq Key
BY DEF WalkedTo, Walks

-----------------------------------------------------------------------------
(* Edges and what they lead to.                                            *)

\* Turning the edges round gives edges; an older graph has fewer of them.
LEMMA TurnedEdges ==
    ASSUME NEW d \in Databases, NEW p, NEW from
    PROVE  /\ Turned(d.edges, p, from) \subseteq Key \X Key
           /\ Turned(d.old, p, from) \subseteq Turned(d.edges, p, from)
<1>1. d.edges \subseteq Key \X Predicate \X Key /\ d.old \subseteq d.edges
  BY DEF DatabaseType
<1> QED
  BY <1>1 DEF Turned

\* Edges between keys lead to keys.
LEMMA LedToKeys ==
    ASSUME NEW E, E \subseteq Key \X Key, NEW k
    PROVE  Next1(E, k) \subseteq Key /\ ReachPlus(E, k) \subseteq Key
<1>1. Ends(E) \subseteq Key
  BY DEF Ends
<1> QED
  BY <1>1 DEF Next1, ReachPlus

\* One edge is a chain of edges.
LEMMA NextReached ==
    ASSUME NEW E, NEW k
    PROVE  Next1(E, k) \subseteq ReachPlus(E, k)
BY ReachEdge DEF Next1

\* What is reached from what is reached is reached.
LEMMA ReachedFurther ==
    ASSUME NEW E, NEW k, NEW n \in ReachPlus(E, k)
    PROVE  ReachPlus(E, n) \subseteq ReachPlus(E, k)
BY ReachTransitive

\* A set that holds the neighbours of x, and for each of its members the
\* neighbours or all that is reached from it, holds all that is reached from x.
LEMMA ClosedReached ==
    ASSUME NEW E, NEW x, NEW R, Next1(E, x) \subseteq R,
           \A k \in R : Next1(E, k) \subseteq R \/ ReachPlus(E, k) \subseteq R
    PROVE  ReachPlus(E, x) \subseteq R
<1> DEFINE S == R \cap Ends(E)
<1>1. \A k \in R : Next1(E, k) \subseteq R
  BY NextReached
<1>2. ClosedFrom(E, x, S)
  BY <1>1 DEF ClosedFrom, Ends, Next1
<1> QED
  BY <1>2 DEF ReachPlus

-----------------------------------------------------------------------------
(* The types, and what the loops know of the query.                        *)

TypeInv ==
    /\ db \in Databases
    /\ query \in Queries
    /\ pc \in {"called", "outer", "follow", "returned"}
    /\ idx \in Nat
    /\ stack \subseteq Key /\ traversed \subseteq Key /\ reachable \subseteq Key
    /\ inner \subseteq Key /\ innerTraversed \subseteq Key
    /\ pc \in {"outer", "follow"} =>
          /\ query.from # "neither"
          /\ idx \in 1 .. Len(query.path)
          /\ Len(path) = Len(query.path)
          /\ Followed(query) => path = InOrder(query)
    /\ pc = "called" => reachable = {} /\ traversed = {}
    /\ pc = "follow" => segment.pred \in Predicate

Sources == WalkedTo(db, query, query.start, idx - 1)
Targets == WalkedTo(db, query, query.start, idx)

Repeats == segment.pattern \in {"zeroPlus", "onePlus"}

\* The keys the segment may be followed from: for p* and p+ they include those
\* it has led to.
Froms == Sources \cup (IF Repeats THEN Targets ELSE {})

\* Soundness: the lists hold keys the segment may be followed from, reachable
\* those it leads to.
SoundInv ==
    Followed(query) =>
        /\ pc \in {"outer", "follow"} =>
              /\ stack \subseteq Froms
              /\ reachable \subseteq Targets
        /\ pc = "follow" => inner \subseteq Froms
        /\ pc = "returned" => result \subseteq Answer(db, query)

\* The search is done with a key: one hop from it has been taken, and the key
\* itself where the pattern says so.
DoneWith(k) ==
    /\ Edges(k) \subseteq reachable
    /\ segment.pattern \in {"zeroOne", "zeroPlus"} => k \in reachable

\* An entry of the extended index has been taken that covers all from this key.
Covered(k) == ReachPlus(Turned(db.edges, segment.pred, query.from), k) \subseteq reachable

\* Completeness: where the segment starts from is in the list or traversed; what
\* is traversed is done with, but for the key followed next; what p* and p+ have
\* reached is in the list, traversed or covered.
CompleteInv ==
    Followed(query) /\ Hashed(query) /\ db.old = db.edges =>
        /\ pc \in {"outer", "follow"} =>
              /\ Sources \subseteq stack \cup traversed
              /\ \A k \in traversed :
                    DoneWith(k) \/ (pc = "follow" /\ innerTraversed = {} /\ inner = {k})
              /\ Repeats => \A k \in reachable : k \in stack \cup traversed \/ Covered(k)
        /\ pc = "follow" => inner \subseteq reachable \cup traversed
        /\ pc = "returned" => Answer(db, query) \subseteq result

-----------------------------------------------------------------------------
(* The types are kept.                                                     *)

\* What is found from a key is a set of keys.
LEMMA FoundKeys ==
    ASSUME TypeInv, NEW k
    PROVE  Edges(k) \subseteq Key /\ PlusEdges(k) \subseteq Key
<1> DEFINE E == Turned(db.edges, segment.pred, query.from)
           O == Turned(db.old, segment.pred, query.from)
<1>1. db \in Databases
  BY DEF TypeInv
<1>2. E \subseteq Key \X Key /\ O \subseteq Key \X Key
  BY <1>1, TurnedEdges
<1> HIDE DEF E, O
<1>3. Next1(E, k) \subseteq Key /\ ReachPlus(O, k) \subseteq Key
  BY <1>2, LedToKeys
<1> QED
  BY <1>3 DEF E, O, Edges, PlusEdges

\* The fields of a query: an end, a key and a path that is not empty.
LEMMA QueryFacts ==
    ASSUME NEW q \in Queries
    PROVE  /\ q.from \in Side /\ q.start \in Key /\ q.path \in Seq(Segment)
           /\ Len(q.path) \in Nat /\ Len(q.path) >= 1
<1>1. q.from \in Side /\ q.start \in Key /\ q.path \in Seq(Segment) /\ q.path # <<>>
  OBVIOUS
<1> QED
  BY <1>1

\* A path of even length has no middle segment.
LEMMA OddNotEven ==
    ASSUME NEW n \in Nat, n % 2 = 0, NEW i \in Nat
    PROVE  2 * i # n + 1
OBVIOUS

\* A path the search follows whole is reversed as it should be.
LEMMA ReversedRight ==
    ASSUME NEW q \in Queries, q.from = "object", Followed(q)
    PROVE  reversePath(q.path) = Reverse(q.path)
<1> DEFINE n == Len(q.path)
<1>1. n \in Nat /\ (n = 1 \/ n % 2 = 0)
  BY QueryFacts DEF Followed
<1>2. \A i \in 1 .. n : ~ (n # 1 /\ 2 * i = n + 1)
  <2> SUFFICES ASSUME NEW i \in 1 .. n, n # 1 PROVE 2 * i # n + 1
    OBVIOUS
  <2> HIDE DEF n
  <2>1. i \in Nat /\ n \in Nat /\ n % 2 = 0
    BY <1>1
  <2> QED
    BY <2>1, OddNotEven
<1>3. reversePath(q.path) = [i \in 1 .. n |-> q.path[n + 1 - i]]
  BY <1>2 DEF reversePath
<1>4. Reverse(q.path) = [i \in 1 .. n |-> q.path[(n - i) + 1]]
  BY DEF Reverse
<1>5. \A i \in 1 .. n : n + 1 - i = (n - i) + 1
  BY <1>1
<1> QED
  BY <1>3, <1>4, <1>5

\* Entering getSubjectFromPredObject or getObjectFromSubjectPred keeps the types.
LEMMA BeginType ==
    ASSUME TypeInv, Begin
    PROVE  TypeInv'
<1>1. query \in Queries /\ query.start \in Key /\ Len(query.path) \in Nat
      /\ Len(query.path) >= 1
  BY QueryFacts DEF TypeInv
<1>2. Len(path') = Len(query.path)
  <2>1. CASE query.from = "object"
    <3>1. path' = reversePath(query.path)
      BY <2>1 DEF Begin
    <3>2. DOMAIN reversePath(query.path) = 1 .. Len(query.path)
      BY DEF reversePath
    <3> QED
      BY <1>1, <3>1 DEF reversePath
  <2>2. CASE query.from # "object"
    BY <2>2 DEF Begin
  <2> QED
    BY <2>1, <2>2
<1>3. Followed(query) => path' = InOrder(query)
  BY <1>1, ReversedRight DEF Begin, InOrder
<1> QED
  BY <1>1, <1>2, <1>3 DEF TypeInv, Begin

\* A step of followPathFromSubject or followPathFromObject keeps the types.
LEMMA FollowType ==
    ASSUME TypeInv, NEW k \in inner, FollowOnce(k) \/ FollowIndex(k) \/ FollowEdges(k)
    PROVE  TypeInv'
<1>1. k \in Key /\ Edges(k) \subseteq Key /\ PlusEdges(k) \subseteq Key /\ Self(k) \subseteq {k}
  BY FoundKeys DEF TypeInv, Self
<1>2. /\ UNCHANGED <<db, query, path, idx, traversed, result>>
      /\ innerTraversed' = innerTraversed \cup {k} /\ pc = "follow"
      /\ pc' \in {"outer", "follow"}
  BY DEF FollowOnce, FollowIndex, FollowEdges, Visit
<1>3. reachable' \subseteq Key /\ inner' \subseteq Key /\ stack' \subseteq Key
  <2>1. CASE FollowOnce(k)
    BY <1>1, <2>1 DEF FollowOnce, TypeInv
  <2>2. CASE FollowIndex(k)
    BY <1>1, <2>2 DEF FollowIndex, TypeInv
  <2>3. CASE FollowEdges(k)
    BY <1>1, <2>3 DEF FollowEdges, TypeInv
  <2> QED
    BY <2>1, <2>2, <2>3
<1> QED
  BY <1>1, <1>2, <1>3 DEF TypeInv, segment

\* Every step of a path query keeps the types.
LEMMA NextType == TypeInv /\ [Next]_vars => TypeInv'
<1> SUFFICES ASSUME TypeInv, [Next]_vars PROVE TypeInv'
  OBVIOUS
<1> USE DEF segment
<1>1. CASE Pairs
  BY <1>1 DEF Pairs, TypeInv
<1>2. CASE PopAgain
  BY <1>2 DEF PopAgain, TypeInv
<1>3. CASE Pop
  BY <1>3 DEF Pop, TypeInv
<1>4. CASE NextSegment
  <2>1. Len(query.path) \in Nat
    BY QueryFacts DEF TypeInv
  <2> QED
    BY <1>4, <2>1 DEF NextSegment, TypeInv
<1>5. CASE Return
  BY <1>5 DEF Return, TypeInv
<1>6. CASE FollowAgain
  BY <1>6 DEF FollowAgain, TypeInv
<1>7. CASE FollowReturns
  BY <1>7 DEF FollowReturns, TypeInv
<1>8. CASE UNCHANGED vars
  BY <1>8 DEF vars, TypeInv
<1> QED
  BY <1>1, <1>2, <1>3, <1>4, <1>5, <1>6, <1>7, <1>8, BeginType, FollowType DEF Next

\* No path is being followed at the start.
LEMMA InitType == Init => TypeInv
BY DEF Init, TypeInv

\* The segment the search is at, as the path's meaning has it.
LEMMA SegmentFacts ==
    ASSUME TypeInv, Followed(query), pc \in {"outer", "follow"}
    PROVE  /\ segment = InOrder(query)[idx] /\ segment.pattern \in Pattern
           /\ idx \in Nat /\ idx - 1 \in Nat /\ (idx - 1) + 1 = idx
           /\ query.start \in Key
           /\ Hashed(query) => segment.pred \in Predicate
<1>1. query \in Queries /\ query.path \in Seq(Segment) /\ query.start \in Key
  BY QueryFacts DEF TypeInv
<1>2. idx \in 1 .. Len(query.path) /\ path = InOrder(query) /\ Len(query.path) \in Nat
  BY <1>1, QueryFacts DEF TypeInv
<1>3. \E n \in 1 .. Len(query.path) : InOrder(query)[idx] = query.path[n]
  <2>1. CASE query.from = "object"
    <3>1. InOrder(query)[idx] = query.path[(Len(query.path) - idx) + 1]
      BY <1>2, <2>1 DEF InOrder, Reverse
    <3>2. (Len(query.path) - idx) + 1 \in 1 .. Len(query.path)
      BY <1>2
    <3> QED
      BY <3>1, <3>2
  <2>2. CASE query.from # "object"
    BY <1>2, <2>2 DEF InOrder
  <2> QED
    BY <2>1, <2>2
<1>4. PICK n \in 1 .. Len(query.path) : InOrder(query)[idx] = query.path[n]
  BY <1>3
<1>5. query.path[n] \in Segment /\ n \in DOMAIN query.path
  BY <1>1, <1>4
<1>6. segment = InOrder(query)[idx] /\ segment = query.path[n]
  BY <1>2, <1>4 DEF segment
<1>7. segment.pattern \in Pattern /\ (Hashed(query) => segment.pred \in Predicate)
  BY <1>5, <1>6 DEF Segment, Hashed
<1> QED
  BY <1>1, <1>2, <1>6, <1>7

\* What the segment leads to, in the terms of the meaning.
LEMMA TargetsAre ==
    ASSUME TypeInv, Followed(query), pc \in {"outer", "follow"}
    PROVE  /\ \A x \in Sources : \A y \in Key :
                 y \in Leads(db, query.from, segment, x) => y \in Targets
           /\ \A y \in Targets : \E x \in Sources : y \in Leads(db, query.from, segment, x)
           /\ Sources \subseteq Key /\ Targets \subseteq Key
<1> DEFINE n == idx - 1
<1>1. n \in Nat /\ n + 1 = idx /\ query.start \in Key /\ segment = InOrder(query)[n + 1]
  BY SegmentFacts
<1>2. Sources = WalkedTo(db, query, query.start, n)
      /\ Targets = WalkedTo(db, query, query.start, n + 1)
  BY <1>1 DEF Sources, Targets
<1> HIDE DEF n
<1>3. \A x \in WalkedTo(db, query, query.start, n) : \A y \in Key :
          y \in Leads(db, query.from, InOrder(query)[n + 1], x)
              => y \in WalkedTo(db, query, query.start, n + 1)
  BY <1>1, WalkOn
<1>4. \A y \in WalkedTo(db, query, query.start, n + 1) :
          \E x \in WalkedTo(db, query, query.start, n) :
              y \in Leads(db, query.from, InOrder(query)[n + 1], x)
  BY <1>1, WalkBack
<1>5. n + 1 \in Nat
  BY <1>1
<1>6. Sources \subseteq Key /\ Targets \subseteq Key
  BY <1>1, <1>2, <1>5, WalkedKeys
<1> QED
  BY <1>1, <1>2, <1>3, <1>4, <1>6

\* What one hop, and one entry of the extended index, find from a key the
\* segment is followed from.
LEMMA HopSound ==
    ASSUME TypeInv, Followed(query), pc \in {"outer", "follow"},
           NEW k \in Froms
    PROVE  /\ Edges(k) \subseteq Targets
           /\ segment.pattern \in {"zeroOne", "zeroPlus"} => k \in Targets
           /\ Repeats => PlusEdges(k) \subseteq Targets
<1> DEFINE E == Turned(db.edges, segment.pred, query.from)
           O == Turned(db.old, segment.pred, query.from)
<1>1. db \in Databases /\ segment.pattern \in Pattern
  BY SegmentFacts DEF TypeInv
<1>2. E \subseteq Key \X Key /\ O \subseteq E
  BY <1>1, TurnedEdges
<1>3. Edges(k) = Next1(E, k) /\ PlusEdges(k) = ReachPlus(O, k)
  BY DEF Edges, PlusEdges
<1>4. \A x : Leads(db, query.from, segment, x) =
          CASE segment.pattern = "single" -> Next1(E, x)
            [] segment.pattern = "zeroOne" -> {x} \cup Next1(E, x)
            [] segment.pattern = "zeroPlus" -> {x} \cup ReachPlus(E, x)
            [] segment.pattern = "onePlus" -> ReachPlus(E, x)
  BY DEF Leads
<1> HIDE DEF E, O
<1>5. \A x : Next1(E, x) \subseteq Key /\ ReachPlus(E, x) \subseteq Key
             /\ Next1(E, x) \subseteq ReachPlus(E, x)
  BY <1>2, LedToKeys, NextReached
<1>6. ReachPlus(O, k) \subseteq ReachPlus(E, k)
  BY <1>2, ReachMonotone
<1>7. CASE k \in Sources
  <2>1. k \in Key /\ \A y \in Key : y \in Leads(db, query.from, segment, k) => y \in Targets
    BY <1>7, TargetsAre
  <2>2. CASE segment.pattern \in {"single", "zeroOne"}
    BY <1>3, <1>4, <1>5, <2>1, <2>2 DEF Repeats
  <2>3. CASE segment.pattern \in {"zeroPlus", "onePlus"}
    BY <1>3, <1>4, <1>5, <1>6, <2>1, <2>3
  <2> QED
    BY <1>1, <2>2, <2>3 DEF Pattern
<1>8. CASE k \notin Sources
  <2>1. Repeats /\ k \in Targets
    BY <1>8 DEF Froms
  <2>2. PICK x \in Sources : k \in Leads(db, query.from, segment, x)
    BY <2>1, TargetsAre
  <2>3. k \in ReachPlus(E, x)
    <3>1. k # x
      BY <1>8
    <3>2. CASE segment.pattern = "zeroPlus"
      BY <1>4, <2>2, <3>1, <3>2
    <3>3. CASE segment.pattern = "onePlus"
      BY <1>4, <2>2, <3>3
    <3> QED
      BY <2>1, <3>2, <3>3 DEF Repeats
  <2>4. ReachPlus(E, k) \subseteq ReachPlus(E, x)
    BY <2>3, ReachedFurther
  <2>5. ReachPlus(E, x) \subseteq Leads(db, query.from, segment, x)
    BY <1>4, <2>1 DEF Repeats
  <2>6. ReachPlus(E, x) \subseteq Targets
    BY <1>5, <2>5, TargetsAre
  <2> QED
    BY <1>3, <1>5, <1>6, <2>1, <2>4, <2>6
<1> QED
  BY <1>7, <1>8

\* Within a segment its sources and targets do not change.
LEMMA SameSegment ==
    ASSUME UNCHANGED <<db, query, path, idx>>
    PROVE  /\ segment' = segment /\ Sources' = Sources /\ Targets' = Targets
           /\ Repeats' = Repeats /\ Froms' = Froms
           /\ \A k : Edges(k)' = Edges(k)
BY DEF segment, Sources, Targets, Repeats, Froms, Edges

\* The meaning of a path of one segment followed from neither end.
LEMMA PairsRight ==
    ASSUME TypeInv, Pairs, Followed(query)
    PROVE  result' = Answer(db, query)
<1>1. query \in Queries /\ query.from = "neither" /\ Len(query.path) = 1
      /\ query.path[1].pattern = "single" /\ db \in Databases
  BY DEF TypeInv, Pairs, Followed
<1> DEFINE E == Turned(db.edges, query.path[1].pred, query.from)
<1>2. Head(query.path) = query.path[1] /\ InOrder(query)[1] = query.path[1]
  BY <1>1, QueryFacts DEF InOrder
<1>3. \A x : Leads(db, query.from, query.path[1], x) = Next1(E, x)
  BY <1>1 DEF Leads
<1>4. \A x \in Key, y \in Key : y \in Meaning(db, query, x) <=> y \in Next1(E, x)
  <2> SUFFICES ASSUME NEW x \in Key, NEW y \in Key
               PROVE  y \in WalkedTo(db, query, x, 0 + 1) <=> y \in Next1(E, x)
    BY <1>1 DEF Meaning
  <2>1. WalkedTo(db, query, x, 0) = {x}
    BY WalkNone
  <2>2. InOrder(query)[0 + 1] = query.path[1]
    BY <1>2
  <2> HIDE DEF E
  <2>3. ASSUME y \in Next1(E, x) PROVE y \in WalkedTo(db, query, x, 0 + 1)
    BY <1>3, <2>1, <2>2, <2>3, WalkOn
  <2>4. ASSUME y \in WalkedTo(db, query, x, 0 + 1) PROVE y \in Next1(E, x)
    <3>1. \E z \in WalkedTo(db, query, x, 0) :
              y \in Leads(db, query.from, InOrder(query)[0 + 1], z)
      BY <2>4, WalkBack
    <3> QED
      BY <1>3, <2>1, <2>2, <3>1
  <2> QED
    BY <2>3, <2>4
<1>5. \A x \in Key, y \in Key :
          y \in Next1(E, x) <=> <<x, query.path[1].pred, y>> \in db.edges
  <2>1. db.edges \subseteq Key \X Predicate \X Key
    BY <1>1 DEF DatabaseType
  <2>2. E = {<<t[1], t[3]>> : t \in {u \in db.edges : u[2] = query.path[1].pred}}
    BY <1>1 DEF Turned
  <2> SUFFICES ASSUME NEW x \in Key, NEW y \in Key
               PROVE  y \in Next1(E, x) <=> <<x, query.path[1].pred, y>> \in db.edges
    OBVIOUS
  <2>3. ASSUME y \in Next1(E, x) PROVE <<x, query.path[1].pred, y>> \in db.edges
    <3>1. PICK e \in E : e[1] = x /\ e[2] = y
      BY <2>3 DEF Next1
    <3>2. PICK t \in db.edges : t[2] = query.path[1].pred /\ e = <<t[1], t[3]>>
      BY <2>2, <3>1
    <3>3. t = <<t[1], t[2], t[3]>>
      BY <2>1, <3>2
    <3> QED
      BY <3>1, <3>2, <3>3
  <2>4. ASSUME <<x, query.path[1].pred, y>> \in db.edges PROVE y \in Next1(E, x)
    <3>1. <<x, y>> \in E
      BY <2>2, <2>4
    <3> QED
      BY <3>1 DEF Next1
  <2> QED
    BY <2>3, <2>4
<1>6. result' = {e \in Key \X Key : <<e[1], query.path[1].pred, e[2]>> \in db.edges}
  BY <1>2 DEF Pairs
<1>7. Answer(db, query) = {so \in Key \X Key : so[2] \in Meaning(db, query, so[1])}
  BY <1>1 DEF Answer
<1> HIDE DEF E
<1> QED
  BY <1>4, <1>5, <1>6, <1>7

-----------------------------------------------------------------------------
(* Soundness.                                                              *)

\* The search starts from the key the query names, the path reversed from an object.
LEMMA BeginSound ==
    ASSUME TypeInv, SoundInv, Begin
    PROVE  SoundInv'
<1>1. query.start \in Key /\ query' = query /\ db' = db /\ idx' = 1 /\ pc' = "outer"
      /\ stack' = {query.start} /\ reachable' = {}
  BY QueryFacts DEF Begin, TypeInv
<1>2. Sources' = {query.start}
  <2>1. Sources' = WalkedTo(db, query, query.start, 0)
    BY <1>1 DEF Sources
  <2> QED
    BY <1>1, <2>1, WalkNone
<1> QED
  BY <1>1, <1>2 DEF SoundInv, Froms

\* getSubjectObjectFromPred returns the edges of the predicate.
LEMMA PairsSound ==
    ASSUME TypeInv, SoundInv, Pairs
    PROVE  SoundInv'
BY PairsRight DEF SoundInv, Pairs

\* Taking a key off the list leaves keys that were led to.
LEMMA PopSound ==
    ASSUME TypeInv, SoundInv, PopAgain \/ Pop \/ FollowAgain \/ FollowReturns
    PROVE  SoundInv'
<1>1. UNCHANGED <<db, query, path, idx, reachable>> /\ pc \in {"outer", "follow"}
      /\ pc' \in {"outer", "follow"}
  BY DEF PopAgain, Pop, FollowAgain, FollowReturns
<1>2. Froms' = Froms /\ Targets' = Targets
  BY <1>1, SameSegment
<1>3. ASSUME Followed(query)
      PROVE  stack' \subseteq Froms /\ (pc' = "follow" => inner' \subseteq Froms)
  BY <1>3 DEF PopAgain, Pop, FollowAgain, FollowReturns, SoundInv
<1> QED
  BY <1>1, <1>2, <1>3 DEF SoundInv

\* What an edge or an index entry adds is led to by the path so far.
LEMMA FollowSound ==
    ASSUME TypeInv, SoundInv, NEW k \in inner,
           FollowOnce(k) \/ FollowIndex(k) \/ FollowEdges(k)
    PROVE  SoundInv'
<1>1. UNCHANGED <<db, query, path, idx>> /\ pc = "follow" /\ pc' \in {"outer", "follow"}
  BY DEF FollowOnce, FollowIndex, FollowEdges, Visit
<1>2. Froms' = Froms /\ Targets' = Targets
  BY <1>1, SameSegment
<1>3. ASSUME Followed(query)
      PROVE  stack' \subseteq Froms /\ inner' \subseteq Froms /\ reachable' \subseteq Targets
  <2>1. k \in Froms /\ stack \subseteq Froms /\ inner \subseteq Froms /\ reachable \subseteq Targets
    BY <1>1, <1>3 DEF SoundInv
  <2>2. /\ Edges(k) \subseteq Targets
        /\ segment.pattern \in {"zeroOne", "zeroPlus"} => k \in Targets
        /\ Repeats => PlusEdges(k) \subseteq Targets
    BY <1>1, <1>3, <2>1, HopSound
  <2>3. Self(k) \subseteq Targets
    BY <2>2 DEF Self
  <2>4. CASE FollowOnce(k)
    BY <2>1, <2>2, <2>4 DEF FollowOnce
  <2>5. CASE FollowIndex(k)
    BY <2>1, <2>2, <2>3, <2>5 DEF FollowIndex, Repeats
  <2>6. CASE FollowEdges(k)
    <3>1. Targets \subseteq Froms
      BY <2>6 DEF FollowEdges, Froms, Repeats
    <3> QED
      BY <2>1, <2>2, <2>3, <2>6, <3>1 DEF FollowEdges
  <2> QED
    BY <2>4, <2>5, <2>6
<1> QED
  BY <1>1, <1>2, <1>3 DEF SoundInv

\* What the segment led to is where the next one starts.
LEMMA NextSources ==
    ASSUME TypeInv, NextSegment
    PROVE  Sources' = Targets
<1>1. idx \in Nat /\ idx' = idx + 1 /\ UNCHANGED <<db, query>>
  BY DEF TypeInv, NextSegment
<1>2. idx' - 1 = idx
  BY <1>1
<1> QED
  BY <1>1, <1>2 DEF Sources, Targets

\* The targets of a segment are the start of the next.
LEMMA NextSegmentSound ==
    ASSUME TypeInv, SoundInv, NextSegment
    PROVE  SoundInv'
BY NextSources DEF SoundInv, NextSegment, Froms

\* After the last segment the targets are what the path leads to.
LEMMA LastTargets ==
    ASSUME TypeInv, Return
    PROVE  Targets = Answer(db, query)
<1>1. idx = Len(query.path) /\ query.from # "neither"
  BY DEF TypeInv, Return
<1> QED
  BY <1>1 DEF Targets, Answer, Meaning

\* The keys returned are the targets of the last segment.
LEMMA ReturnSound ==
    ASSUME TypeInv, SoundInv, Return
    PROVE  SoundInv'
BY LastTargets DEF SoundInv, Return

\* Every step finds keys the path leads to and no others.
LEMMA NextSound == TypeInv /\ SoundInv /\ [Next]_vars => SoundInv'
<1> SUFFICES ASSUME TypeInv, SoundInv, [Next]_vars PROVE SoundInv'
  OBVIOUS
<1>1. CASE UNCHANGED vars
  <2>1. Froms' = Froms /\ Targets' = Targets
    BY <1>1, SameSegment DEF vars
  <2> QED
    BY <1>1, <2>1 DEF vars, SoundInv
<1>2. CASE Next
  BY <1>2, BeginSound, PairsSound, PopSound, FollowSound, NextSegmentSound, ReturnSound DEF Next
<1> QED
  BY <1>1, <1>2

\* Nothing has been found at the start.
LEMMA InitSound == Init => SoundInv
BY DEF Init, SoundInv

\* Over every graph, and whatever the age of the extended index's entries, a
\* search that takes every segment into account returns only keys the path leads
\* to: each list holds keys that the segments so far lead to.
THEOREM PathsAlwaysSound == Spec => []PathsSound
<1>1. SoundInv => PathsSound
  BY DEF SoundInv, PathsSound
<1> QED
  BY <1>1, InitType, NextType, InitSound, NextSound, PTL DEF Spec

-----------------------------------------------------------------------------
(* Completeness.                                                           *)

\* The searches the property speaks of.
Fresh == Followed(query) /\ Hashed(query) /\ db.old = db.edges

\* While graph, query and place stay, what is done with a key stays done.
LEMMA SameFresh ==
    ASSUME UNCHANGED <<db, query, path, idx>>
    PROVE  /\ Fresh' = Fresh
           /\ reachable \subseteq reachable' =>
                  \A k : (DoneWith(k) => DoneWith(k)') /\ (Covered(k) => Covered(k)')
<1>1. segment' = segment /\ \A k : Edges(k)' = Edges(k)
  BY SameSegment
<1> QED
  BY <1>1 DEF Fresh, DoneWith, Covered

\* The key the query names has still to be looked at.
LEMMA BeginComplete ==
    ASSUME TypeInv, CompleteInv, Begin
    PROVE  CompleteInv'
<1>1. query.start \in Key /\ query' = query /\ db' = db /\ idx' = 1 /\ pc' = "outer"
      /\ stack' = {query.start} /\ reachable' = {} /\ traversed' = {}
  BY QueryFacts DEF Begin, TypeInv
<1>2. Sources' = {query.start}
  <2>1. Sources' = WalkedTo(db, query, query.start, 0)
    BY <1>1 DEF Sources
  <2> QED
    BY <1>1, <2>1, WalkNone
<1> QED
  BY <1>1, <1>2 DEF CompleteInv

\* getSubjectObjectFromPred misses no edge of the predicate.
LEMMA PairsComplete ==
    ASSUME TypeInv, CompleteInv, Pairs
    PROVE  CompleteInv'
BY PairsRight DEF CompleteInv, Pairs

\* The outer loop: a key taken from its list is traversed, and done with unless
\* it is followed next.
LEMMA PopComplete ==
    ASSUME TypeInv, CompleteInv, PopAgain \/ Pop
    PROVE  CompleteInv'
<1>1. UNCHANGED <<db, query, path, idx, reachable>> /\ pc = "outer"
      /\ pc' \in {"outer", "follow"}
  BY DEF PopAgain, Pop
<1>2. Sources' = Sources /\ Repeats' = Repeats /\ Fresh' = Fresh
      /\ \A k : (DoneWith(k) => DoneWith(k)') /\ (Covered(k) => Covered(k)')
  BY <1>1, SameSegment, SameFresh
<1> SUFFICES ASSUME Fresh
             PROVE  /\ Sources \subseteq stack' \cup traversed'
                    /\ \A k \in traversed' : DoneWith(k)'
                           \/ (pc' = "follow" /\ innerTraversed' = {} /\ inner' = {k})
                    /\ Repeats => \A k \in reachable :
                           k \in stack' \cup traversed' \/ Covered(k)'
                    /\ pc' = "follow" => inner' \subseteq reachable \cup traversed'
  BY <1>1, <1>2 DEF CompleteInv, Fresh
<1>3. /\ Sources \subseteq stack \cup traversed
      /\ \A k \in traversed : DoneWith(k)
      /\ Repeats => \A k \in reachable : k \in stack \cup traversed \/ Covered(k)
  BY <1>1 DEF CompleteInv, Fresh
<1>4. CASE PopAgain
  <2>1. PICK k \in stack \cap traversed : stack' = stack \ {k}
    BY <1>4 DEF PopAgain
  <2>2. traversed' = traversed /\ pc' = "outer"
    BY <1>4 DEF PopAgain
  <2> QED
    BY <1>2, <1>3, <2>1, <2>2
<1>5. CASE Pop
  <2>1. PICK k \in stack \ traversed :
            stack' = stack \ {k} /\ traversed' = traversed \cup {k} /\ inner' = {k}
    BY <1>5 DEF Pop
  <2>2. segment.pred \in Predicate
    BY <1>1, SegmentFacts DEF Fresh
  <2>3. innerTraversed' = {} /\ pc' = "follow"
    BY <1>5, <2>2 DEF Pop
  <2> QED
    BY <1>2, <1>3, <2>1, <2>3
<1> QED
  BY <1>4, <1>5

\* The inner loop passes over a visited key, or ends.
LEMMA FollowAgainComplete ==
    ASSUME TypeInv, CompleteInv, FollowAgain \/ FollowReturns
    PROVE  CompleteInv'
<1>1. UNCHANGED <<db, query, path, idx, stack, traversed, reachable, innerTraversed>>
      /\ pc = "follow" /\ pc' \in {"outer", "follow"}
  BY DEF FollowAgain, FollowReturns
<1>2. Sources' = Sources /\ Repeats' = Repeats /\ Fresh' = Fresh
      /\ \A k : (DoneWith(k) => DoneWith(k)') /\ (Covered(k) => Covered(k)')
  BY <1>1, SameSegment, SameFresh
<1>3. innerTraversed # {} \/ inner = {}
  BY DEF FollowAgain, FollowReturns
<1>4. inner' \subseteq inner
  BY DEF FollowAgain, FollowReturns
<1>5. Fresh => \A k \in traversed : DoneWith(k)
  BY <1>1, <1>3 DEF CompleteInv, Fresh
<1> QED
  BY <1>1, <1>2, <1>4, <1>5 DEF CompleteInv, Fresh

\* A key is visited: after it, all that is traversed is done with.
LEMMA FollowComplete ==
    ASSUME TypeInv, CompleteInv, NEW k \in inner,
           FollowOnce(k) \/ FollowIndex(k) \/ FollowEdges(k)
    PROVE  CompleteInv'
<1> DEFINE E == Turned(db.edges, segment.pred, query.from)
<1>1. UNCHANGED <<db, query, path, idx, traversed>> /\ pc = "follow"
      /\ pc' \in {"outer", "follow"}
      /\ reachable \subseteq reachable' /\ stack \subseteq stack'
  BY DEF FollowOnce, FollowIndex, FollowEdges, Visit
<1>2. Sources' = Sources /\ Repeats' = Repeats /\ Fresh' = Fresh /\ segment' = segment
      /\ (\A n : (DoneWith(n) => DoneWith(n)') /\ (Covered(n) => Covered(n)'))
      /\ (\A n : Edges(n)' = Edges(n))
  BY <1>1, SameSegment, SameFresh
<1>3. \A n : Edges(n) = Next1(E, n)
  BY DEF Edges
<1>4. \A n : Covered(n)' <=> ReachPlus(E, n) \subseteq reachable'
  BY <1>1, <1>2 DEF Covered
<1> SUFFICES ASSUME Fresh
             PROVE  /\ \A n \in traversed : DoneWith(n)'
                    /\ Repeats => \A n \in reachable' : n \in stack' \cup traversed \/ Covered(n)'
                    /\ pc' = "follow" => inner' \subseteq reachable' \cup traversed
  BY <1>1, <1>2 DEF CompleteInv, Fresh
<1>5. /\ \A n \in traversed : DoneWith(n) \/ inner = {n}
      /\ Repeats => \A n \in reachable : n \in stack \cup traversed \/ Covered(n)
      /\ inner \subseteq reachable \cup traversed
  BY <1>1 DEF CompleteInv, Fresh
<1>6. Repeats => PlusEdges(k) = ReachPlus(E, k)
  BY DEF PlusEdges, Fresh
<1> HIDE DEF E
<1>7. Edges(k) \subseteq ReachPlus(E, k)
  BY <1>3, NextReached
<1>8. Edges(k) \subseteq reachable'
      /\ (segment.pattern \in {"zeroOne", "zeroPlus"} => k \in reachable')
  <2>1. CASE FollowOnce(k)
    BY <2>1 DEF FollowOnce
  <2>2. CASE FollowIndex(k)
    BY <1>6, <1>7, <2>2 DEF FollowIndex, Self, Repeats
  <2>3. CASE FollowEdges(k)
    BY <2>3 DEF FollowEdges, Self
  <2> QED
    BY <2>1, <2>2, <2>3
<1>9. DoneWith(k)'
  BY <1>2, <1>8 DEF DoneWith
<1>10. \A n \in traversed : DoneWith(n)'
  BY <1>2, <1>5, <1>9
<1>11. ASSUME Repeats, NEW n \in reachable'
       PROVE  n \in stack' \cup traversed \/ Covered(n)'
  <2>1. CASE n \in reachable
    BY <1>1, <1>2, <1>5, <1>11, <2>1
  <2>2. CASE n = k
    <3>1. k \in reachable \/ k \in traversed
      BY <1>5
    <3> QED
      BY <2>1, <2>2, <3>1
  <2>3. CASE n \notin reachable /\ n # k
    <3>1. CASE FollowOnce(k)
      BY <1>11, <3>1 DEF FollowOnce, Repeats
    <3>2. CASE FollowIndex(k)
      <4>1. n \in ReachPlus(E, k) /\ ReachPlus(E, k) \subseteq reachable'
        BY <1>6, <1>11, <2>3, <3>2 DEF FollowIndex, Self
      <4>2. ReachPlus(E, n) \subseteq ReachPlus(E, k)
        BY <4>1, ReachedFurther
      <4> QED
        BY <1>4, <4>1, <4>2
    <3>3. CASE FollowEdges(k)
      BY <2>3, <3>3 DEF FollowEdges, Self
    <3> QED
      BY <3>1, <3>2, <3>3
  <2> QED
    BY <2>1, <2>2, <2>3
<1>12. inner' \subseteq reachable' \cup traversed
  <2>1. inner' \subseteq inner \cup Edges(k)
    BY DEF FollowOnce, FollowIndex, FollowEdges
  <2> QED
    BY <1>1, <1>5, <1>8, <2>1
<1> QED
  BY <1>10, <1>11, <1>12

\* When the list of the outer loop is empty, the segment has led to all it can.
LEMMA SegmentComplete ==
    ASSUME TypeInv, CompleteInv, Fresh, pc = "outer", stack = {}
    PROVE  Targets \subseteq reachable
<1> DEFINE E == Turned(db.edges, segment.pred, query.from)
<1>1. Followed(query) /\ segment.pattern \in Pattern
  BY SegmentFacts DEF Fresh
<1>2. /\ Sources \subseteq traversed
      /\ \A k \in traversed : DoneWith(k)
      /\ Repeats => \A k \in reachable : k \in traversed \/ Covered(k)
  BY DEF CompleteInv, Fresh
<1>3. \A k : Edges(k) = Next1(E, k)
  BY DEF Edges
<1>4. \A k : Covered(k) <=> ReachPlus(E, k) \subseteq reachable
  BY DEF Covered
<1>5. \A x : Leads(db, query.from, segment, x) =
          CASE segment.pattern = "single" -> Next1(E, x)
            [] segment.pattern = "zeroOne" -> {x} \cup Next1(E, x)
            [] segment.pattern = "zeroPlus" -> {x} \cup ReachPlus(E, x)
            [] segment.pattern = "onePlus" -> ReachPlus(E, x)
  BY DEF Leads
<1> HIDE DEF E
<1> SUFFICES ASSUME NEW y \in Targets PROVE y \in reachable
  OBVIOUS
<1>6. PICK x \in Sources : y \in Leads(db, query.from, segment, x)
  BY <1>1, TargetsAre
<1>7. Next1(E, x) \subseteq reachable
      /\ (segment.pattern \in {"zeroOne", "zeroPlus"} => x \in reachable)
  BY <1>2, <1>3 DEF DoneWith
<1>8. Repeats => ReachPlus(E, x) \subseteq reachable
  <2>1. Repeats => \A k \in reachable :
            Next1(E, k) \subseteq reachable \/ ReachPlus(E, k) \subseteq reachable
    BY <1>2, <1>3, <1>4 DEF DoneWith
  <2> QED
    BY <1>7, <2>1, ClosedReached
<1>9. CASE segment.pattern = "single"
  BY <1>5, <1>6, <1>7, <1>9
<1>10. CASE segment.pattern = "zeroOne"
  BY <1>5, <1>6, <1>7, <1>10
<1>11. CASE segment.pattern = "zeroPlus"
  BY <1>5, <1>6, <1>7, <1>8, <1>11 DEF Repeats
<1>12. CASE segment.pattern = "onePlus"
  BY <1>5, <1>6, <1>8, <1>12 DEF Repeats
<1> QED
  BY <1>1, <1>9, <1>10, <1>11, <1>12 DEF Pattern

\* A segment is left only when all it leads to was found.
LEMMA NextSegmentComplete ==
    ASSUME TypeInv, CompleteInv, NextSegment
    PROVE  CompleteInv'
<1>1. pc = "outer" /\ pc' = "outer" /\ stack = {} /\ stack' = reachable /\ traversed' = {}
      /\ reachable' = {} /\ UNCHANGED <<db, query>>
  BY DEF NextSegment
<1>2. Fresh => Targets \subseteq reachable
  BY <1>1, SegmentComplete
<1>3. Sources' = Targets
  BY NextSources
<1> QED
  BY <1>1, <1>2, <1>3 DEF CompleteInv, Fresh

\* The last segment is left only when all it leads to was found.
LEMMA ReturnComplete ==
    ASSUME TypeInv, CompleteInv, Return
    PROVE  CompleteInv'
<1>1. pc = "outer" /\ pc' = "returned" /\ stack = {} /\ result' = reachable
      /\ UNCHANGED <<db, query>>
  BY DEF Return
<1>2. Fresh => Answer(db, query) \subseteq reachable
  BY <1>1, SegmentComplete, LastTargets
<1> QED
  BY <1>1, <1>2 DEF CompleteInv, Fresh

\* Every step finds a key or leaves it to be found by a later one.
LEMMA NextComplete == TypeInv /\ CompleteInv /\ [Next]_vars => CompleteInv'
<1> SUFFICES ASSUME TypeInv, CompleteInv, [Next]_vars PROVE CompleteInv'
  OBVIOUS
<1>1. CASE UNCHANGED vars
  <2>1. Sources' = Sources /\ Repeats' = Repeats
        /\ \A k : (DoneWith(k) => DoneWith(k)') /\ (Covered(k) => Covered(k)')
    BY <1>1, SameSegment, SameFresh DEF vars
  <2> QED
    BY <1>1, <2>1 DEF vars, CompleteInv
<1>2. CASE Next
  BY <1>2, BeginComplete, PairsComplete, PopComplete, FollowAgainComplete, FollowComplete,
     NextSegmentComplete, ReturnComplete DEF Next
<1> QED
  BY <1>1, <1>2

\* Nothing has to be found at the start.
LEMMA InitComplete == Init => CompleteInv
BY DEF Init, CompleteInv

\* Over every graph, when the entries that there are are up to date, the search
\* misses nothing: all that p* and p+ have reached is followed in its turn, or
\* covered by an entry, although the inner loop drops its list at an entry.
THEOREM PathsAlwaysComplete == Spec => []PathsComplete
<1>1. CompleteInv => PathsComplete
  BY DEF CompleteInv, PathsComplete
<1> QED
  BY <1>1, InitType, NextType, InitComplete, NextComplete, PTL DEF Spec
=============================================================================
