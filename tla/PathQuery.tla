------------------------------ MODULE PathQuery ------------------------------
(***************************************************************************)
(* How a query follows a property path (db/traversal.go): from a known     *)
(* subject along out edges (getObjectFromSubjectPred), from a known object *)
(* along in edges (getSubjectFromPredObject), or with neither end known    *)
(* (getSubjectObjectFromPred).  A path is a sequence of segments, each a   *)
(* predicate under one of the patterns p, p?, p* and p+.                   *)
(*                                                                         *)
(* The outer loop keeps a list of entities to search a segment from; for   *)
(* each of them followPathFromSubject or followPathFromObject runs a       *)
(* search of its own, with a list and a set of visited keys of its own,    *)
(* and for p* and p+ also appends to the list of the outer loop.  Both     *)
(* lists are sets here, from which any member may be taken: a repeated     *)
(* member is skipped as already traversed, and the order within an edge    *)
(* list depends on the order of inserts.                                   *)
(*                                                                         *)
(* The snapshot does not change under a search (SnapshotCache is about     *)
(* that), so a behaviour is one search over one fixed database.            *)
(***************************************************************************)
EXTENDS Naturals, Sequences, FiniteSets, SequencesExt, Reachability

CONSTANTS
    Key,        \* entities
    Predicate,  \* predicates that have a hash
    Blank,      \* the zero turtle.URI, which has none
    Databases,  \* records [edges, old, indexed], see DatabaseType
    Queries     \* records [from, start, path]

Pattern == {"single", "zeroOne", "zeroPlus", "onePlus"}
Segment == [pred : Predicate \cup {Blank}, pattern : Pattern]
Side == {"subject", "object", "neither"}

\* edges: the triples of the graph store.  indexed: the <<key, predicate>>
\* pairs the extended index has an entry for.  old: the triples there were
\* when those entries were last computed; an entry is sound and may be stale.
DatabaseType == [edges : SUBSET (Key \X Predicate \X Key),
                 old : SUBSET (Key \X Predicate \X Key),
                 indexed : SUBSET (Key \X Predicate)]

ASSUME PathKeyAssumption == IsFiniteSet(Key)
ASSUME BlankAssumption == Blank \notin Predicate
ASSUME DatabasesAssumption ==
    \A d \in Databases : d \in DatabaseType /\ d.old \subseteq d.edges
ASSUME QueriesAssumption ==
    /\ Queries \subseteq [from : Side, start : Key, path : Seq(Segment)]
    /\ \A q \in Queries : q.path # <<>>

VARIABLES
    db,         \* what the query reads
    query,      \* what it asks
    pc,         \* "called", "outer", "follow" or "returned"
    path,       \* the segments in the order the loop takes them
    idx,        \* the segment the outer loop is at
    stack, traversed,   \* of the outer loop
    reachable,  \* what the segment has reached so far
    inner, innerTraversed,  \* list and visited keys of followPathFrom...
    result      \* what is returned: keys, or pairs of keys

vars == <<db, query, pc, path, idx, stack, traversed, reachable, inner,
          innerTraversed, result>>

-----------------------------------------------------------------------------
\* What a path means

\* The pairs a predicate joins, turned the way the search walks.
Turned(triples, p, from) ==
    LET E == {t \in triples : t[2] = p}
    IN  IF from = "object" THEN {<<t[3], t[1]>> : t \in E}
                           ELSE {<<t[1], t[3]>> : t \in E}

Next1(E, k) == {e[2] : e \in {e \in E : e[1] = k}}

\* The keys one segment leads to from a key.
Leads(d, from, seg, k) ==
    LET E == Turned(d.edges, seg.pred, from)
    IN  CASE seg.pattern = "single" -> Next1(E, k)
          [] seg.pattern = "zeroOne" -> {k} \cup Next1(E, k)
          [] seg.pattern = "zeroPlus" -> {k} \cup ReachPlus(E, k)
          [] seg.pattern = "onePlus" -> ReachPlus(E, k)

\* The segments in the order they are walked: from the object's side the last
\* one first.
InOrder(q) == IF q.from = "object" THEN Reverse(q.path) ELSE q.path

\* The walks over the first n segments from key k.
Walks(d, q, k, n) ==
    {w \in [0 .. n -> Key] :
        w[0] = k /\ \A m \in 1 .. n : w[m] \in Leads(d, q.from, InOrder(q)[m], w[m - 1])}

WalkedTo(d, q, k, n) == {w[n] : w \in Walks(d, q, k, n)}

\* The keys a path leads to.
Meaning(d, q, k) == WalkedTo(d, q, k, Len(q.path))

\* What the query should return.
Answer(d, q) ==
    IF q.from = "neither"
    THEN {so \in Key \X Key : so[2] \in Meaning(d, q, so[1])}
    ELSE Meaning(d, q, q.start)

-----------------------------------------------------------------------------
\* The search

Init ==
    /\ db \in Databases
    /\ query \in Queries
    /\ pc = "called"
    /\ path = << >>
    /\ idx = 0
    /\ stack = {} /\ traversed = {} /\ reachable = {}
    /\ inner = {} /\ innerTraversed = {}
    /\ result = {}

\* reversePath: swaps the ends inwards into a new slice, whose middle element
\* stays the zero value unless the path is a single segment.
reversePath(p) ==
    LET n == Len(p)
    IN  [i \in 1..n |->
            IF n # 1 /\ 2 * i = n + 1
            THEN [pred |-> Blank, pattern |-> "single"]
            ELSE p[n + 1 - i]]

\* getObjectFromSubjectPred and getSubjectFromPredObject up to their loop.
Begin ==
    /\ pc = "called"
    /\ query.from # "neither"
    /\ path' = IF query.from = "object" THEN reversePath(query.path)
                                        ELSE query.path
    /\ idx' = 1
    /\ stack' = {query.start}
    /\ pc' = "outer"
    /\ UNCHANGED <<db, query, traversed, reachable, inner, innerTraversed, result>>

\* getSubjectObjectFromPred: the pairs of the first predicate, as they are.
Pairs ==
    /\ pc = "called"
    /\ query.from = "neither"
    /\ result' = {e \in Key \X Key : <<e[1], Head(query.path).pred, e[2]>> \in db.edges}
    /\ pc' = "returned"
    /\ UNCHANGED <<db, query, path, idx, stack, traversed, reachable, inner,
                   innerTraversed>>

segment == path[idx]

\* The outer loop takes an entity it has searched from already.
PopAgain ==
    /\ pc = "outer"
    /\ \E k \in stack \cap traversed : stack' = stack \ {k}
    /\ UNCHANGED <<db, query, pc, path, idx, traversed, reachable, inner,
                   innerTraversed, result>>

\* It takes another one and follows the segment from it.  A predicate without
\* a hash is an error, which the outer loop does not look at.
Pop ==
    /\ pc = "outer"
    /\ \E k \in stack \ traversed :
        /\ stack' = stack \ {k}
        /\ traversed' = traversed \cup {k}
        /\ inner' = {k}
    /\ innerTraversed' = {}
    /\ pc' = IF segment.pred \in Predicate THEN "follow" ELSE "outer"
    /\ UNCHANGED <<db, query, path, idx, reachable, result>>

\* InEdges or OutEdges of an entity, and the entry of the extended index.
Edges(k) == Next1(Turned(db.edges, segment.pred, query.from), k)
HasEntry(k) == <<k, segment.pred>> \in db.indexed
PlusEdges(k) == ReachPlus(Turned(db.old, segment.pred, query.from), k)

Visit(k) ==
    /\ pc = "follow"
    /\ k \in inner \ innerTraversed
    /\ innerTraversed' = innerTraversed \cup {k}

FollowAgain ==
    /\ pc = "follow"
    /\ \E k \in inner \cap innerTraversed : inner' = inner \ {k}
    /\ UNCHANGED <<db, query, pc, path, idx, stack, traversed, reachable,
                   innerTraversed, result>>

\* PATTERN_SINGLE and PATTERN_ZERO_ONE: one hop, nothing is added to a list.
FollowOnce(k) ==
    /\ segment.pattern \in {"single", "zeroOne"}
    /\ Visit(k)
    /\ reachable' = reachable \cup Edges(k)
                      \cup (IF segment.pattern = "zeroOne" THEN {k} ELSE {})
    /\ inner' = inner \ {k}
    /\ UNCHANGED <<db, query, pc, path, idx, stack, traversed, result>>

Self(k) == IF segment.pattern = "zeroPlus" THEN {k} ELSE {}

\* PATTERN_ZERO_PLUS and PATTERN_ONE_PLUS, with an entry in the extended
\* index: it is taken for the whole answer, and what is left in the list of
\* this search is dropped.
FollowIndex(k) ==
    /\ segment.pattern \in {"zeroPlus", "onePlus"}
    /\ Visit(k)
    /\ HasEntry(k)
    /\ reachable' = reachable \cup Self(k) \cup PlusEdges(k)
    /\ inner' = {}
    /\ pc' = "outer"
    /\ UNCHANGED <<db, query, path, idx, stack, traversed, result>>

\* Slips: what a plausible bug would make of the definition after it.  No
\* specification uses them; they show that the properties can fail.
SlipFollowEdges(k) ==
    /\ segment.pattern \in {"zeroPlus", "onePlus"}
    /\ Visit(k)
    /\ ~HasEntry(k)
    /\ reachable' = reachable \cup Self(k) \cup Edges(k)
    /\ inner' = (inner \ {k}) \cup Edges(k)
    /\ UNCHANGED <<db, query, pc, path, idx, stack, traversed, result>>

SlipFollowForever(k) ==
    /\ segment.pattern \in {"zeroPlus", "onePlus"}
    /\ pc = "follow"
    /\ k \in inner
    /\ ~HasEntry(k)
    /\ reachable' = reachable \cup Self(k) \cup Edges(k)
    /\ inner' = (inner \ {k}) \cup Edges(k)
    /\ UNCHANGED <<db, query, pc, path, idx, stack, traversed, innerTraversed, result>>

\* The same without an entry: every neighbour goes to the list of this search
\* and to that of the outer loop, for p* unless it was reached before.
FollowEdges(k) ==
    /\ segment.pattern \in {"zeroPlus", "onePlus"}
    /\ Visit(k)
    /\ ~HasEntry(k)
    /\ reachable' = reachable \cup Self(k) \cup Edges(k)
    /\ stack' = stack \cup
         (IF segment.pattern = "zeroPlus" THEN Edges(k) \ (reachable \cup Self(k))
                                          ELSE Edges(k))
    /\ inner' = (inner \ {k}) \cup Edges(k)
    /\ UNCHANGED <<db, query, pc, path, idx, traversed, result>>

FollowReturns ==
    /\ pc = "follow"
    /\ inner = {}
    /\ pc' = "outer"
    /\ UNCHANGED <<db, query, path, idx, stack, traversed, reachable, inner,
                   innerTraversed, result>>

\* What the segment reached is where the next one starts.
SlipNextSegment ==
    /\ pc = "outer"
    /\ stack = {}
    /\ idx < Len(path)
    /\ idx' = idx + 1
    /\ stack' = reachable
    /\ traversed' = {}
    /\ UNCHANGED <<db, query, pc, path, reachable, inner, innerTraversed, result>>

NextSegment ==
    /\ pc = "outer"
    /\ stack = {}
    /\ idx < Len(path)
    /\ idx' = idx + 1
    /\ stack' = reachable
    /\ traversed' = {}
    /\ reachable' = {}
    /\ UNCHANGED <<db, query, pc, path, inner, innerTraversed, result>>

Return ==
    /\ pc = "outer"
    /\ stack = {}
    /\ idx = Len(path)
    /\ result' = reachable
    /\ pc' = "returned"
    /\ UNCHANGED <<db, query, path, idx, stack, traversed, reachable, inner,
                   innerTraversed>>

Next ==
    \/ Begin \/ Pairs
    \/ PopAgain \/ Pop \/ NextSegment \/ Return
    \/ FollowAgain \/ FollowReturns
    \/ \E k \in inner : FollowOnce(k) \/ FollowIndex(k) \/ FollowEdges(k)

\* One goroutine runs the search and nothing in it waits.
Spec == Init /\ [][Next]_vars /\ WF_vars(Next)

-----------------------------------------------------------------------------
\* Properties

\* The forms the search gets wrong: with neither end known only the first
\* predicate counts, and only as a single hop; from the object's side the
\* middle of an odd path is lost.
Followed(q) ==
    CASE q.from = "subject" -> TRUE
      [] q.from = "object" -> Len(q.path) = 1 \/ Len(q.path) % 2 = 0
      [] q.from = "neither" -> Len(q.path) = 1 /\ q.path[1].pattern = "single"

\* Whatever the age of the extended index's entries, and whichever of them are
\* missing, a search that took every segment into account returns only keys the
\* path leads to: entries taken for the whole answer, lists shared between
\* searches and visited keys carried over never add one.
PathsSound ==
    pc = "returned" /\ Followed(query) => result \subseteq Answer(db, query)

\* A predicate without a hash ends the search of a segment at once, even where
\* p? and p* would stay at the key.
Hashed(q) == \A i \in DOMAIN q.path : q.path[i].pred \in Predicate

\* When the entries that there are are up to date the search misses nothing,
\* although it returns at the first entry it meets and drops its own list: what
\* it dropped is in the list of the outer loop.
PathsComplete ==
    pc = "returned" /\ Followed(query) /\ Hashed(query) /\ db.old = db.edges
        => Answer(db, query) \subseteq result

\* A search over any graph, cyclic or not, ends.
SearchEnds == <>(pc = "returned")

\* NOTES.md, Property Paths: "`path1/path2` (matches `path1` followed by
\* `path2`)", from whichever side the path is searched.
SequencesFollowed ==
    pc = "returned" /\ db.old = db.edges => result = Answer(db, query)
=============================================================================
