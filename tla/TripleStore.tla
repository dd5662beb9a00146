----------------------------- MODULE TripleStore -----------------------------
(***************************************************************************)
(* The write path of one HodDB database (db/transaction.go): a transaction *)
(* over five leveldb stores that adds a batch of triples, materialises the *)
(* owl:inverseOf edges, rolls the transitive edges of the touched          *)
(* predicates into the extended index, and then commits the stores one     *)
(* after the other.                                                        *)
(*                                                                         *)
(* A triple is <<subject, predicate, object>>.  An edge list of the graph  *)
(* store, a map of the predicate store and a "plus" list of the extended   *)
(* index are each a set of triples:                                        *)
(*   graph.out  t : OutEdges[t[2]] of entity t[1] lists t[3]               *)
(*   graph.in   t : InEdges[t[2]] of entity t[3] lists t[1]                *)
(*   pred       t : Subjects[t[1]] of predicate t[2] has t[3] (and Objects)*)
(*   ext.outp   t : OutPlusEdges[t[2]] of index t[1] lists t[3]            *)
(*   ext.inp    t : InPlusEdges[t[2]] of index t[3] lists t[1]             *)
(* A URI and its hash are one Key.  Opening a second transaction waits for *)
(* the first one to commit or discard (leveldb allows one per store), so   *)
(* one transaction is in flight at a time.                                 *)
(***************************************************************************)
EXTENDS Naturals, Sequences, FiniteSets, SequencesExt, Reachability

CONSTANTS
    Key,            \* URIs, or equally their 8-byte hashes
    NoKey,          \* the miss of a map lookup
    InverseOf,      \* the hash of owl:inverseOf
    PlusKey,        \* PlusKey[p] is the key of the URI "p+" addTriple creates
    Batches,        \* the datasets that may be inserted
    MaxTransactions,\* bound on the transactions opened in a behaviour
    MaxFailures     \* bound on commit errors and crashes in a behaviour

Triple == Key \X Key \X Key

ASSUME KeyAssumption == IsFiniteSet(Key)
ASSUME NoKeyAssumption == NoKey \notin Key
ASSUME InverseOfAssumption == InverseOf \in Key
ASSUME PlusKeyAssumption == PlusKey \in [Key -> Key]
ASSUME BatchesAssumption == Batches \subseteq Seq(Triple)
ASSUME BoundsAssumption == MaxTransactions \in Nat /\ MaxFailures \in Nat

VARIABLES
    disk,       \* the committed content of the five stores
    mem,        \* what the open transaction reads back: disk plus its writes
    pc,         \* where the inserting goroutine is
    batch,      \* the dataset being inserted
    todo,       \* its triples not added yet
    newPredicates,
    inverseRelationships,
    pairs,      \* inverseOf pairs the range loop has still to visit
    preds,      \* predicates the range loop has still to visit
    rolls,      \* predicates to roll up before the next one of preds
    bases,      \* subjects (or objects) rollupPredicate has still to visit
    dir,        \* "sub": its loop over Subjects, "obj": over Objects
    base, stack, traversed, results,    \* followPathFromSubject/Object
    committed,  \* how many stores have committed
    outcome,    \* what the last insert returned to its caller
    opened, failures

loopVars == <<pairs, preds, rolls, bases, dir, base, stack, traversed, results>>
vars == <<disk, mem, pc, batch, todo, newPredicates, inverseRelationships,
          loopVars, committed, outcome, opened, failures>>

GraphType == [node : SUBSET Key, out : SUBSET Triple, in : SUBSET Triple]
ExtType == [has : SUBSET Key, outp : SUBSET Triple, inp : SUBSET Triple]
StoreType == [entity : SUBSET Key, pk : SUBSET Key, graph : GraphType,
              ext : ExtType, pred : SUBSET Triple]

EmptyStores == [entity |-> {}, pk |-> {},
                graph |-> [node |-> {}, out |-> {}, in |-> {}],
                ext |-> [has |-> {}, outp |-> {}, inp |-> {}],
                pred |-> {}]

\* Slips (this one and the others below, each named Slip...): what a plausible
\* bug would make of the definition after it.  No specification uses them; they
\* show that the properties can fail.
SlipIndexFirst == <<"entity", "pk", "ext", "graph", "pred">>
SlipPredFirst == <<"entity", "pk", "pred", "graph", "ext">>

\* The order in which commit() commits the stores.
CommitOrder == <<"entity", "pk", "graph", "ext", "pred">>

\* The edges a path over p may take, whichever end of the edge is consulted.
EdgesOf(graph, p) ==
    {<<t[1], t[3]>> : t \in {u \in graph.out \cup graph.in : u[2] = p}}

Init ==
    /\ disk = EmptyStores
    /\ mem = EmptyStores
    /\ pc = "idle"
    /\ batch = <<>> /\ todo = <<>>
    /\ newPredicates = {}
    /\ inverseRelationships = [k \in Key |-> NoKey]
    /\ pairs = {} /\ preds = {} /\ rolls = <<>> /\ bases = {}
    /\ dir = "sub" /\ base = NoKey /\ stack = <<>> /\ traversed = {} /\ results = {}
    /\ committed = 0
    /\ outcome = "none"
    /\ opened = 0 /\ failures = 0

-----------------------------------------------------------------------------
(* Opening the transaction and adding the triples.                         *)

Open ==
    /\ pc = "idle"
    /\ opened < MaxTransactions
    /\ \E b \in Batches : batch' = b /\ todo' = b
    /\ pc' = "add"
    /\ mem' = disk
    /\ newPredicates' = {}
    /\ inverseRelationships' = [k \in Key |-> NoKey]
    /\ committed' = 0
    /\ outcome' = "none"
    /\ opened' = opened + 1
    /\ UNCHANGED <<disk, loopVars, failures>>

\* addURI returning early for a URI the entity store knows.
SlipKnownURIs(s, uris) ==
    LET new == uris \ s.entity
    IN [s EXCEPT !.entity = @ \cup new, !.pk = @ \cup new, !.graph.node = @ \cup new]

\* addURI for each URI: a key the entity store knows is not put into pk again,
\* but its node is created whenever the graph store lacks it.
WithURIs(s, uris) ==
    [s EXCEPT !.entity = @ \cup uris,
              !.pk = @ \cup (uris \ s.entity),
              !.graph.node = @ \cup uris]

\* The subject and the object are loaded as two copies and stored in that
\* order.  When they are the same key the object's copy, without the new out
\* edge, is stored last (unless it already had the in edge and is not stored).
WithEdges(graph, t) ==
    [graph EXCEPT
        !.out = IF t[1] = t[3] /\ t \notin graph.in THEN @ ELSE @ \cup {t},
        !.in  = @ \cup {t}]

\* inverseRelationships[a] = b; inverseRelationships[b] = a
WithInverse(inv, a, b) == [inv EXCEPT ![a] = b, ![b] = a]

AddTriple ==
    /\ pc = "add"
    /\ todo # <<>>
    /\ LET t == Head(todo)
           known == WithURIs(mem, {t[1], t[2], t[3], PlusKey[t[2]]})
       IN /\ mem' = [known EXCEPT !.graph = WithEdges(@, t), !.pred = @ \cup {t}]
          /\ newPredicates' = newPredicates \cup {t[2]}
          /\ inverseRelationships' =
                IF t[2] = InverseOf THEN WithInverse(inverseRelationships, t[1], t[3])
                ELSE inverseRelationships
    /\ todo' = Tail(todo)
    /\ UNCHANGED <<disk, pc, batch, loopVars, committed, outcome, opened, failures>>

\* The inverseOf pairs of earlier batches forgotten.
SlipNoPull ==
    /\ pc = "add"
    /\ todo = <<>>
    /\ pc' = "pull"
    /\ pairs' = {}
    /\ UNCHANGED <<disk, mem, batch, todo, newPredicates, inverseRelationships,
                   preds, rolls, bases, dir, base, stack, traversed, results,
                   committed, outcome, opened, failures>>

\* After the last triple, addTriples ranges over the inverseOf pairs of the
\* predicate store: those of this batch and those of every earlier one.
BeginPull ==
    /\ pc = "add"
    /\ todo = <<>>
    /\ pc' = "pull"
    /\ pairs' = {<<t[1], t[3]>> : t \in {u \in mem.pred : u[2] = InverseOf}}
    /\ UNCHANGED <<disk, mem, batch, todo, newPredicates, inverseRelationships,
                   preds, rolls, bases, dir, base, stack, traversed, results,
                   committed, outcome, opened, failures>>

PullInverse ==
    /\ pc = "pull"
    /\ \E pair \in pairs :
          /\ inverseRelationships' = WithInverse(inverseRelationships, pair[1], pair[2])
          /\ pairs' = pairs \ {pair}
    /\ UNCHANGED <<disk, mem, pc, batch, todo, newPredicates,
                   preds, rolls, bases, dir, base, stack, traversed, results,
                   committed, outcome, opened, failures>>

BeginInverse ==
    /\ pc = "pull"
    /\ pairs = {}
    /\ pc' = "inverse"
    /\ preds' = {p \in Key : inverseRelationships[p] # NoKey}
    /\ UNCHANGED <<disk, mem, batch, todo, newPredicates, inverseRelationships,
                   pairs, rolls, bases, dir, base, stack, traversed, results,
                   committed, outcome, opened, failures>>

\* The edges of predicate q from the objects of T to its subjects.
Reversed(T, q) == {<<t[3], q, t[1]>> : t \in T}

\* revPred.AddSubjectObject forgotten.
SlipNoRevPred(s, p, q) ==
    LET fwd    == {t \in s.pred : t[2] = p}
        proper == {t \in fwd : t[1] # t[3]}
    IN [s EXCEPT !.graph.out = @ \cup proper \cup Reversed(fwd, q),
                 !.graph.in  = @ \cup fwd \cup Reversed(proper, q)]

\* Every pair of predicate p gets its edge and its inverse edge; each node is
\* loaded twice and stored twice, so a node that is its own object keeps only
\* what its object copy gained.
WithInverseEdges(s, p, q) ==
    LET fwd    == {t \in s.pred : t[2] = p}
        proper == {t \in fwd : t[1] # t[3]}
    IN [s EXCEPT !.graph.out = @ \cup proper \cup Reversed(fwd, q),
                 !.graph.in  = @ \cup fwd \cup Reversed(proper, q),
                 !.pred      = @ \cup Reversed(fwd, q)]

AddInverseEdges ==
    /\ pc = "inverse"
    /\ \E p \in preds :
          /\ mem' = WithInverseEdges(mem, p, inverseRelationships[p])
          /\ preds' = preds \ {p}
    /\ UNCHANGED <<disk, pc, batch, todo, newPredicates, inverseRelationships,
                   pairs, rolls, bases, dir, base, stack, traversed, results,
                   committed, outcome, opened, failures>>

BeginRolls ==
    /\ pc = "inverse"
    /\ preds = {}
    /\ pc' = "roll"
    /\ preds' = newPredicates
    /\ UNCHANGED <<disk, mem, batch, todo, newPredicates, inverseRelationships,
                   pairs, rolls, bases, dir, base, stack, traversed, results,
                   committed, outcome, opened, failures>>

-----------------------------------------------------------------------------
(* rollupPredicate: for each subject of the predicate (then each object)   *)
(* follow p+ through the edges and record what was reached in the extended *)
(* index, at both ends.  addTriples ignores the error it returns.          *)

Subjects(T, p) == {t[1] : t \in {u \in T : u[2] = p}}
Objects(T, p) == {t[3] : t \in {u \in T : u[2] = p}}

\* The reverse predicate rolled up without looking whether one was found.
SlipAlwaysReverse ==
    /\ pc = "roll"
    /\ rolls = <<>>
    /\ \E p \in preds :
          /\ preds' = preds \ {p}
          /\ rolls' = <<p, inverseRelationships[p]>>
    /\ UNCHANGED <<disk, mem, pc, batch, todo, newPredicates, inverseRelationships,
                   pairs, bases, dir, base, stack, traversed, results,
                   committed, outcome, opened, failures>>

\* The next new predicate of the range loop, and then its inverse if it has one.
NextPredicate ==
    /\ pc = "roll"
    /\ rolls = <<>>
    /\ \E p \in preds :
          /\ preds' = preds \ {p}
          /\ rolls' = IF inverseRelationships[p] = NoKey THEN <<p>>
                      ELSE <<p, inverseRelationships[p]>>
    /\ UNCHANGED <<disk, mem, pc, batch, todo, newPredicates, inverseRelationships,
                   pairs, bases, dir, base, stack, traversed, results,
                   committed, outcome, opened, failures>>

\* getURI of the predicate reads the pk store.
BeginRollup ==
    /\ pc = "roll"
    /\ rolls # <<>>
    /\ Head(rolls) \in mem.pk
    /\ pc' = "bases"
    /\ dir' = "sub"
    /\ bases' = Subjects(mem.pred, Head(rolls))
    /\ UNCHANGED <<disk, mem, batch, todo, newPredicates, inverseRelationships,
                   pairs, preds, rolls, base, stack, traversed, results,
                   committed, outcome, opened, failures>>

\* A predicate whose URI the pk store does not know is not rolled up.
SkipRollup ==
    /\ pc = "roll"
    /\ rolls # <<>>
    /\ Head(rolls) \notin mem.pk
    /\ rolls' = Tail(rolls)
    /\ UNCHANGED <<disk, mem, pc, batch, todo, newPredicates, inverseRelationships,
                   pairs, preds, bases, dir, base, stack, traversed, results,
                   committed, outcome, opened, failures>>

\* The index entry of the subject created anew although it has one.
SlipFreshIndex ==
    /\ pc = "bases"
    /\ \E k \in bases :
          /\ base' = k
          /\ bases' = bases \ {k}
          /\ mem' = [mem EXCEPT !.ext.has = @ \cup {k},
                               !.ext.outp = {t \in @ : t[1] # k},
                               !.ext.inp = {t \in @ : t[3] # k}]
          /\ stack' = <<k>>
    /\ traversed' = {}
    /\ results' = {}
    /\ pc' = "follow"
    /\ UNCHANGED <<disk, batch, todo, newPredicates, inverseRelationships,
                   pairs, preds, rolls, dir, committed, outcome, opened, failures>>

\* The next subject (object): give it an empty index entry if it has none,
\* and start the breadth-first search from it.
BeginFollow ==
    /\ pc = "bases"
    /\ \E k \in bases :
          /\ base' = k
          /\ bases' = bases \ {k}
          /\ mem' = [mem EXCEPT !.ext.has = @ \cup {k}]
          /\ stack' = <<k>>
    /\ traversed' = {}
    /\ results' = {}
    /\ pc' = "follow"
    /\ UNCHANGED <<disk, batch, todo, newPredicates, inverseRelationships,
                   pairs, preds, rolls, dir, committed, outcome, opened, failures>>

\* The index entry of key k for predicate p, and its edges, in the direction
\* being followed.
Indexed(ext, k, p) ==
    IF dir = "sub" THEN {t[3] : t \in {u \in ext.outp : u[1] = k /\ u[2] = p}}
    ELSE {t[1] : t \in {u \in ext.inp : u[3] = k /\ u[2] = p}}

Neighbours(graph, k, p) ==
    IF dir = "sub" THEN {t[3] : t \in {u \in graph.out : u[1] = k /\ u[2] = p}}
    ELSE {t[1] : t \in {u \in graph.in : u[3] = k /\ u[2] = p}}

\* A key the search has already visited is dropped.
FollowAgain ==
    /\ pc = "follow"
    /\ stack # <<>>
    /\ Head(stack) \in traversed
    /\ stack' = Tail(stack)
    /\ UNCHANGED <<disk, mem, pc, batch, todo, newPredicates, inverseRelationships,
                   pairs, preds, rolls, bases, dir, base, traversed, results,
                   committed, outcome, opened, failures>>

\* A key without an index entry is an error in a transaction, and a key whose
\* index entry knows the predicate answers for everything beyond it: either
\* way the search returns at once, leaving the rest of the stack unvisited.
FollowReturns ==
    /\ pc = "follow"
    /\ stack # <<>>
    /\ LET k == Head(stack)
           found == Indexed(mem.ext, k, Head(rolls))
       IN /\ k \notin traversed
          /\ k \in mem.ext.has => found # {}
          /\ results' = IF k \in mem.ext.has THEN results \cup found ELSE results
          /\ traversed' = traversed \cup {k}
    /\ stack' = <<>>
    /\ UNCHANGED <<disk, mem, pc, batch, todo, newPredicates, inverseRelationships,
                   pairs, preds, rolls, bases, dir, base,
                   committed, outcome, opened, failures>>

\* The visited key not remembered.
SlipNotTraversed ==
    /\ pc = "follow"
    /\ stack # <<>>
    /\ LET k == Head(stack)
           next == Neighbours(mem.graph, k, Head(rolls))
       IN /\ k \notin traversed
          /\ k \in mem.ext.has
          /\ Indexed(mem.ext, k, Head(rolls)) = {}
          /\ results' = results \cup next
          /\ \E edges \in SetToSeqs(next) : stack' = Tail(stack) \o edges
    /\ UNCHANGED <<disk, mem, pc, batch, todo, newPredicates, inverseRelationships,
                   pairs, preds, rolls, bases, dir, base, traversed,
                   committed, outcome, opened, failures>>

\* Otherwise its neighbours are results, queued in the order of its edge list.
FollowEdges ==
    /\ pc = "follow"
    /\ stack # <<>>
    /\ LET k == Head(stack)
           next == Neighbours(mem.graph, k, Head(rolls))
       IN /\ k \notin traversed
          /\ k \in mem.ext.has
          /\ Indexed(mem.ext, k, Head(rolls)) = {}
          /\ results' = results \cup next
          /\ traversed' = traversed \cup {k}
          /\ \E edges \in SetToSeqs(next) : stack' = Tail(stack) \o edges
    /\ UNCHANGED <<disk, mem, pc, batch, todo, newPredicates, inverseRelationships,
                   pairs, preds, rolls, bases, dir, base,
                   committed, outcome, opened, failures>>

\* The two halves of an index record: the list kept by the key the search
\* started from, and the lists kept by the keys it reached.
NearHalf(ext, p, reached) ==
    IF dir = "sub" THEN [ext EXCEPT !.outp = @ \cup ({base} \X {p} \X reached)]
    ELSE [ext EXCEPT !.inp = @ \cup (reached \X {p} \X {base})]

FarHalf(ext, p, reached) ==
    IF dir = "sub" THEN [ext EXCEPT !.inp = @ \cup ({base} \X {p} \X reached)]
    ELSE [ext EXCEPT !.outp = @ \cup (reached \X {p} \X {base})]

\* Every reached key has an index entry: both halves are saved.  The entry of
\* base was read before the others are written and is written last, so what
\* the far half put into it (base reached itself) is overwritten.
SaveIndex ==
    /\ pc = "follow"
    /\ stack = <<>>
    /\ results \subseteq mem.ext.has
    /\ mem' = [mem EXCEPT !.ext =
                  NearHalf(FarHalf(@, Head(rolls), results \ {base}), Head(rolls), results)]
    /\ pc' = "bases"
    /\ UNCHANGED <<disk, batch, todo, newPredicates, inverseRelationships,
                   loopVars, committed, outcome, opened, failures>>

\* A reached key without an index entry ends the whole rollup of the predicate,
\* after the keys above it in hash order had their entries saved.
AbortRollup ==
    /\ pc = "follow"
    /\ stack = <<>>
    /\ \E done \in SUBSET (results \cap mem.ext.has) :
          mem' = [mem EXCEPT !.ext = FarHalf(@, Head(rolls), done)]
    /\ ~ (results \subseteq mem.ext.has)
    /\ pc' = "roll"
    /\ rolls' = Tail(rolls)
    /\ bases' = {}
    /\ UNCHANGED <<disk, batch, todo, newPredicates, inverseRelationships,
                   pairs, preds, dir, base, stack, traversed, results,
                   committed, outcome, opened, failures>>

BeginObjects ==
    /\ pc = "bases"
    /\ bases = {}
    /\ dir = "sub"
    /\ dir' = "obj"
    /\ bases' = Objects(mem.pred, Head(rolls))
    /\ UNCHANGED <<disk, mem, pc, batch, todo, newPredicates, inverseRelationships,
                   pairs, preds, rolls, base, stack, traversed, results,
                   committed, outcome, opened, failures>>

EndRollup ==
    /\ pc = "bases"
    /\ bases = {}
    /\ dir = "obj"
    /\ pc' = "roll"
    /\ rolls' = Tail(rolls)
    /\ UNCHANGED <<disk, mem, batch, todo, newPredicates, inverseRelationships,
                   pairs, preds, bases, dir, base, stack, traversed, results,
                   committed, outcome, opened, failures>>

-----------------------------------------------------------------------------
(* done() and commit(): leveldb makes each store's commit atomic and       *)
(* durable, but the five commits are five steps.                           *)

BeginCommit ==
    /\ pc = "roll"
    /\ preds = {}
    /\ rolls = <<>>
    /\ pc' = "commit"
    /\ UNCHANGED <<disk, mem, batch, todo, newPredicates, inverseRelationships,
                   loopVars, committed, outcome, opened, failures>>

CommitStore ==
    /\ pc = "commit"
    /\ committed < Len(CommitOrder)
    /\ LET store == CommitOrder[committed + 1]
       IN disk' = [disk EXCEPT ![store] = mem[store]]
    /\ committed' = committed + 1
    /\ UNCHANGED <<mem, pc, batch, todo, newPredicates, inverseRelationships,
                   loopVars, outcome, opened, failures>>

CommitReturns ==
    /\ pc = "commit"
    /\ committed = Len(CommitOrder)
    /\ pc' = "idle"
    /\ outcome' = "ok"
    /\ UNCHANGED <<disk, mem, batch, todo, newPredicates, inverseRelationships,
                   loopVars, committed, opened, failures>>

\* What was not committed is dropped.
Drop(result) ==
    /\ failures < MaxFailures
    /\ failures' = failures + 1
    /\ pc' = "idle"
    /\ mem' = disk
    /\ outcome' = result
    /\ UNCHANGED <<disk, batch, todo, newPredicates, inverseRelationships,
                   loopVars, committed, opened>>

\* The commit of a store fails: commit() discards the remaining ones and
\* returns the error.
CommitFails ==
    /\ pc = "commit"
    /\ committed < Len(CommitOrder)
    /\ Drop("error")

\* The process dies, and is started again over the same directories.
Crash ==
    /\ pc # "idle"
    /\ Drop("crash")

Working ==
    \/ AddTriple \/ BeginPull \/ PullInverse \/ BeginInverse
    \/ AddInverseEdges \/ BeginRolls
    \/ NextPredicate \/ BeginRollup \/ SkipRollup \/ BeginFollow
    \/ FollowAgain \/ FollowReturns \/ FollowEdges
    \/ SaveIndex \/ AbortRollup \/ BeginObjects \/ EndRollup
    \/ BeginCommit \/ CommitStore \/ CommitReturns

Next == Open \/ Working \/ CommitFails \/ Crash

\* The inserting goroutine keeps running; nothing makes anyone insert, and
\* nothing makes a commit fail.
Spec == Init /\ [][Next]_vars
FairSpec == Spec /\ WF_vars(Working)

-----------------------------------------------------------------------------
(* Properties.                                                             *)

\* The range of every variable (transaction.go:27-39 and the loops' locals).
TypeOK ==
    /\ disk \in StoreType
    /\ mem \in StoreType
    /\ pc \in {"idle", "add", "pull", "inverse", "roll", "bases", "follow", "commit"}
    /\ batch \in Seq(Triple) /\ todo \in Seq(Triple)
    /\ newPredicates \subseteq Key
    /\ inverseRelationships \in [Key -> Key \cup {NoKey}]
    /\ pairs \subseteq Key \X Key
    /\ preds \subseteq Key
    /\ rolls \in Seq(Key)
    /\ bases \subseteq Key
    /\ dir \in {"sub", "obj"}
    /\ base \in Key \cup {NoKey}
    /\ stack \in Seq(Key)
    /\ traversed \subseteq Key
    /\ results \subseteq Key
    /\ committed \in 0 .. Len(CommitOrder)
    /\ outcome \in {"none", "ok", "error", "crash"}
    /\ opened \in 0 .. MaxTransactions
    /\ failures \in 0 .. MaxFailures

\* An index record is sound when a path of the graph justifies it.
ExtSound(ext, graph) ==
    \A t \in ext.outp \cup ext.inp : t[3] \in ReachPlus(EdgesOf(graph, t[2]), t[1])

\* At every moment, between two store commits and after a crash included, the
\* extended index a query takes as the answer for p+ (rollupPredicate, and the
\* early return of followPath) claims only paths the graph store really has.
IndexSound == ExtSound(disk.ext, disk.graph)

\* Whatever the predicate store lists has its nodes and its edge in the graph
\* store, so that a query that takes keys from the one finds them in the other
\* (commit() commits the graph store before the predicate store).
PredInGraph ==
    \A t \in disk.pred :
        /\ {t[1], t[3]} \subseteq disk.graph.node
        /\ t \in disk.graph.in \cup disk.graph.out

\* An insert that returned without error left every triple of its batch where
\* the queries look for it, whatever failed before it: a batch that was torn
\* by a failed commit is repaired by inserting it again (addTriple, addURI).  Two
\* things are not repaired: the pk entry of a URI whose entity entry was committed
\* without it (addURI takes the URI for done), and the out edge of a triple whose
\* subject is its object (the object's copy is stored over it).
BatchDurable ==
    outcome = "ok" =>
        \A i \in DOMAIN batch :
            LET t == batch[i]
            IN /\ {t[1], t[2], t[3], PlusKey[t[2]]} \subseteq disk.entity \cap disk.graph.node
               /\ t \in disk.graph.in \cap disk.pred
               /\ t[1] # t[3] => t \in disk.graph.out

\* The predicate store says that p and q are inverse to each other.
DeclaredInverse(p, q) == \E t \in disk.pred : t[2] = InverseOf /\ {t[1], t[3]} = {p, q}

\* After an insert that returned without error, inverse predicates mirror each
\* other, in whichever transactions and in whichever order the edges and the
\* inverseOf triples arrived (the second pass of addTriples), for a predicate that
\* was not declared to have two inverses.  (TripleStoreProofs!PlainDeclarations: no
\* batch may declare an inverse of inverseOf itself.)
InverseClosed ==
    outcome = "ok" =>
        \A t \in disk.pred : \A q \in Key :
            /\ DeclaredInverse(t[2], q)
            /\ \A r \in Key : DeclaredInverse(t[2], r) => r = q
            => /\ <<t[3], q, t[1]>> \in disk.pred
               /\ t[1] # t[3] =>
                     <<t[3], q, t[1]>> \in disk.graph.in \cap disk.graph.out

\* Nothing committed is ever taken back, by a later insert, a failed commit or
\* a crash: an edge or an index record that was once visible stays visible.
Grows(s, t) ==
    /\ s.entity \subseteq t.entity /\ s.pk \subseteq t.pk /\ s.pred \subseteq t.pred
    /\ s.graph.node \subseteq t.graph.node
    /\ s.graph.out \subseteq t.graph.out /\ s.graph.in \subseteq t.graph.in
    /\ s.ext.has \subseteq t.ext.has
    /\ s.ext.outp \subseteq t.ext.outp /\ s.ext.inp \subseteq t.ext.inp

NothingLost == [][Grows(disk, disk')]_vars

\* Every insert returns: the searches of rollupPredicate terminate on cyclic
\* data because a visited key is not expanded again.
InsertReturns == (pc # "idle") ~> (pc = "idle")

\* Seen through the predicate store, the last one commit() commits, an insert
\* happens in one step, entirely or not at all, whatever fails in between.  (As
\* the inverse map has room for one inverse of a predicate, batches must not
\* declare two: TripleStoreProofs!OneInverse.)
Facts == INSTANCE TripleSet WITH facts <- disk.pred
InsertsAreAtomic == Facts!Spec

-----------------------------------------------------------------------------
(* What a note says and the code does not do.                              *)

\* NOTES.md:67 "`path+` (matches 1 or more `path`)": where the extended index
\* answers for p+, it has every key one or more p edges lead to.
PlusComplete ==
    outcome = "ok" =>
        \A t \in disk.ext.outp :
            ReachPlus(EdgesOf(disk.graph, t[2]), t[1])
                \subseteq {u[3] : u \in {v \in disk.ext.outp : v[1] = t[1] /\ v[2] = t[2]}}
=============================================================================
