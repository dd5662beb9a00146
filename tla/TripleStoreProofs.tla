-------------------------- MODULE TripleStoreProofs --------------------------
(***************************************************************************)
(* Proofs about TripleStore, for every set of keys, every set of batches   *)
(* and every bound.                                                        *)
(***************************************************************************)
EXTENDS TripleStore, TLAPS, FiniteSetTheorems

USE NoKeyAssumption, InverseOfAssumption, PlusKeyAssumption,
    BatchesAssumption, BoundsAssumption

-----------------------------------------------------------------------------
(* The least set closed under following edges.                             *)

\* One edge is a path of one or more edges.
LEMMA ReachEdge ==
    ASSUME NEW edges, NEW e \in edges
    PROVE  e[2] \in ReachPlus(edges, e[1])
BY DEF ReachPlus, Ends, ClosedFrom

\* Two paths compose.
LEMMA ReachTransitive ==
    ASSUME NEW edges, NEW x, NEW y \in ReachPlus(edges, x), NEW z \in ReachPlus(edges, y)
    PROVE  z \in ReachPlus(edges, x)
<1> SUFFICES ASSUME NEW S \in SUBSET Ends(edges), ClosedFrom(edges, x, S)
             PROVE  z \in S
  BY DEF ReachPlus
<1>1. y \in S
  BY DEF ReachPlus
<1>2. ClosedFrom(edges, y, S)
  BY <1>1 DEF ClosedFrom
<1> QED
  BY <1>2 DEF ReachPlus

\* More edges lose no path.
LEMMA ReachMonotone ==
    ASSUME NEW E, NEW F, E \subseteq F, NEW x
    PROVE  ReachPlus(E, x) \subseteq ReachPlus(F, x)
<1> SUFFICES ASSUME NEW y \in ReachPlus(E, x),
                    NEW S \in SUBSET Ends(F), ClosedFrom(F, x, S)
             PROVE  y \in S
  <2>1. Ends(E) \subseteq Ends(F)
    BY DEF Ends
  <2> QED
    BY <2>1 DEF ReachPlus
<1> DEFINE T == S \cap Ends(E)
<1>1. ClosedFrom(E, x, T)
  BY DEF ClosedFrom, Ends
<1> QED
  BY <1>1 DEF ReachPlus

-----------------------------------------------------------------------------
(* Types.                                                                  *)

\* The parts of the five stores.
LEMMA StoreFields ==
    ASSUME NEW s \in StoreType
    PROVE  /\ s.entity \subseteq Key /\ s.pk \subseteq Key /\ s.pred \subseteq Triple
           /\ s.graph.node \subseteq Key
           /\ s.graph.out \subseteq Triple /\ s.graph.in \subseteq Triple
           /\ s.ext.has \subseteq Key
           /\ s.ext.outp \subseteq Triple /\ s.ext.inp \subseteq Triple
BY DEF StoreType, GraphType, ExtType

\* What the control point says of the loops' variables; TypeOK is inductive
\* only together with it.
ControlOK ==
    /\ pc = "inverse" => \A p \in preds : inverseRelationships[p] \in Key
    /\ pc \in {"bases", "follow"} => rolls # <<>>
    /\ pc = "follow" => base \in Key
    /\ pc \notin {"idle", "commit"} => committed = 0

TypeInv == TypeOK /\ ControlOK

\* addTriple adds keys, edges and predicates to the transaction.
LEMMA AddTripleType ==
    ASSUME TypeInv, AddTriple
    PROVE  TypeInv'
<1> DEFINE t == Head(todo)
           known == WithURIs(mem, {t[1], t[2], t[3], PlusKey[t[2]]})
<1>0. TypeOK
  BY DEF TypeInv
<1>1. t \in Triple
  BY <1>0 DEF TypeOK, AddTriple
<1>2. t[1] \in Key /\ t[2] \in Key /\ t[3] \in Key /\ PlusKey[t[2]] \in Key
  BY <1>1 DEF Triple
<1>3. known \in StoreType
  <2>1. mem \in StoreType /\ {t[1], t[2], t[3], PlusKey[t[2]]} \subseteq Key
    BY <1>0, <1>2 DEF TypeOK
  <2> HIDE DEF t
  <2> QED
    BY <2>1 DEF WithURIs, StoreType, GraphType
<1>4. mem' = [known EXCEPT !.graph = WithEdges(@, t), !.pred = @ \cup {t}]
  BY DEF AddTriple
<1>5. mem' \in StoreType
  BY <1>1, <1>3, <1>4 DEF StoreType, GraphType, WithEdges
<1>6. inverseRelationships' \in [Key -> Key \cup {NoKey}]
  <2>1. /\ inverseRelationships \in [Key -> Key \cup {NoKey}]
        /\ inverseRelationships' =
              IF t[2] = InverseOf THEN WithInverse(inverseRelationships, t[1], t[3])
              ELSE inverseRelationships
    BY <1>0 DEF TypeOK, AddTriple
  <2> HIDE DEF t
  <2> QED
    BY <1>2, <2>1 DEF WithInverse
<1>7. TypeOK'
  <2>1. newPredicates' \subseteq Key /\ todo' \in Seq(Triple)
    BY <1>0, <1>2 DEF TypeOK, AddTriple
  <2> HIDE DEF t, known
  <2> QED
    BY <1>0, <1>5, <1>6, <2>1 DEF TypeOK, AddTriple, loopVars
<1> QED
  BY <1>7 DEF TypeInv, ControlOK, AddTriple, loopVars

\* The second pass of addTriples adds the inverse edges.
LEMMA AddInverseEdgesType ==
    ASSUME TypeInv, AddInverseEdges
    PROVE  TypeInv'
<1>1. PICK p \in preds :
          /\ mem' = WithInverseEdges(mem, p, inverseRelationships[p])
          /\ preds' = preds \ {p}
  BY DEF AddInverseEdges
<1>2. p \in Key /\ mem \in StoreType /\ inverseRelationships[p] \in Key
  BY DEF TypeInv, TypeOK, ControlOK, AddInverseEdges
<1>3. \A T \in SUBSET Triple : Reversed(T, inverseRelationships[p]) \subseteq Triple
  BY <1>2 DEF Reversed, Triple
<1>4. mem' \in StoreType
  BY <1>1, <1>2, <1>3 DEF WithInverseEdges, StoreType, GraphType
<1>5. TypeOK'
  BY <1>1, <1>2, <1>4 DEF TypeInv, TypeOK, AddInverseEdges
<1> QED
  BY <1>1, <1>5 DEF TypeInv, ControlOK, AddInverseEdges

\* rollupPredicate starts a search from a base key.
LEMMA BeginFollowType ==
    ASSUME TypeInv, BeginFollow
    PROVE  TypeInv'
<1>1. PICK k \in bases : mem' = [mem EXCEPT !.ext.has = @ \cup {k}] /\ base' = k
                         /\ bases' = bases \ {k} /\ stack' = <<k>>
  BY DEF BeginFollow
<1>2. k \in Key /\ mem \in StoreType
  BY DEF TypeInv, TypeOK
<1>3. mem' \in StoreType
  BY <1>1, <1>2 DEF StoreType, ExtType
<1>4. stack' \in Seq(Key)
  BY <1>1, <1>2
<1>5. TypeOK'
  BY <1>1, <1>2, <1>3, <1>4 DEF TypeInv, TypeOK, BeginFollow
<1> QED
  BY <1>1, <1>2, <1>5 DEF TypeInv, ControlOK, BeginFollow

\* What rollupPredicate writes into the extended index.
LEMMA HalvesType ==
    ASSUME NEW ext \in ExtType, base \in Key, NEW p \in Key, NEW R \in SUBSET Key
    PROVE  NearHalf(ext, p, R) \in ExtType /\ FarHalf(ext, p, R) \in ExtType
<1>1. {base} \X {p} \X R \subseteq Triple /\ R \X {p} \X {base} \subseteq Triple
  BY DEF Triple
<1>2. CASE dir = "sub"
  BY <1>1, <1>2 DEF NearHalf, FarHalf, ExtType
<1>3. CASE dir # "sub"
  BY <1>1, <1>3 DEF NearHalf, FarHalf, ExtType
<1> QED
  BY <1>2, <1>3

\* rollupPredicate writes what the searches from a key found.
LEMMA SaveIndexType ==
    ASSUME TypeInv, SaveIndex
    PROVE  TypeInv'
<1>1. Head(rolls) \in Key /\ base \in Key /\ results \subseteq Key /\ mem \in StoreType
  BY DEF TypeInv, TypeOK, ControlOK, SaveIndex
<1>2. mem' \in StoreType
  <2> DEFINE p == Head(rolls)
             far == FarHalf(mem.ext, p, results \ {base})
  <2>1. mem.ext \in ExtType /\ results \ {base} \in SUBSET Key
    BY <1>1 DEF StoreType
  <2>2. far \in ExtType
    BY <1>1, <2>1, HalvesType
  <2>3. NearHalf(far, p, results) \in ExtType
    BY <1>1, <2>2, HalvesType
  <2>4. mem' = [mem EXCEPT !.ext = NearHalf(far, p, results)]
    BY DEF SaveIndex
  <2> HIDE DEF far, p
  <2> QED
    BY <1>1, <2>3, <2>4 DEF StoreType
<1>3. TypeOK'
  BY <1>2 DEF TypeInv, TypeOK, SaveIndex, loopVars
<1> QED
  BY <1>3 DEF TypeInv, ControlOK, SaveIndex, loopVars

\* rollupPredicate returns early at a reached key without an index entry.
LEMMA AbortRollupType ==
    ASSUME TypeInv, AbortRollup
    PROVE  TypeInv'
<1>1. Head(rolls) \in Key /\ base \in Key /\ results \subseteq Key /\ mem \in StoreType
  BY DEF TypeInv, TypeOK, ControlOK, AbortRollup
<1>2. mem' \in StoreType
  <2>1. PICK done \in SUBSET (results \cap mem.ext.has) :
           mem' = [mem EXCEPT !.ext = FarHalf(@, Head(rolls), done)]
    BY DEF AbortRollup
  <2>2. FarHalf(mem.ext, Head(rolls), done) \in ExtType
    BY <1>1, HalvesType DEF StoreType
  <2> QED
    BY <1>1, <2>1, <2>2 DEF StoreType
<1>3. Tail(rolls) \in Seq(Key)
  BY DEF TypeInv, TypeOK, ControlOK, AbortRollup
<1>4. TypeOK'
  BY <1>2, <1>3 DEF TypeInv, TypeOK, AbortRollup
<1> QED
  BY <1>4 DEF TypeInv, ControlOK, AbortRollup

\* The edge list of a key, in whatever order it has.
LEMMA EdgeListType ==
    ASSUME NEW S \in SUBSET Key, NEW edges \in SetToSeqs(S)
    PROVE  edges \in Seq(S)
<1>1. Cardinality(S) \in Nat
  BY KeyAssumption, FS_Subset, FS_CardinalityType
<1>2. edges \in [1 .. Cardinality(S) -> S]
  BY DEF SetToSeqs
<1> QED
  BY <1>1, <1>2

\* Neighbours are keys, by edges and by the index.
LEMMA NeighboursType ==
    ASSUME NEW s \in StoreType, NEW k, NEW p
    PROVE  Neighbours(s.graph, k, p) \subseteq Key /\ Indexed(s.ext, k, p) \subseteq Key
BY StoreFields DEF Neighbours, Indexed, Triple

\* The search follows the edges of a key.
LEMMA FollowEdgesType ==
    ASSUME TypeInv, FollowEdges
    PROVE  TypeInv'
<1> DEFINE next == Neighbours(mem.graph, Head(stack), Head(rolls))
<1>1. next \subseteq Key
  BY NeighboursType DEF TypeInv, TypeOK
<1>2. PICK edges \in SetToSeqs(next) : stack' = Tail(stack) \o edges
  BY DEF FollowEdges
<1>3. edges \in Seq(Key)
  <2>1. edges \in Seq(next)
    BY <1>1, EdgeListType
  <2> QED
    BY <1>1, <2>1
<1>4. Head(stack) \in Key /\ Tail(stack) \in Seq(Key)
  BY DEF TypeInv, TypeOK, FollowEdges
<1>5. stack' \in Seq(Key)
  BY <1>2, <1>3, <1>4
<1>6. results' \subseteq Key /\ traversed' \subseteq Key
  BY <1>1, <1>4 DEF TypeInv, TypeOK, FollowEdges
<1>7. TypeOK'
  BY <1>5, <1>6 DEF TypeInv, TypeOK, FollowEdges
<1> QED
  BY <1>7 DEF TypeInv, ControlOK, FollowEdges

\* The search of one direction ends and the other starts.
LEMMA FollowReturnsType ==
    ASSUME TypeInv, FollowReturns
    PROVE  TypeInv'
<1>1. Indexed(mem.ext, Head(stack), Head(rolls)) \subseteq Key
  BY NeighboursType DEF TypeInv, TypeOK
<1>2. Head(stack) \in Key
  BY DEF TypeInv, TypeOK, FollowReturns
<1>3. TypeOK'
  BY <1>1, <1>2 DEF TypeInv, TypeOK, FollowReturns
<1> QED
  BY <1>3 DEF TypeInv, ControlOK, FollowReturns

\* commit() has five stores to commit.
LEMMA CommitLength == Len(CommitOrder) = 5
BY DEF CommitOrder

\* A store that is committed is one of the five.
LEMMA Committing ==
    ASSUME TypeInv, CommitStore
    PROVE  pc = "commit" /\ committed \in 0 .. 4 /\ committed' = committed + 1
<1>1. committed \in 0 .. 5
  BY CommitLength DEF TypeInv, TypeOK
<1>2. committed < 5
  BY CommitLength DEF CommitStore
<1>3. committed \in 0 .. 4
  BY <1>1, <1>2
<1> QED
  BY <1>3 DEF CommitStore

\* Committing one store replaces that store and no other.
LEMMA CommitStoreEffect ==
    ASSUME TypeInv, CommitStore
    PROVE  \/ committed = 0 /\ disk' = [disk EXCEPT !.entity = mem.entity]
           \/ committed = 1 /\ disk' = [disk EXCEPT !.pk = mem.pk]
           \/ committed = 2 /\ disk' = [disk EXCEPT !.graph = mem.graph]
           \/ committed = 3 /\ disk' = [disk EXCEPT !.ext = mem.ext]
           \/ committed = 4 /\ disk' = [disk EXCEPT !.pred = mem.pred]
<1>1. committed \in 0 .. 4
  BY Committing
<1>2. ASSUME NEW f, CommitOrder[committed + 1] = f
      PROVE  disk' = [disk EXCEPT ![f] = mem[f]]
  BY <1>2 DEF CommitStore
<1>3. CASE committed = 0
  <2>1. CommitOrder[committed + 1] = "entity"
    BY <1>3 DEF CommitOrder
  <2> QED
    BY <1>3, <2>1, <1>2
<1>4. CASE committed = 1
  <2>1. CommitOrder[committed + 1] = "pk"
    BY <1>4 DEF CommitOrder
  <2> QED
    BY <1>4, <2>1, <1>2
<1>5. CASE committed = 2
  <2>1. CommitOrder[committed + 1] = "graph"
    BY <1>5 DEF CommitOrder
  <2> QED
    BY <1>5, <2>1, <1>2
<1>6. CASE committed = 3
  <2>1. CommitOrder[committed + 1] = "ext"
    BY <1>6 DEF CommitOrder
  <2> QED
    BY <1>6, <2>1, <1>2
<1>7. CASE committed = 4
  <2>1. CommitOrder[committed + 1] = "pred"
    BY <1>7 DEF CommitOrder
  <2> QED
    BY <1>7, <2>1, <1>2
<1> QED
  BY <1>1, <1>3, <1>4, <1>5, <1>6, <1>7

\* commit() commits the next store.
LEMMA CommitStoreType ==
    ASSUME TypeInv, CommitStore
    PROVE  TypeInv'
<1>1. committed \in 0 .. 4 /\ Len(CommitOrder) = 5
  BY Committing, CommitLength
<1>2. disk \in StoreType /\ mem \in StoreType
  BY DEF TypeInv, TypeOK
<1>3. disk' \in StoreType
  BY <1>1, <1>2, CommitStoreEffect DEF StoreType
<1>4. TypeOK'
  BY <1>1, <1>3 DEF TypeInv, TypeOK, CommitStore, loopVars
<1> QED
  BY <1>4 DEF TypeInv, ControlOK, CommitStore, loopVars

\* The actions that move the control point and the loops on.
LEMMA LoopsType ==
    ASSUME TypeInv,
           \/ BeginPull \/ PullInverse \/ BeginInverse \/ BeginRolls
           \/ NextPredicate \/ BeginRollup \/ SkipRollup \/ FollowAgain
           \/ BeginObjects \/ EndRollup \/ BeginCommit \/ CommitReturns
    PROVE  TypeInv'
<1> USE DEF TypeInv, TypeOK, ControlOK
<1>0. \A p \in Key : /\ Subjects(mem.pred, p) \subseteq Key
                     /\ Objects(mem.pred, p) \subseteq Key
  BY StoreFields DEF Subjects, Objects, Triple
<1>1. CASE BeginPull
  <2>1. pairs' \subseteq Key \X Key
    BY <1>1, StoreFields DEF BeginPull, Triple
  <2> QED
    BY <1>1, <2>1 DEF BeginPull
<1>2. CASE PullInverse
  <2>1. inverseRelationships' \in [Key -> Key \cup {NoKey}]
    BY <1>2 DEF PullInverse, WithInverse
  <2> QED
    BY <1>2, <2>1 DEF PullInverse
<1>3. CASE BeginInverse
  BY <1>3 DEF BeginInverse
<1>4. CASE BeginRolls
  BY <1>4 DEF BeginRolls
<1>5. CASE NextPredicate
  BY <1>5 DEF NextPredicate
<1>6. CASE BeginRollup
  BY <1>0, <1>6 DEF BeginRollup
<1>7. CASE SkipRollup
  BY <1>7 DEF SkipRollup
<1>8. CASE FollowAgain
  BY <1>8 DEF FollowAgain
<1>9. CASE BeginObjects
  BY <1>0, <1>9 DEF BeginObjects
<1>10. CASE EndRollup
  BY <1>10 DEF EndRollup
<1>11. CASE BeginCommit
  BY <1>11 DEF BeginCommit, loopVars
<1>12. CASE CommitReturns
  BY <1>12 DEF CommitReturns, loopVars
<1> QED
  BY <1>1, <1>2, <1>3, <1>4, <1>5, <1>6, <1>7, <1>8, <1>9, <1>10, <1>11, <1>12

\* Opening a transaction, and losing one.
LEMMA OpenAndDropType ==
    ASSUME TypeInv, Open \/ CommitFails \/ Crash
    PROVE  TypeInv'
<1> USE DEF TypeInv, TypeOK, ControlOK
<1>1. CASE Open
  BY <1>1 DEF Open, loopVars, CommitOrder
<1>2. CASE CommitFails \/ Crash
  BY <1>2 DEF CommitFails, Crash, Drop, loopVars
<1> QED
  BY <1>1, <1>2

\* The stores are empty and no insert runs at the start.
LEMMA TypeInit == Init => TypeInv
BY DEF Init, TypeInv, TypeOK, ControlOK, EmptyStores, StoreType, GraphType, ExtType,
       CommitOrder

\* Every step of an insert, a failed commit and a crash keep the types.
LEMMA TypeStep == TypeInv /\ [Next]_vars => TypeInv'
<1> SUFFICES ASSUME TypeInv, [Next]_vars
             PROVE  TypeInv'
  OBVIOUS
<1>1. CASE UNCHANGED vars
  BY <1>1 DEF vars, loopVars, TypeInv, TypeOK, ControlOK
<1> QED
  BY <1>1, AddTripleType, AddInverseEdgesType, BeginFollowType, SaveIndexType,
     AbortRollupType, FollowEdgesType, FollowReturnsType, CommitStoreType,
     LoopsType, OpenAndDropType DEF Next, Working

\* The types, and what the control point says of the loops of addTriples.
THEOREM TypeInvariant == Spec => []TypeInv
BY TypeInit, TypeStep, PTL DEF Spec

\* Every variable keeps its type (the whole of transaction.go's write path).
THEOREM TypeCorrect == Spec => []TypeOK
<1>1. TypeInv => TypeOK
  BY DEF TypeInv
<1> QED
  BY <1>1, TypeInvariant, PTL

-----------------------------------------------------------------------------
(* Nothing committed is lost.                                              *)

\* A transaction only adds to what it read.
LEMMA TransactionGrows ==
    ASSUME TypeInv, Working
    PROVE  Grows(mem, mem')
<1>0. mem \in StoreType
  BY DEF TypeInv, TypeOK
<1>1. CASE AddTriple
  <2> DEFINE t == Head(todo)
             known == WithURIs(mem, {t[1], t[2], t[3], PlusKey[t[2]]})
  <2>1. mem' = [known EXCEPT !.graph = WithEdges(@, t), !.pred = @ \cup {t}]
    BY <1>1 DEF AddTriple
  <2>2. Grows(mem, known)
    BY <1>0 DEF WithURIs, Grows, StoreType, GraphType
  <2>3. known \in [entity : SUBSET (Key \cup {t[1], t[2], t[3], PlusKey[t[2]]}),
                   pk : SUBSET (Key \cup {t[1], t[2], t[3], PlusKey[t[2]]}),
                   graph : [node : SUBSET (Key \cup {t[1], t[2], t[3], PlusKey[t[2]]}),
                            out : SUBSET Triple, in : SUBSET Triple],
                   ext : ExtType, pred : SUBSET Triple]
    BY <1>0 DEF WithURIs, StoreType, GraphType
  <2>4. Grows(known, mem')
    BY <2>1, <2>3 DEF WithEdges, Grows
  <2> QED
    BY <2>2, <2>4 DEF Grows
<1>2. CASE AddInverseEdges
  <2>1. PICK p \in preds : mem' = WithInverseEdges(mem, p, inverseRelationships[p])
    BY <1>2 DEF AddInverseEdges
  <2> QED
    BY <1>0, <2>1 DEF WithInverseEdges, Grows, StoreType, GraphType
<1>3. CASE BeginFollow
  BY <1>0, <1>3 DEF BeginFollow, Grows, StoreType, ExtType
<1>4. CASE SaveIndex
  <2> DEFINE p == Head(rolls)
             far == FarHalf(mem.ext, p, results \ {base})
             saved == NearHalf(far, p, results)
  <2>1. far \in ExtType /\ saved \in ExtType
    <3>1. p \in Key /\ base \in Key /\ results \subseteq Key /\ mem.ext \in ExtType
      BY <1>4 DEF TypeInv, TypeOK, ControlOK, SaveIndex, StoreType
    <3>2. far \in ExtType
      BY <3>1, HalvesType
    <3> QED
      BY <3>1, <3>2, HalvesType
  <2>2. /\ mem.ext.has \subseteq saved.has
        /\ mem.ext.outp \subseteq saved.outp /\ mem.ext.inp \subseteq saved.inp
    BY <1>0 DEF NearHalf, FarHalf, StoreType, ExtType
  <2>3. mem' = [mem EXCEPT !.ext = saved]
    BY <1>4 DEF SaveIndex
  <2> HIDE DEF saved
  <2> QED
    BY <1>0, <2>1, <2>2, <2>3 DEF Grows, StoreType
<1>5. CASE AbortRollup
  <2>1. PICK done \in SUBSET (results \cap mem.ext.has) :
           mem' = [mem EXCEPT !.ext = FarHalf(@, Head(rolls), done)]
    BY <1>5 DEF AbortRollup
  <2> DEFINE far == FarHalf(mem.ext, Head(rolls), done)
  <2>2. /\ mem.ext.has \subseteq far.has
        /\ mem.ext.outp \subseteq far.outp /\ mem.ext.inp \subseteq far.inp
    BY <1>0 DEF FarHalf, StoreType, ExtType
  <2>3. mem' = [mem EXCEPT !.ext = far]
    BY <2>1
  <2> HIDE DEF far
  <2> QED
    BY <1>0, <2>2, <2>3 DEF Grows, StoreType
<1>6. CASE mem' = mem
  BY <1>6 DEF Grows
<1> QED
  BY <1>1, <1>2, <1>3, <1>4, <1>5, <1>6
     DEF Working, BeginPull, PullInverse, BeginInverse, BeginRolls, NextPredicate,
         BeginRollup, SkipRollup, FollowAgain, FollowReturns, FollowEdges,
         BeginObjects, EndRollup, BeginCommit, CommitStore, CommitReturns

\* Only a commit writes a store.
LEMMA OnlyCommitWrites ==
    ASSUME Next, ~ CommitStore
    PROVE  disk' = disk
BY DEF Next, Working, Open, AddTriple, BeginPull, PullInverse, BeginInverse,
       AddInverseEdges, BeginRolls, NextPredicate, BeginRollup, SkipRollup, BeginFollow,
       FollowAgain, FollowReturns, FollowEdges, SaveIndex, AbortRollup, BeginObjects,
       EndRollup, BeginCommit, CommitReturns, CommitFails, Crash, Drop

\* What a transaction would commit includes what is committed.
GrowInv == TypeInv /\ Grows(disk, mem)

\* Committing a store only adds to what is committed.
LEMMA CommitGrows ==
    ASSUME GrowInv, CommitStore
    PROVE  Grows(disk, disk') /\ Grows(disk', mem') /\ mem' = mem
<1>1. mem' = mem /\ disk \in StoreType /\ mem \in StoreType /\ TypeInv
  BY DEF CommitStore, GrowInv, TypeInv, TypeOK
<1> QED
  BY <1>1, CommitStoreEffect DEF GrowInv, Grows, StoreType

\* Every step only adds to what is committed.
LEMMA GrowStep ==
    ASSUME GrowInv, [Next]_vars
    PROVE  GrowInv' /\ Grows(disk, disk')
<1>1. TypeInv'
  BY TypeStep DEF GrowInv
<1>2. CASE CommitStore
  BY <1>1, <1>2, CommitGrows DEF GrowInv
<1>3. CASE Working /\ ~ CommitStore
  <2>1. disk' = disk
    BY <1>3, OnlyCommitWrites DEF Next
  <2>2. Grows(mem, mem')
    BY <1>3, TransactionGrows DEF GrowInv
  <2> QED
    BY <1>1, <2>1, <2>2 DEF GrowInv, Grows
<1>4. CASE Open \/ CommitFails \/ Crash
  <2>1. disk' = disk /\ mem' = disk
    BY <1>4 DEF Open, CommitFails, Crash, Drop
  <2> QED
    BY <1>1, <2>1 DEF GrowInv, Grows
<1>5. CASE UNCHANGED vars
  BY <1>1, <1>5 DEF vars, GrowInv, Grows
<1> QED
  BY <1>2, <1>3, <1>4, <1>5 DEF Next

\* The stores of a transaction contain the committed ones (addTriples only adds).
THEOREM GrowInvariant == Spec => []GrowInv
<1>1. Init => GrowInv
  BY TypeInit DEF Init, GrowInv, Grows
<1> QED
  BY <1>1, GrowStep, PTL DEF Spec

\* No insert, failed commit or crash takes back anything committed before it
\* (addTriple, rollupPredicate and commit only add).
THEOREM CommittedStays == Spec => NothingLost
<1>1. GrowInv /\ [Next]_vars => [Grows(disk, disk')]_vars
  BY GrowStep
<1> QED
  BY <1>1, GrowInvariant, PTL DEF Spec, NothingLost

-----------------------------------------------------------------------------
(* The extended index claims only paths the graph has.                     *)

\* A larger graph has more edges.
LEMMA EdgesGrow ==
    ASSUME NEW g, NEW h, g.out \subseteq h.out, g.in \subseteq h.in, NEW p
    PROVE  EdgesOf(g, p) \subseteq EdgesOf(h, p)
BY DEF EdgesOf

\* A sound index stays sound when the graph gains edges: this is why the graph
\* store may be committed before the extended index, and not after it.
LEMMA ExtSoundMonotone ==
    ASSUME NEW ext, NEW g, NEW h, g.out \subseteq h.out, g.in \subseteq h.in,
           ExtSound(ext, g)
    PROVE  ExtSound(ext, h)
BY EdgesGrow, ReachMonotone DEF ExtSound

\* k and base are joined by a path of the predicate being rolled up, in the
\* direction being followed.
Linked(k) ==
    IF dir = "sub" THEN k \in ReachPlus(EdgesOf(mem.graph, Head(rolls)), base)
    ELSE base \in ReachPlus(EdgesOf(mem.graph, Head(rolls)), k)

\* What the search has queued and found so far.
SearchSound ==
    pc = "follow" =>
        /\ \A i \in DOMAIN stack : stack[i] = base \/ Linked(stack[i])
        /\ \A k \in results : Linked(k)

\* The inductive invariant: both copies of the index are sound with respect to
\* their own graph, the running search is, and by the time the index is
\* committed the graph it was computed from has been.
IndexInv ==
    /\ GrowInv
    /\ ExtSound(mem.ext, mem.graph)
    /\ ExtSound(disk.ext, disk.graph)
    /\ pc = "commit" /\ committed >= 3 => disk.graph = mem.graph
    /\ SearchSound

\* A neighbour of a key the search may visit is linked to base, and so is every
\* key its index entry lists.
LEMMA NeighbourLinked ==
    ASSUME NEW k, k = base \/ Linked(k),
           NEW n \in Neighbours(mem.graph, k, Head(rolls))
    PROVE  Linked(n)
<1> DEFINE E == EdgesOf(mem.graph, Head(rolls))
<1>1. CASE dir = "sub"
  <2>1. PICK t \in mem.graph.out : t[1] = k /\ t[2] = Head(rolls) /\ t[3] = n
    BY <1>1 DEF Neighbours
  <2>2. <<k, n>> \in E
    BY <2>1 DEF EdgesOf
  <2>3. n \in ReachPlus(E, k)
    BY <2>2, ReachEdge
  <2> QED
    BY <1>1, <2>3, ReachTransitive DEF Linked
<1>2. CASE dir # "sub"
  <2>1. PICK t \in mem.graph.in : t[3] = k /\ t[2] = Head(rolls) /\ t[1] = n
    BY <1>2 DEF Neighbours
  <2>2. <<n, k>> \in E
    BY <2>1 DEF EdgesOf
  <2>3. k \in ReachPlus(E, n)
    BY <2>2, ReachEdge
  <2> QED
    BY <1>2, <2>3, ReachTransitive DEF Linked
<1> QED
  BY <1>1, <1>2

\* What a sound index says of a linked key is linked.
LEMMA IndexedLinked ==
    ASSUME NEW k, k = base \/ Linked(k), ExtSound(mem.ext, mem.graph),
           NEW n \in Indexed(mem.ext, k, Head(rolls))
    PROVE  Linked(n)
<1> DEFINE E == EdgesOf(mem.graph, Head(rolls))
<1>1. CASE dir = "sub"
  <2>1. PICK t \in mem.ext.outp : t[1] = k /\ t[2] = Head(rolls) /\ t[3] = n
    BY <1>1 DEF Indexed
  <2>2. n \in ReachPlus(E, k)
    BY <2>1 DEF ExtSound
  <2> QED
    BY <1>1, <2>2, ReachTransitive DEF Linked
<1>2. CASE dir # "sub"
  <2>1. PICK t \in mem.ext.inp : t[3] = k /\ t[2] = Head(rolls) /\ t[1] = n
    BY <1>2 DEF Indexed
  <2>2. k \in ReachPlus(E, n)
    BY <2>1 DEF ExtSound
  <2> QED
    BY <1>2, <2>2, ReachTransitive DEF Linked
<1> QED
  BY <1>1, <1>2

\* Recording linked keys keeps the index sound.
LEMMA HalvesSound ==
    ASSUME NEW ext \in ExtType, ExtSound(ext, mem.graph),
           NEW R, \A k \in R : Linked(k)
    PROVE  /\ ExtSound(NearHalf(ext, Head(rolls), R), mem.graph)
           /\ ExtSound(FarHalf(ext, Head(rolls), R), mem.graph)
<1>1. CASE dir = "sub"
  <2>1. \A t \in {base} \X {Head(rolls)} \X R :
           t[3] \in ReachPlus(EdgesOf(mem.graph, t[2]), t[1])
    BY <1>1 DEF Linked
  <2> QED
    BY <1>1, <2>1 DEF ExtSound, NearHalf, FarHalf, ExtType
<1>2. CASE dir # "sub"
  <2>1. \A t \in R \X {Head(rolls)} \X {base} :
           t[3] \in ReachPlus(EdgesOf(mem.graph, t[2]), t[1])
    BY <1>2 DEF Linked
  <2> QED
    BY <1>2, <2>1 DEF ExtSound, NearHalf, FarHalf, ExtType
<1> QED
  BY <1>1, <1>2

\* Following a key's edges finds linked keys.
LEMMA FollowEdgesSound ==
    ASSUME IndexInv, FollowEdges
    PROVE  SearchSound'
<1> DEFINE next == Neighbours(mem.graph, Head(stack), Head(rolls))
           k == Head(stack)
<1>1. PICK edges \in SetToSeqs(next) : stack' = Tail(stack) \o edges
  BY DEF FollowEdges
<1>2. next \subseteq Key /\ stack \in Seq(Key) /\ stack # <<>>
  BY NeighboursType DEF IndexInv, GrowInv, TypeInv, TypeOK, FollowEdges
<1>3. edges \in Seq(next)
  BY <1>2, EdgeListType
<1>4. k = base \/ Linked(k)
  BY <1>2 DEF IndexInv, SearchSound, FollowEdges
<1>5. \A n \in next : Linked(n)
  BY <1>4, NeighbourLinked
<1>6. \A i \in DOMAIN stack' : stack'[i] = base \/ Linked(stack'[i])
  <2> SUFFICES ASSUME NEW i \in DOMAIN stack'
               PROVE  stack'[i] = base \/ Linked(stack'[i])
    OBVIOUS
  <2>1. i \in 1 .. Len(Tail(stack)) + Len(edges) /\ Len(Tail(stack)) = Len(stack) - 1
    BY <1>1, <1>2, <1>3
  <2>2. CASE i <= Len(Tail(stack))
    <3>1. i + 1 \in DOMAIN stack /\ stack'[i] = stack[i + 1]
      BY <1>1, <1>2, <1>3, <2>1, <2>2
    <3> QED
      BY <3>1 DEF IndexInv, SearchSound, FollowEdges
  <2>3. CASE i > Len(Tail(stack))
    <3>1. stack'[i] = edges[i - Len(Tail(stack))]
            /\ i - Len(Tail(stack)) \in 1 .. Len(edges)
      BY <1>1, <1>2, <1>3, <2>1, <2>3
    <3> QED
      BY <1>3, <1>5, <3>1
  <2> QED
    BY <2>1, <2>2, <2>3
<1>7. \A n \in results' : Linked(n)
  BY <1>5 DEF IndexInv, SearchSound, FollowEdges
<1>8. \A n : Linked(n)' = Linked(n)
  BY DEF Linked, FollowEdges
<1>9. base' = base
  BY DEF FollowEdges
<1> QED
  BY <1>6, <1>7, <1>8, <1>9 DEF SearchSound

\* What the search of one direction found is linked in that direction.
LEMMA FollowReturnsSound ==
    ASSUME IndexInv, FollowReturns
    PROVE  SearchSound'
<1> DEFINE k == Head(stack)
<1>1. k = base \/ Linked(k)
  BY DEF IndexInv, GrowInv, TypeInv, TypeOK, SearchSound, FollowReturns
<1>2. \A n \in Indexed(mem.ext, k, Head(rolls)) : Linked(n)
  BY <1>1, IndexedLinked DEF IndexInv
<1>3. \A n \in results' : Linked(n)
  BY <1>2 DEF IndexInv, SearchSound, FollowReturns
<1>4. \A n : Linked(n)' = Linked(n)
  BY DEF Linked, FollowReturns
<1>5. stack' = <<>>
  BY DEF FollowReturns
<1> QED
  BY <1>3, <1>4, <1>5 DEF SearchSound

\* The search of rollupPredicate has only ever linked keys.
LEMMA SearchStep ==
    ASSUME IndexInv, Next
    PROVE  SearchSound'
<1>1. CASE BeginFollow
  BY <1>1 DEF BeginFollow, SearchSound
<1>2. CASE FollowAgain
  <2>1. stack \in Seq(Key) /\ stack # <<>> /\ stack' = Tail(stack)
    BY <1>2 DEF IndexInv, GrowInv, TypeInv, TypeOK, FollowAgain
  <2>2. \A i \in DOMAIN stack' : i + 1 \in DOMAIN stack /\ stack'[i] = stack[i + 1]
    BY <2>1
  <2>3. \A n : Linked(n)' = Linked(n)
    BY <1>2 DEF Linked, FollowAgain
  <2> QED
    BY <1>2, <2>2, <2>3 DEF IndexInv, SearchSound, FollowAgain
<1>3. CASE FollowEdges
  BY <1>3, FollowEdgesSound
<1>4. CASE FollowReturns
  BY <1>4, FollowReturnsSound
<1>5. CASE ~ (BeginFollow \/ FollowAgain \/ FollowEdges \/ FollowReturns)
  <2>1. pc' # "follow"
    BY <1>5 DEF Next, Working, Open, AddTriple, BeginPull, PullInverse, BeginInverse,
       AddInverseEdges, BeginRolls, NextPredicate, BeginRollup, SkipRollup, SaveIndex,
       AbortRollup, BeginObjects, EndRollup, BeginCommit, CommitStore, CommitReturns,
       CommitFails, Crash, Drop
  <2> QED
    BY <2>1 DEF SearchSound
<1> QED
  BY <1>1, <1>2, <1>3, <1>4, <1>5

\* The index of the transaction stays sound.
LEMMA MemSoundStep ==
    ASSUME IndexInv, Next
    PROVE  ExtSound(mem.ext, mem.graph)'
<1>0. mem \in StoreType /\ mem.ext \in ExtType /\ TypeInv
  BY DEF IndexInv, GrowInv, TypeInv, TypeOK, StoreType
<1>1. CASE AddTriple \/ AddInverseEdges \/ BeginFollow
  <2>1. /\ mem'.ext.outp = mem.ext.outp /\ mem'.ext.inp = mem.ext.inp
    <3>1. CASE AddTriple
      <4> DEFINE t == Head(todo)
                 known == WithURIs(mem, {t[1], t[2], t[3], PlusKey[t[2]]})
      <4>1. mem' = [known EXCEPT !.graph = WithEdges(@, t), !.pred = @ \cup {t}]
        BY <3>1 DEF AddTriple
      <4>2. known.ext = mem.ext
        BY <1>0 DEF WithURIs, StoreType
      <4>3. mem'.ext = known.ext
        <5> HIDE DEF known
        <5> QED BY <1>0, <4>1
      <4> QED
        BY <4>2, <4>3
    <3>2. CASE AddInverseEdges
      BY <1>0, <3>2 DEF AddInverseEdges, WithInverseEdges, StoreType
    <3>3. CASE BeginFollow
      BY <1>0, <3>3 DEF BeginFollow, StoreType, ExtType
    <3> QED
      BY <1>1, <3>1, <3>2, <3>3
  <2>2. Grows(mem, mem')
    BY <1>0, <1>1, TransactionGrows DEF Working
  <2>3. ExtSound(mem.ext, mem'.graph)
    BY <2>2, ExtSoundMonotone DEF IndexInv, Grows
  <2> QED
    BY <2>1, <2>3 DEF ExtSound
<1>2. CASE SaveIndex
  <2> DEFINE p == Head(rolls)
             far == FarHalf(mem.ext, p, results \ {base})
             saved == NearHalf(far, p, results)
  <2>1. p \in Key /\ base \in Key /\ results \subseteq Key
    BY <1>0, <1>2 DEF TypeInv, TypeOK, ControlOK, SaveIndex
  <2>2. \A k \in results : Linked(k)
    BY <1>2 DEF IndexInv, SearchSound, SaveIndex
  <2>3. far \in ExtType
    BY <1>0, <2>1, HalvesType
  <2>4. ExtSound(far, mem.graph)
    BY <1>0, <2>2, HalvesSound DEF IndexInv
  <2>5. ExtSound(saved, mem.graph)
    BY <2>2, <2>3, <2>4, HalvesSound
  <2>6. mem' = [mem EXCEPT !.ext = saved]
    BY <1>2 DEF SaveIndex
  <2> HIDE DEF saved
  <2>7. mem'.ext = saved /\ mem'.graph = mem.graph
    BY <1>0, <2>6 DEF StoreType
  <2> QED
    BY <2>5, <2>7
<1>3. CASE AbortRollup
  <2>1. PICK done \in SUBSET (results \cap mem.ext.has) :
           mem' = [mem EXCEPT !.ext = FarHalf(@, Head(rolls), done)]
    BY <1>3 DEF AbortRollup
  <2> DEFINE far == FarHalf(mem.ext, Head(rolls), done)
  <2>2. \A k \in done : Linked(k)
    BY <1>3 DEF IndexInv, SearchSound, AbortRollup
  <2>3. ExtSound(far, mem.graph)
    BY <1>0, <2>2, HalvesSound DEF IndexInv
  <2>4. mem' = [mem EXCEPT !.ext = far]
    BY <2>1
  <2> HIDE DEF far
  <2>5. mem'.ext = far /\ mem'.graph = mem.graph
    BY <1>0, <2>4 DEF StoreType
  <2> QED
    BY <2>3, <2>5
<1>4. CASE mem' = mem \/ mem' = disk
  BY <1>4 DEF IndexInv
<1> QED
  BY <1>1, <1>2, <1>3, <1>4
     DEF Next, Working, BeginPull, PullInverse, BeginInverse, BeginRolls, NextPredicate,
         BeginRollup, SkipRollup, FollowAgain, FollowReturns, FollowEdges, BeginObjects,
         EndRollup, BeginCommit, CommitStore, CommitReturns, Open, CommitFails, Crash, Drop

\* The committed index stays sound, whichever store was committed last.
LEMMA DiskSoundStep ==
    ASSUME IndexInv, Next
    PROVE  /\ ExtSound(disk.ext, disk.graph)'
           /\ (pc = "commit" /\ committed >= 3 => disk.graph = mem.graph)'
<1>0. disk \in StoreType /\ mem \in StoreType /\ TypeInv
  BY DEF IndexInv, GrowInv, TypeInv, TypeOK
<1>1. CASE CommitStore
  <2>1. /\ mem' = mem /\ committed' = committed + 1 /\ committed \in 0 .. 4 /\ pc = "commit"
    BY <1>0, <1>1, Committing DEF CommitStore
  <2>2. CASE committed \notin {2, 3}
    <3>1. disk'.ext = disk.ext /\ disk'.graph = disk.graph
      BY <1>0, <1>1, <2>1, <2>2, CommitStoreEffect DEF StoreType
    <3> QED
      BY <2>1, <2>2, <3>1 DEF IndexInv
  <2>3. CASE committed = 2
    <3>1. disk'.ext = disk.ext /\ disk'.graph = mem.graph
      BY <1>0, <1>1, <2>3, CommitStoreEffect DEF StoreType
    <3>2. ExtSound(disk.ext, mem.graph)
      BY ExtSoundMonotone DEF IndexInv, GrowInv, Grows
    <3> QED
      BY <2>1, <3>1, <3>2
  <2>4. CASE committed = 3
    <3>1. disk'.ext = mem.ext /\ disk'.graph = disk.graph
      BY <1>0, <1>1, <2>4, CommitStoreEffect DEF StoreType
    <3>2. disk.graph = mem.graph
      BY <2>1, <2>4 DEF IndexInv
    <3> QED
      BY <2>1, <3>1, <3>2 DEF IndexInv
  <2> QED
    BY <2>2, <2>3, <2>4
<1>2. CASE ~ CommitStore
  <2>1. disk' = disk
    BY <1>2, OnlyCommitWrites
  <2>2. pc' = "commit" => pc # "commit" /\ committed' = 0
    BY <1>0, <1>2 DEF Next, Working, Open, AddTriple, BeginPull, PullInverse, BeginInverse,
       AddInverseEdges, BeginRolls, NextPredicate, BeginRollup, SkipRollup, BeginFollow,
       FollowAgain, FollowReturns, FollowEdges, SaveIndex, AbortRollup, BeginObjects,
       EndRollup, BeginCommit, CommitReturns, CommitFails, Crash, Drop,
       TypeInv, ControlOK
  <2> QED
    BY <2>1, <2>2 DEF IndexInv
<1> QED
  BY <1>1, <1>2

\* The index is empty at the start.
LEMMA IndexInit == Init => IndexInv
<1>1. Init => Grows(disk, mem) /\ SearchSound /\ (pc # "commit")
  BY DEF Init, Grows, SearchSound
<1>2. Init => ExtSound(mem.ext, mem.graph) /\ ExtSound(disk.ext, disk.graph)
  BY DEF Init, EmptyStores, ExtSound
<1> QED
  BY <1>1, <1>2, TypeInit DEF IndexInv, GrowInv

\* Every step keeps both copies of the index and the search sound.
LEMMA IndexStep == IndexInv /\ [Next]_vars => IndexInv'
<1> SUFFICES ASSUME IndexInv, [Next]_vars
             PROVE  IndexInv'
  OBVIOUS
<1>1. GrowInv'
  BY GrowStep DEF IndexInv
<1>2. CASE Next
  BY <1>1, <1>2, SearchStep, MemSoundStep, DiskSoundStep DEF IndexInv
<1>3. CASE UNCHANGED vars
  BY <1>1, <1>3 DEF vars, loopVars, IndexInv, SearchSound, Linked
<1> QED
  BY <1>2, <1>3

\* What the extended index claims is a path of the graph store, at every moment:
\* between the commits of two stores and after a failed commit or a crash too.
THEOREM IndexAlwaysSound == Spec => []IndexSound
<1>1. IndexInv => IndexSound
  BY DEF IndexInv, IndexSound
<1> QED
  BY <1>1, IndexInit, IndexStep, PTL DEF Spec

-----------------------------------------------------------------------------
(* What the predicate store lists is in the graph store.                   *)

PredSound(pred, graph) ==
    \A t \in pred : /\ {t[1], t[3]} \subseteq graph.node
                    /\ t \in graph.in \cup graph.out

PredInv ==
    /\ IndexInv
    /\ PredSound(mem.pred, mem.graph)
    /\ PredSound(disk.pred, disk.graph)

\* addTriple never adds to the predicate store what it does not add to the graph.
LEMMA MemPredStep ==
    ASSUME PredInv, Next
    PROVE  PredSound(mem.pred, mem.graph)'
<1>0. mem \in StoreType
  BY DEF PredInv, IndexInv, GrowInv, TypeInv, TypeOK
<1>1. CASE AddTriple
  <2> DEFINE t == Head(todo)
             uris == {t[1], t[2], t[3], PlusKey[t[2]]}
             known == WithURIs(mem, uris)
  <2>1. mem' = [known EXCEPT !.graph = WithEdges(@, t), !.pred = @ \cup {t}]
    BY <1>1 DEF AddTriple
  <2>2. known.pred = mem.pred /\ known.graph.in = mem.graph.in
          /\ known.graph.out = mem.graph.out
          /\ known.graph.node = mem.graph.node \cup uris
    BY <1>0 DEF WithURIs, StoreType, GraphType
  <2>3. known \in [entity : SUBSET (Key \cup uris), pk : SUBSET (Key \cup uris),
                   graph : [node : SUBSET (Key \cup uris),
                            out : SUBSET Triple, in : SUBSET Triple],
                   ext : ExtType, pred : SUBSET Triple]
    BY <1>0 DEF WithURIs, StoreType, GraphType
  <2> HIDE DEF known
  <2>4. /\ mem'.pred = known.pred \cup {t} /\ mem'.graph.node = known.graph.node
        /\ t \in mem'.graph.in /\ known.graph.in \subseteq mem'.graph.in
        /\ known.graph.out \subseteq mem'.graph.out
    BY <2>1, <2>3 DEF WithEdges
  <2> QED
    BY <2>2, <2>4 DEF PredInv, PredSound
<1>2. CASE AddInverseEdges
  <2>1. PICK p \in preds : mem' = WithInverseEdges(mem, p, inverseRelationships[p])
    BY <1>2 DEF AddInverseEdges
  <2> DEFINE fwd == {t \in mem.pred : t[2] = p}
             back == Reversed(fwd, inverseRelationships[p])
  <2>2. /\ mem'.pred = mem.pred \cup back /\ mem'.graph.node = mem.graph.node
        /\ mem.graph.in \subseteq mem'.graph.in
        /\ mem.graph.out \cup back \subseteq mem'.graph.out
    BY <1>0, <2>1 DEF WithInverseEdges, StoreType, GraphType
  <2>3. \A t \in back : {t[1], t[3]} \subseteq mem.graph.node
    BY DEF Reversed, PredInv, PredSound
  <2> HIDE DEF back
  <2> QED
    BY <2>2, <2>3 DEF PredInv, PredSound
<1>3. CASE BeginFollow \/ SaveIndex \/ AbortRollup
  <2>1. mem'.pred = mem.pred /\ mem'.graph = mem.graph
    BY <1>0, <1>3 DEF BeginFollow, SaveIndex, AbortRollup, StoreType
  <2> QED
    BY <2>1 DEF PredInv
<1>4. CASE mem' = mem \/ mem' = disk
  BY <1>4 DEF PredInv
<1> QED
  BY <1>1, <1>2, <1>3, <1>4
     DEF Next, Working, BeginPull, PullInverse, BeginInverse, BeginRolls, NextPredicate,
         BeginRollup, SkipRollup, FollowAgain, FollowReturns, FollowEdges, BeginObjects,
         EndRollup, BeginCommit, CommitStore, CommitReturns, Open, CommitFails, Crash, Drop

\* The predicate store is never committed before the graph.
LEMMA DiskPredStep ==
    ASSUME PredInv, Next
    PROVE  PredSound(disk.pred, disk.graph)'
<1>0. disk \in StoreType /\ mem \in StoreType /\ TypeInv
  BY DEF PredInv, IndexInv, GrowInv, TypeInv, TypeOK
<1>1. CASE CommitStore
  <2>1. pc = "commit" /\ committed \in 0 .. 4
    BY <1>0, <1>1, Committing DEF CommitStore
  <2>2. CASE committed = 4
    <3>1. disk'.pred = mem.pred /\ disk'.graph = mem.graph
      BY <1>0, <1>1, <2>1, <2>2, CommitStoreEffect DEF StoreType, PredInv, IndexInv
    <3> QED
      BY <3>1 DEF PredInv
  <2>3. CASE committed # 4
    <3>1. disk'.pred = disk.pred /\ Grows(disk, disk')
      BY <1>0, <1>1, <2>3, CommitStoreEffect, CommitGrows DEF StoreType, PredInv, IndexInv
    <3> QED
      BY <3>1 DEF PredInv, PredSound, Grows
  <2> QED
    BY <2>2, <2>3
<1>2. CASE ~ CommitStore
  BY <1>2, OnlyCommitWrites DEF PredInv
<1> QED
  BY <1>1, <1>2

\* A query that takes keys from the predicate store finds their nodes and edges
\* in the graph store, because commit() commits the graph store first.
THEOREM PredicatesInGraph == Spec => []PredInGraph
<1>1. Init => PredInv
  <2>1. Init => PredSound(mem.pred, mem.graph) /\ PredSound(disk.pred, disk.graph)
    BY DEF Init, EmptyStores, PredSound
  <2> QED
    BY <2>1, IndexInit DEF PredInv
<1>2. PredInv /\ [Next]_vars => PredInv'
  <2> SUFFICES ASSUME PredInv, [Next]_vars
               PROVE  PredInv'
    OBVIOUS
  <2>1. CASE Next
    BY <2>1, IndexStep, MemPredStep, DiskPredStep DEF PredInv
  <2>2. CASE UNCHANGED vars
    BY <2>2, IndexStep DEF vars, PredInv, PredSound
  <2> QED
    BY <2>1, <2>2
<1>3. PredInv => PredInGraph
  BY DEF PredInv, PredSound, PredInGraph
<1> QED
  BY <1>1, <1>2, <1>3, PTL DEF Spec

-----------------------------------------------------------------------------
(* A batch that was inserted without error is where queries look for it.   *)

\* A triple is held by the stores s: everything BatchDurable asks for it.
Held(s, t) ==
    /\ {t[1], t[2], t[3], PlusKey[t[2]]} \subseteq s.entity \cap s.graph.node
    /\ t \in s.graph.in \cap s.pred
    /\ t[1] # t[3] => t \in s.graph.out

\* Each triple of the batch is held by the transaction or has still to be added.
BatchMet ==
    /\ pc = "add" =>
          \A i \in DOMAIN batch :
             Held(mem, batch[i]) \/ \E j \in DOMAIN todo : todo[j] = batch[i]
    /\ pc \notin {"idle", "add"} => \A i \in DOMAIN batch : Held(mem, batch[i])

\* The stores committed so far are those of the transaction, and no insert that
\* is still running has returned.
CommitMet ==
    /\ pc = "commit" =>
          /\ committed >= 1 => disk.entity = mem.entity
          /\ committed >= 3 => disk.graph = mem.graph
          /\ committed >= 5 => disk.pred = mem.pred
    /\ pc # "idle" => outcome = "none"

DurableInv ==
    /\ GrowInv
    /\ BatchMet
    /\ CommitMet
    /\ BatchDurable

\* A held triple stays held when stores grow.
LEMMA HeldGrows ==
    ASSUME NEW s, NEW r, Grows(s, r), NEW t, Held(s, t)
    PROVE  Held(r, t)
BY DEF Held, Grows

\* addTriple leaves its triple held, whatever the stores knew of it before.
LEMMA AddTripleHolds ==
    ASSUME TypeInv, AddTriple
    PROVE  Held(mem', Head(todo))
<1> DEFINE t == Head(todo)
           uris == {t[1], t[2], t[3], PlusKey[t[2]]}
           known == WithURIs(mem, uris)
<1>0. mem \in StoreType
  BY DEF TypeInv, TypeOK
<1>1. mem' = [known EXCEPT !.graph = WithEdges(@, t), !.pred = @ \cup {t}]
  BY DEF AddTriple
<1>2. /\ known.entity = mem.entity \cup uris
      /\ known.graph.node = mem.graph.node \cup uris
  BY <1>0 DEF WithURIs, StoreType, GraphType
<1>3. known \in [entity : SUBSET (Key \cup uris), pk : SUBSET (Key \cup uris),
                 graph : [node : SUBSET (Key \cup uris),
                          out : SUBSET Triple, in : SUBSET Triple],
                 ext : ExtType, pred : SUBSET Triple]
  BY <1>0 DEF WithURIs, StoreType, GraphType
<1> HIDE DEF known
<1>4. /\ mem'.entity = known.entity /\ mem'.graph.node = known.graph.node
      /\ t \in mem'.graph.in /\ t \in mem'.pred
      /\ t[1] # t[3] => t \in mem'.graph.out
  BY <1>1, <1>3 DEF WithEdges
<1> HIDE DEF t
<1>5. uris \subseteq mem'.entity \cap mem'.graph.node
  BY <1>2, <1>4
<1>6. Held(mem', t)
  BY <1>4, <1>5 DEF Held
<1> QED
  BY <1>6 DEF t

\* addTriples passes no triple of its batch that it has not added.
LEMMA BatchMetStep ==
    ASSUME DurableInv, Next
    PROVE  BatchMet'
<1>0. TypeInv /\ todo \in Seq(Triple) /\ batch \in Seq(Triple)
  BY DEF DurableInv, GrowInv, TypeInv, TypeOK
<1>1. CASE AddTriple
  <2>1. Grows(mem, mem') /\ Held(mem', Head(todo))
    BY <1>0, <1>1, TransactionGrows, AddTripleHolds DEF Working
  <2>2. pc = "add" /\ pc' = "add" /\ batch' = batch /\ todo # <<>> /\ todo' = Tail(todo)
    BY <1>1 DEF AddTriple
  <2>3. ASSUME NEW i \in DOMAIN batch
        PROVE  Held(mem', batch[i]) \/ \E j \in DOMAIN todo' : todo'[j] = batch[i]
    <3>1. CASE Held(mem, batch[i])
      BY <2>1, <3>1, HeldGrows
    <3>2. ASSUME NEW j \in DOMAIN todo, todo[j] = batch[i]
          PROVE  Held(mem', batch[i]) \/ \E k \in DOMAIN todo' : todo'[k] = batch[i]
      <4>1. CASE j = 1
        BY <1>0, <2>1, <2>2, <3>2, <4>1
      <4>2. CASE j # 1
        <5>1. j - 1 \in DOMAIN Tail(todo) /\ Tail(todo)[j - 1] = todo[j]
          BY <1>0, <2>2, <4>2
        <5> QED
          BY <2>2, <3>2, <5>1
      <4> QED
        BY <4>1, <4>2
    <3> QED
      BY <2>2, <3>1, <3>2 DEF DurableInv, BatchMet
  <2> QED
    BY <2>2, <2>3 DEF BatchMet
<1>2. CASE BeginPull
  <2>1. pc = "add" /\ todo = <<>> /\ pc' = "pull" /\ batch' = batch /\ mem' = mem
    BY <1>2 DEF BeginPull
  <2>2. \A i \in DOMAIN batch : Held(mem, batch[i])
    BY <2>1 DEF DurableInv, BatchMet
  <2> QED
    BY <2>1, <2>2 DEF BatchMet
<1>3. CASE Open
  <2>1. pc' = "add" /\ batch' = todo'
    BY <1>3 DEF Open
  <2> QED
    BY <2>1 DEF BatchMet
<1>4. CASE pc' = "idle"
  BY <1>4 DEF BatchMet
<1>5. CASE Working /\ ~ AddTriple /\ ~ BeginPull /\ pc' # "idle"
  <2>1. Grows(mem, mem')
    BY <1>0, <1>5, TransactionGrows
  <2>2. batch' = batch /\ pc \notin {"idle", "add"} /\ pc' \notin {"idle", "add"}
    BY <1>5 DEF Working, PullInverse, BeginInverse, AddInverseEdges, BeginRolls,
       NextPredicate, BeginRollup, SkipRollup, BeginFollow, FollowAgain, FollowReturns,
       FollowEdges, SaveIndex, AbortRollup, BeginObjects, EndRollup, BeginCommit,
       CommitStore, CommitReturns
  <2>3. \A i \in DOMAIN batch : Held(mem', batch[i])
    BY <2>1, <2>2, HeldGrows DEF DurableInv, BatchMet
  <2> QED
    BY <2>2, <2>3 DEF BatchMet
<1> QED
  BY <1>1, <1>2, <1>3, <1>4, <1>5 DEF Next, CommitFails, Crash, Drop

\* commit() passes no store that it has not committed.
LEMMA CommitMetStep ==
    ASSUME DurableInv, Next
    PROVE  CommitMet'
<1>0. disk \in StoreType /\ mem \in StoreType /\ TypeInv
  BY DEF DurableInv, GrowInv, TypeInv, TypeOK
<1>1. CASE CommitStore
  <2>1. /\ pc = "commit" /\ committed \in 0 .. 4 /\ committed' = committed + 1
        /\ mem' = mem /\ outcome' = outcome /\ pc' = pc
    BY <1>0, <1>1, Committing DEF CommitStore
  <2>2. outcome = "none"
    BY <2>1 DEF DurableInv, CommitMet
  <2>3. /\ committed' >= 1 => disk'.entity = mem.entity
        /\ committed' >= 3 => disk'.graph = mem.graph
        /\ committed' >= 5 => disk'.pred = mem.pred
    BY <1>0, <1>1, <2>1, CommitStoreEffect DEF StoreType, DurableInv, CommitMet
  <2> QED
    BY <2>1, <2>2, <2>3 DEF CommitMet
<1>2. CASE ~ CommitStore
  <2>1. pc' = "commit" => pc # "commit" /\ committed' = 0
    BY <1>0, <1>2 DEF Next, Working, Open, AddTriple, BeginPull, PullInverse, BeginInverse,
       AddInverseEdges, BeginRolls, NextPredicate, BeginRollup, SkipRollup, BeginFollow,
       FollowAgain, FollowReturns, FollowEdges, SaveIndex, AbortRollup, BeginObjects,
       EndRollup, BeginCommit, CommitReturns, CommitFails, Crash, Drop,
       TypeInv, ControlOK
  <2>2. pc' # "idle" => outcome' = "none"
    BY <1>2 DEF DurableInv, CommitMet, Next, Working, Open, AddTriple, BeginPull,
       PullInverse, BeginInverse, AddInverseEdges, BeginRolls, NextPredicate, BeginRollup,
       SkipRollup, BeginFollow, FollowAgain, FollowReturns, FollowEdges, SaveIndex,
       AbortRollup, BeginObjects, EndRollup, BeginCommit, CommitReturns, CommitFails,
       Crash, Drop
  <2> QED
    BY <2>1, <2>2 DEF CommitMet
<1> QED
  BY <1>1, <1>2

\* An insert returns without error only after its five commits.
LEMMA ReturnsOk ==
    ASSUME TypeInv, CommitMet, Next, outcome' = "ok", outcome # "ok"
    PROVE  /\ CommitReturns
           /\ disk' = disk /\ mem' = mem /\ batch' = batch
           /\ disk.entity = mem.entity /\ disk.graph = mem.graph /\ disk.pred = mem.pred
<1>1. CommitReturns
  BY DEF Next, Working, Open, AddTriple, BeginPull, PullInverse, BeginInverse,
     AddInverseEdges, BeginRolls, NextPredicate, BeginRollup, SkipRollup, BeginFollow,
     FollowAgain, FollowReturns, FollowEdges, SaveIndex, AbortRollup, BeginObjects,
     EndRollup, BeginCommit, CommitStore, CommitFails, Crash, Drop
<1>2. pc = "commit" /\ committed = 5
  BY <1>1 DEF CommitReturns, CommitOrder
<1> QED
  BY <1>1, <1>2 DEF CommitMet, CommitReturns

\* While the result of the last insert stands, nothing it is about changes.
LEMMA OkStays ==
    ASSUME CommitMet, Next, outcome' = "ok", outcome = "ok"
    PROVE  disk' = disk /\ batch' = batch
<1>1. pc = "idle"
  BY DEF CommitMet
<1> QED
  BY <1>1 DEF Next, Working, Open, AddTriple, BeginPull, PullInverse, BeginInverse,
     AddInverseEdges, BeginRolls, NextPredicate, BeginRollup, SkipRollup, BeginFollow,
     FollowAgain, FollowReturns, FollowEdges, SaveIndex, AbortRollup, BeginObjects,
     EndRollup, BeginCommit, CommitStore, CommitReturns, CommitFails, Crash, Drop

\* BatchDurable in terms of Held.
LEMMA DurableMeans ==
    BatchDurable <=> (outcome = "ok" => \A i \in DOMAIN batch : Held(disk, batch[i]))
BY DEF BatchDurable, Held

\* Every step keeps what a returned insert added.
LEMMA DurableStep == DurableInv /\ [Next]_vars => DurableInv'
<1> SUFFICES ASSUME DurableInv, [Next]_vars
             PROVE  DurableInv'
  OBVIOUS
<1>1. GrowInv'
  BY GrowStep DEF DurableInv
<1>2. CASE Next
  <2>1. BatchMet' /\ CommitMet'
    BY <1>2, BatchMetStep, CommitMetStep
  <2>2. outcome' = "ok" => \A i \in DOMAIN batch' : Held(disk', batch'[i])
    <3>1. CASE outcome = "ok"
      BY <1>2, <3>1, OkStays, DurableMeans DEF DurableInv
    <3>2. CASE outcome' = "ok" /\ outcome # "ok"
      <4>1. /\ disk' = disk /\ batch' = batch /\ pc = "commit"
            /\ disk.entity = mem.entity /\ disk.graph = mem.graph /\ disk.pred = mem.pred
        BY <1>2, <3>2, ReturnsOk DEF DurableInv, GrowInv, CommitReturns
      <4>2. \A i \in DOMAIN batch : Held(mem, batch[i])
        BY <4>1 DEF DurableInv, BatchMet
      <4> QED
        BY <4>1, <4>2 DEF Held
    <3> QED
      BY <3>1, <3>2
  <2>3. BatchDurable'
    BY <2>2 DEF BatchDurable, Held
  <2> QED
    BY <1>1, <2>1, <2>3 DEF DurableInv
<1>3. CASE UNCHANGED vars
  BY <1>1, <1>3 DEF vars, DurableInv, BatchMet, CommitMet, BatchDurable, Held
<1> QED
  BY <1>2, <1>3

\* No insert has returned at the start.
LEMMA DurableInit == Init => DurableInv
<1>1. Init => GrowInv
  BY TypeInit DEF Init, GrowInv, Grows
<1> QED
  BY <1>1 DEF Init, DurableInv, BatchMet, CommitMet, BatchDurable

\* What the transaction holds of its batch, and which stores are committed.
THEOREM DurableInvariant == Spec => []DurableInv
BY DurableInit, DurableStep, PTL DEF Spec

\* An insert that returned without error left its whole batch where the queries
\* look for it, whatever commits and crashes tore before it (addTriple, commit).
THEOREM InsertsAreDurable == Spec => []BatchDurable
<1>1. DurableInv => BatchDurable
  BY DEF DurableInv
<1> QED
  BY <1>1, DurableInvariant, PTL

-----------------------------------------------------------------------------
(* Inverse predicates mirror each other.                                   *)

\* No batch declares owl:inverseOf itself to have an inverse.  Of a batch that
\* does, the second pass of addTriples may derive new declarations, which it has
\* already stopped looking for.
PlainDeclarations ==
    \A b \in Batches : \A i \in DOMAIN b :
        b[i][2] = InverseOf => b[i][1] # InverseOf /\ b[i][3] # InverseOf

\* The triples F declare p and q to be inverse to each other.
Joins(t, p, q) ==
    t[2] = InverseOf /\ ((t[1] = p /\ t[3] = q) \/ (t[1] = q /\ t[3] = p))
Declares(F, p, q) == \E t \in F : Joins(t, p, q)

Plain(F) == \A t \in F : t[2] = InverseOf => t[1] # InverseOf /\ t[3] # InverseOf

OneInverseIn(F, p) ==
    \A q, r \in Key : Declares(F, p, q) /\ Declares(F, p, r) => q = r

\* The stores s have the inverse edge of t, with predicate q.
Reflected(s, t, q) ==
    /\ <<t[3], q, t[1]>> \in s.pred
    /\ t[1] # t[3] => <<t[3], q, t[1]>> \in s.graph.in \cap s.graph.out

\* The triples being added are those of one of the batches.
BatchOK ==
    /\ pc # "idle" => batch \in Batches
    /\ pc = "add" => \A j \in DOMAIN todo : \E i \in DOMAIN batch : todo[j] = batch[i]

\* inverseRelationships has only declared pairs, and after the pull one for every
\* predicate that has an inverse.
PairsOK ==
    /\ pc # "idle" =>
          \A k \in Key : inverseRelationships[k] # NoKey =>
                            Declares(mem.pred, k, inverseRelationships[k])
    /\ pc = "pull" =>
          /\ \A e \in pairs : Declares(mem.pred, e[1], e[2])
          /\ \A k, q \in Key : Declares(mem.pred, k, q) =>
                \/ inverseRelationships[k] # NoKey
                \/ \E e \in pairs : e[1] = k \/ e[2] = k
    /\ pc \notin {"idle", "add", "pull"} =>
          \A k, q \in Key : Declares(mem.pred, k, q) => inverseRelationships[k] # NoKey

\* Every triple of a predicate with one inverse is reflected, unless the range
\* loop has still to visit the predicate.
Settled(waiting) ==
    \A p \in Key \ waiting :
        inverseRelationships[p] # NoKey /\ OneInverseIn(mem.pred, p) =>
            \A t \in mem.pred :
                t[2] = p => Reflected(mem, t, inverseRelationships[p])

MirrorOK ==
    /\ pc = "inverse" => Settled(preds)
    /\ pc \notin {"idle", "add", "pull", "inverse"} => Settled({})

MirrorInv ==
    /\ DurableInv
    /\ BatchOK
    /\ Plain(mem.pred) /\ Plain(disk.pred)
    /\ PairsOK
    /\ MirrorOK
    /\ InverseClosed

\* A declaration stays one when more triples are known.
LEMMA DeclaresMonotone ==
    ASSUME NEW F, NEW G, F \subseteq G, NEW p, NEW q, Declares(F, p, q)
    PROVE  Declares(G, p, q)
BY DEF Declares

\* A declaration is one both ways.
LEMMA DeclaresSymmetric ==
    ASSUME NEW F, NEW p, NEW q, Declares(F, p, q)
    PROVE  Declares(F, q, p)
BY DEF Declares, Joins

\* Triples of other predicates declare nothing.
LEMMA DeclaresOnly ==
    ASSUME NEW F, NEW G, \A t \in G : t[2] # InverseOf, NEW p, NEW q,
           Declares(F \cup G, p, q)
    PROVE  Declares(F, p, q)
BY DEF Declares, Joins

\* DeclaredInverse in terms of Declares.
LEMMA DeclaredMeans ==
    ASSUME NEW p, NEW q
    PROVE  DeclaredInverse(p, q) <=> Declares(disk.pred, p, q)
BY DEF DeclaredInverse, Declares, Joins

\* What addTriple puts into the predicate store and the inverse map.
LEMMA AddTriplePred ==
    ASSUME TypeInv, AddTriple
    PROVE  mem'.pred = mem.pred \cup {Head(todo)}
<1> DEFINE t == Head(todo)
           uris == {t[1], t[2], t[3], PlusKey[t[2]]}
           known == WithURIs(mem, uris)
<1>0. mem \in StoreType
  BY DEF TypeInv, TypeOK
<1>1. mem' = [known EXCEPT !.graph = WithEdges(@, t), !.pred = @ \cup {t}]
  BY DEF AddTriple
<1>2. known.pred = mem.pred
  BY <1>0 DEF WithURIs, StoreType, GraphType
<1>3. known \in [entity : SUBSET (Key \cup uris), pk : SUBSET (Key \cup uris),
                 graph : [node : SUBSET (Key \cup uris),
                          out : SUBSET Triple, in : SUBSET Triple],
                 ext : ExtType, pred : SUBSET Triple]
  BY <1>0 DEF WithURIs, StoreType, GraphType
<1> HIDE DEF known
<1> QED
  BY <1>1, <1>2, <1>3

\* The inverse edges of predicate p of the stores s.
Back(s, p, q) == Reversed({t \in s.pred : t[2] = p}, q)

\* What one round of the second pass puts into the stores.
LEMMA InverseEdgesEffect ==
    ASSUME NEW s \in StoreType, NEW p, NEW q, NEW r, r = WithInverseEdges(s, p, q)
    PROVE  /\ r.pred = s.pred \cup Back(s, p, q)
           /\ \A t \in s.pred : t[2] = p => Reflected(r, t, q)
           /\ \A t \in s.pred : t[2] = p =>
                 t \in r.graph.in /\ (t[1] # t[3] => t \in r.graph.out)
<1> DEFINE fwd == {t \in s.pred : t[2] = p}
           proper == {t \in fwd : t[1] # t[3]}
<1>1. /\ r.pred = s.pred \cup Reversed(fwd, q)
      /\ r.graph.out = s.graph.out \cup proper \cup Reversed(fwd, q)
      /\ r.graph.in = s.graph.in \cup fwd \cup Reversed(proper, q)
  BY DEF WithInverseEdges, StoreType, GraphType
<1>2. ASSUME NEW t \in s.pred, t[2] = p
      PROVE  /\ t \in fwd /\ <<t[3], q, t[1]>> \in Reversed(fwd, q)
             /\ t[1] # t[3] => t \in proper /\ <<t[3], q, t[1]>> \in Reversed(proper, q)
  BY <1>2 DEF Reversed
<1> HIDE DEF fwd, proper
<1>3. \A t \in s.pred : t[2] = p => Reflected(r, t, q)
  BY <1>1, <1>2 DEF Reflected
<1>4. \A t \in s.pred : t[2] = p => t \in r.graph.in /\ (t[1] # t[3] => t \in r.graph.out)
  BY <1>1, <1>2
<1> QED
  BY <1>1, <1>3, <1>4 DEF fwd, Back

\* The steps of a transaction that leave the predicate store, the graph and the
\* inverse map alone.
Rolling ==
    \/ NextPredicate \/ BeginRollup \/ SkipRollup \/ BeginFollow
    \/ FollowAgain \/ FollowReturns \/ FollowEdges
    \/ SaveIndex \/ AbortRollup \/ BeginObjects \/ EndRollup
    \/ BeginCommit \/ CommitStore \/ CommitReturns

\* The rollup leaves triples, edges and declarations alone.
LEMMA RollingKeeps ==
    ASSUME TypeInv, Rolling
    PROVE  /\ mem'.pred = mem.pred /\ mem'.graph = mem.graph
           /\ inverseRelationships' = inverseRelationships /\ batch' = batch
           /\ pc \in {"roll", "bases", "follow", "commit"}
           /\ pc' \in {"roll", "bases", "follow", "commit", "idle"}
<1>0. mem \in StoreType
  BY DEF TypeInv, TypeOK
<1>1. CASE BeginFollow \/ SaveIndex \/ AbortRollup
  <2>1. mem'.pred = mem.pred /\ mem'.graph = mem.graph
    BY <1>0, <1>1 DEF BeginFollow, SaveIndex, AbortRollup, StoreType
  <2> QED
    BY <1>1, <2>1 DEF BeginFollow, SaveIndex, AbortRollup, loopVars
<1>2. CASE ~ (BeginFollow \/ SaveIndex \/ AbortRollup)
  BY <1>2 DEF Rolling, NextPredicate, BeginRollup, SkipRollup, FollowAgain, FollowReturns,
     FollowEdges, BeginObjects, EndRollup, BeginCommit, CommitStore, CommitReturns, loopVars
<1> QED
  BY <1>1, <1>2

\* The steps of Next, by what they do to the second pass of addTriples.
LEMMA NextCases ==
    ASSUME Next
    PROVE  \/ Open \/ AddTriple \/ BeginPull \/ PullInverse \/ BeginInverse
           \/ AddInverseEdges \/ BeginRolls \/ Rolling
           \/ (pc' = "idle" /\ disk' = disk /\ mem' = disk)
BY DEF Next, Working, Rolling, CommitFails, Crash, Drop

\* An insert adds the triples of its own batch.
LEMMA BatchStep ==
    ASSUME TypeInv, BatchOK, Next
    PROVE  BatchOK'
<1>0. todo \in Seq(Triple)
  BY DEF TypeInv, TypeOK
<1>1. CASE Open
  <2>1. batch' \in Batches /\ todo' = batch'
    BY <1>1 DEF Open
  <2> QED
    BY <2>1 DEF BatchOK
<1>2. CASE AddTriple
  <2>1. pc = "add" /\ batch' = batch /\ todo # <<>> /\ todo' = Tail(todo)
    BY <1>2 DEF AddTriple
  <2>2. ASSUME NEW j \in DOMAIN Tail(todo)
        PROVE  j + 1 \in DOMAIN todo /\ Tail(todo)[j] = todo[j + 1]
    BY <1>0, <2>1
  <2> QED
    BY <2>1, <2>2 DEF BatchOK
<1>3. CASE ~ Open /\ ~ AddTriple
  <2>1. pc' = "idle" \/ (batch' = batch /\ pc # "idle" /\ pc' # "add")
    BY <1>3 DEF Next, Working, BeginPull, PullInverse, BeginInverse, AddInverseEdges,
       BeginRolls, NextPredicate, BeginRollup, SkipRollup, BeginFollow, FollowAgain,
       FollowReturns, FollowEdges, SaveIndex, AbortRollup, BeginObjects, EndRollup,
       BeginCommit, CommitStore, CommitReturns, CommitFails, Crash, Drop
  <2> QED
    BY <2>1 DEF BatchOK
<1> QED
  BY <1>1, <1>2, <1>3

\* The triple addTriple adds is one of its batch.
LEMMA HeadInBatch ==
    ASSUME TypeInv, BatchOK, AddTriple
    PROVE  batch \in Batches /\ \E i \in DOMAIN batch : batch[i] = Head(todo)
<1>1. pc = "add" /\ todo # <<>> /\ todo \in Seq(Triple)
  BY DEF AddTriple, TypeInv, TypeOK
<1>2. 1 \in DOMAIN todo /\ Head(todo) = todo[1]
  BY <1>1
<1> QED
  BY <1>1, <1>2 DEF BatchOK

\* The second pass adds no declaration: nothing is declared inverse to inverseOf.
LEMMA NoNewDeclarations ==
    ASSUME TypeInv, Plain(mem.pred), PairsOK, pc = "inverse", NEW p \in preds
    PROVE  \A t \in Back(mem, p, inverseRelationships[p]) : t[2] # InverseOf
<1>1. p \in Key /\ inverseRelationships[p] \in Key
  BY DEF TypeInv, TypeOK, ControlOK
<1>2. Declares(mem.pred, p, inverseRelationships[p])
  BY <1>1 DEF PairsOK
<1>3. inverseRelationships[p] # InverseOf
  BY <1>2 DEF Declares, Joins, Plain
<1> QED
  BY <1>3 DEF Back, Reversed

\* No step declares an inverse of owl:inverseOf.
LEMMA MemPlainStep ==
    ASSUME PlainDeclarations, MirrorInv, Next
    PROVE  Plain(mem.pred)' /\ Plain(disk.pred)'
<1>0. TypeInv /\ disk \in StoreType /\ mem \in StoreType
  BY DEF MirrorInv, DurableInv, GrowInv, TypeInv, TypeOK
<1>1. Plain(disk.pred)'
  <2>1. disk'.pred = disk.pred \/ disk'.pred = mem.pred
    BY <1>0, OnlyCommitWrites, CommitStoreEffect DEF StoreType
  <2> QED
    BY <2>1 DEF MirrorInv, Plain
<1>2. Plain(mem.pred)'
  <2>1. CASE AddTriple
    <3>1. PICK i \in DOMAIN batch : batch[i] = Head(todo)
      BY <1>0, <2>1, HeadInBatch DEF MirrorInv
    <3>2. batch \in Batches
      BY <1>0, <2>1, HeadInBatch DEF MirrorInv
    <3>3. mem'.pred = mem.pred \cup {batch[i]}
      BY <1>0, <2>1, <3>1, AddTriplePred
    <3> QED
      BY <3>2, <3>3 DEF MirrorInv, Plain, PlainDeclarations
  <2>2. CASE AddInverseEdges
    <3>1. PICK p \in preds : mem' = WithInverseEdges(mem, p, inverseRelationships[p])
      BY <2>2 DEF AddInverseEdges
    <3>2. mem'.pred = mem.pred \cup Back(mem, p, inverseRelationships[p])
      BY <1>0, <3>1, InverseEdgesEffect
    <3>3. \A t \in Back(mem, p, inverseRelationships[p]) : t[2] # InverseOf
      BY <1>0, <2>2, NoNewDeclarations DEF MirrorInv, AddInverseEdges
    <3> QED
      BY <3>2, <3>3 DEF MirrorInv, Plain
  <2>3. CASE mem' = mem \/ mem' = disk \/ Rolling
    <3>1. mem'.pred = mem.pred \/ mem'.pred = disk.pred
      BY <1>0, <2>3, RollingKeeps
    <3> QED
      BY <3>1 DEF MirrorInv, Plain
  <2> QED
    BY <2>1, <2>2, <2>3, NextCases
       DEF Open, BeginPull, PullInverse, BeginInverse, BeginRolls
<1> QED
  BY <1>1, <1>2

\* inverseRelationships has declared pairs only, and after the pull none is missing.
LEMMA PairsStep ==
    ASSUME MirrorInv, Next
    PROVE  PairsOK'
<1>0. TypeInv /\ TypeInv' /\ mem \in StoreType /\ PairsOK
  BY TypeStep DEF MirrorInv, DurableInv, GrowInv, TypeInv, TypeOK
<1>t. inverseRelationships \in [Key -> Key \cup {NoKey}]
  BY <1>0 DEF TypeInv, TypeOK
<1>1. CASE Open
  BY <1>1 DEF Open, PairsOK
<1>2. CASE AddTriple
  <2> DEFINE t == Head(todo)
  <2>1. /\ pc = "add" /\ pc' = "add" /\ t \in Triple
        /\ inverseRelationships' =
              IF t[2] = InverseOf THEN WithInverse(inverseRelationships, t[1], t[3])
              ELSE inverseRelationships
    BY <1>0, <1>2 DEF AddTriple, TypeInv, TypeOK
  <2>2. mem'.pred = mem.pred \cup {t}
    BY <1>0, <1>2, AddTriplePred
  <2> HIDE DEF t
  <2>3. ASSUME NEW k \in Key, inverseRelationships'[k] # NoKey
        PROVE  Declares(mem'.pred, k, inverseRelationships'[k])
    <3>1. CASE inverseRelationships'[k] = inverseRelationships[k]
      <4>1. Declares(mem.pred, k, inverseRelationships[k])
        BY <1>0, <2>1, <2>3, <3>1 DEF PairsOK
      <4> QED
        BY <2>2, <3>1, <4>1, DeclaresMonotone
    <3>2. CASE inverseRelationships'[k] # inverseRelationships[k]
      <4>1. Joins(t, k, inverseRelationships'[k])
        BY <1>t, <2>1, <3>2 DEF WithInverse, Joins, Triple
      <4> QED
        BY <2>2, <4>1 DEF Declares
    <3> QED
      BY <3>1, <3>2
  <2> QED
    BY <2>1, <2>3 DEF PairsOK
<1>3. CASE BeginPull
  <2>1. /\ pc = "add" /\ pc' = "pull" /\ mem' = mem
        /\ inverseRelationships' = inverseRelationships
        /\ pairs' = {<<t[1], t[3]>> : t \in {u \in mem.pred : u[2] = InverseOf}}
    BY <1>3 DEF BeginPull
  <2>2. \A e \in pairs' : Declares(mem.pred, e[1], e[2])
    BY <2>1 DEF Declares, Joins
  <2>3. ASSUME NEW k \in Key, NEW q \in Key, Declares(mem.pred, k, q)
        PROVE  \E e \in pairs' : e[1] = k \/ e[2] = k
    <3>1. PICK t \in mem.pred : Joins(t, k, q)
      BY <2>3 DEF Declares
    <3>2. <<t[1], t[3]>> \in pairs'
      BY <2>1, <3>1 DEF Joins
    <3> QED
      BY <3>1, <3>2 DEF Joins
  <2> QED
    BY <1>0, <2>1, <2>2, <2>3 DEF PairsOK
<1>4. CASE PullInverse
  <2>1. pc = "pull" /\ pc' = "pull" /\ mem' = mem /\ pairs \subseteq Key \X Key
    BY <1>0, <1>4 DEF PullInverse, TypeInv, TypeOK
  <2>2. PICK e \in pairs :
            /\ inverseRelationships' = WithInverse(inverseRelationships, e[1], e[2])
            /\ pairs' = pairs \ {e}
    BY <1>4 DEF PullInverse
  <2>3. e[1] \in Key /\ e[2] \in Key /\ Declares(mem.pred, e[1], e[2])
    BY <1>0, <2>1 DEF PairsOK
  <2>4. Declares(mem.pred, e[2], e[1])
    BY <2>3, DeclaresSymmetric
  <2>5. ASSUME NEW k \in Key
        PROVE  \/ k = e[1] /\ inverseRelationships'[k] = e[2]
               \/ k = e[2] /\ inverseRelationships'[k] = e[1]
               \/ k # e[1] /\ k # e[2] /\ inverseRelationships'[k] = inverseRelationships[k]
    BY <1>t, <2>2, <2>3 DEF WithInverse
  <2>6. ASSUME NEW k \in Key, inverseRelationships'[k] # NoKey
        PROVE  Declares(mem.pred, k, inverseRelationships'[k])
    BY <1>0, <2>1, <2>3, <2>4, <2>5, <2>6 DEF PairsOK
  <2>7. ASSUME NEW k \in Key, NEW q \in Key, Declares(mem.pred, k, q)
        PROVE  inverseRelationships'[k] # NoKey \/ \E d \in pairs' : d[1] = k \/ d[2] = k
    <3>1. CASE k = e[1] \/ k = e[2]
      BY <2>3, <2>5, <3>1
    <3>2. CASE k # e[1] /\ k # e[2]
      BY <1>0, <2>1, <2>2, <2>5, <2>7, <3>2 DEF PairsOK
    <3> QED
      BY <3>1, <3>2
  <2>8. \A d \in pairs' : Declares(mem.pred, d[1], d[2])
    BY <1>0, <2>1, <2>2 DEF PairsOK
  <2> QED
    BY <2>1, <2>6, <2>7, <2>8 DEF PairsOK
<1>5. CASE BeginInverse
  <2>1. /\ pc = "pull" /\ pairs = {} /\ pc' = "inverse" /\ mem' = mem
        /\ inverseRelationships' = inverseRelationships
    BY <1>5 DEF BeginInverse
  <2> QED
    BY <1>0, <2>1 DEF PairsOK
<1>6. CASE AddInverseEdges
  <2>1. PICK p \in preds : mem' = WithInverseEdges(mem, p, inverseRelationships[p])
    BY <1>6 DEF AddInverseEdges
  <2>2. /\ pc = "inverse" /\ pc' = "inverse"
        /\ inverseRelationships' = inverseRelationships
    BY <1>6 DEF AddInverseEdges
  <2>3. mem'.pred = mem.pred \cup Back(mem, p, inverseRelationships[p])
    BY <1>0, <2>1, InverseEdgesEffect
  <2>4. \A t \in Back(mem, p, inverseRelationships[p]) : t[2] # InverseOf
    BY <1>0, <2>2, NoNewDeclarations DEF MirrorInv
  <2>5. \A k, q : Declares(mem'.pred, k, q) => Declares(mem.pred, k, q)
    BY <2>3, <2>4, DeclaresOnly
  <2>6. \A k, q : Declares(mem.pred, k, q) => Declares(mem'.pred, k, q)
    BY <2>3, DeclaresMonotone
  <2> QED
    BY <1>0, <2>2, <2>5, <2>6 DEF PairsOK
<1>7. CASE BeginRolls
  <2>1. /\ pc = "inverse" /\ pc' = "roll" /\ mem' = mem
        /\ inverseRelationships' = inverseRelationships
    BY <1>7 DEF BeginRolls
  <2> QED
    BY <1>0, <2>1 DEF PairsOK
<1>8. CASE Rolling
  <2>1. /\ mem'.pred = mem.pred /\ inverseRelationships' = inverseRelationships
        /\ pc \in {"roll", "bases", "follow", "commit"}
        /\ pc' \in {"roll", "bases", "follow", "commit", "idle"}
    BY <1>0, <1>8, RollingKeeps
  <2> QED
    BY <1>0, <2>1 DEF PairsOK
<1>9. CASE pc' = "idle"
  BY <1>9 DEF PairsOK
<1> QED
  BY <1>1, <1>2, <1>3, <1>4, <1>5, <1>6, <1>7, <1>8, <1>9, NextCases

\* An inverse edge stays when stores grow.
LEMMA ReflectedGrows ==
    ASSUME NEW s, NEW r, Grows(s, r), NEW t, NEW q, Reflected(s, t, q)
    PROVE  Reflected(r, t, q)
BY DEF Reflected, Grows

\* One round of the second pass settles its predicate, and what it adds to the
\* inverse predicate is reflected already.
LEMMA AddInverseEdgesSettles ==
    ASSUME MirrorInv, AddInverseEdges
    PROVE  Settled(preds)'
<1>0. TypeInv /\ mem \in StoreType /\ PairsOK /\ pc = "inverse" /\ Settled(preds)
  BY DEF MirrorInv, DurableInv, GrowInv, TypeInv, TypeOK, AddInverseEdges, MirrorOK
<1>1. PICK p \in preds :
          /\ mem' = WithInverseEdges(mem, p, inverseRelationships[p])
          /\ preds' = preds \ {p}
  BY DEF AddInverseEdges
<1> DEFINE q == inverseRelationships[p]
<1>2. p \in Key /\ q \in Key /\ inverseRelationships' = inverseRelationships
  BY <1>0 DEF TypeInv, TypeOK, ControlOK, AddInverseEdges
<1>3. /\ mem'.pred = mem.pred \cup Back(mem, p, q)
      /\ \A t \in mem.pred : t[2] = p => Reflected(mem', t, q)
      /\ \A t \in mem.pred : t[2] = p =>
            t \in mem'.graph.in /\ (t[1] # t[3] => t \in mem'.graph.out)
  BY <1>0, <1>1, InverseEdgesEffect
<1>4. Grows(mem, mem')
  BY <1>0, TransactionGrows DEF Working
<1>5. Declares(mem.pred, q, p)
  <2>1. Declares(mem.pred, p, q)
    BY <1>0, <1>2 DEF PairsOK
  <2> QED
    BY <2>1, DeclaresSymmetric
<1> HIDE DEF q
<1>6. ASSUME NEW r \in Key, r \notin preds', inverseRelationships[r] # NoKey,
             OneInverseIn(mem'.pred, r), NEW t \in mem'.pred, t[2] = r
      PROVE  Reflected(mem', t, inverseRelationships[r])
  <2>0. OneInverseIn(mem.pred, r)
    BY <1>3, <1>6, DeclaresMonotone DEF OneInverseIn
  <2>1. CASE t \in mem.pred /\ r = p
    BY <1>3, <1>6, <2>1 DEF q
  <2>2. CASE t \in mem.pred /\ r # p
    <3>1. r \notin preds
      BY <1>1, <1>6, <2>2
    <3>2. Reflected(mem, t, inverseRelationships[r])
      BY <1>0, <1>6, <2>0, <2>2, <3>1 DEF Settled
    <3> QED
      BY <1>4, <3>2, ReflectedGrows
  <2>3. CASE t \in Back(mem, p, q)
    <3>1. PICK u \in mem.pred : u[2] = p /\ t = <<u[3], q, u[1]>>
      BY <2>3 DEF Back, Reversed
    <3>2. u \in Triple
      BY <1>0 DEF StoreType
    <3>3. r = q
      BY <1>6, <3>1
    <3>4. inverseRelationships[r] \in Key
      BY <1>0, <1>6 DEF TypeInv, TypeOK
    <3>5. Declares(mem.pred, r, inverseRelationships[r])
      BY <1>0, <1>6 DEF PairsOK
    <3>6. inverseRelationships[r] = p
      BY <1>2, <1>5, <2>0, <3>3, <3>4, <3>5 DEF OneInverseIn
    <3>7. u = <<u[1], p, u[3]>> /\ t[3] = u[1] /\ t[1] = u[3]
      BY <3>1, <3>2 DEF Triple
    <3>8. u \in mem'.pred /\ u \in mem'.graph.in /\ (u[1] # u[3] => u \in mem'.graph.out)
      BY <1>3, <3>1
    <3> QED
      BY <3>6, <3>7, <3>8 DEF Reflected
  <2> QED
    BY <1>3, <2>1, <2>2, <2>3
<1> QED
  BY <1>2, <1>6 DEF Settled

\* The second pass leaves no edge without its inverse.
LEMMA MirrorStep ==
    ASSUME MirrorInv, Next
    PROVE  MirrorOK'
<1>0. TypeInv /\ MirrorOK
  BY DEF MirrorInv, DurableInv, GrowInv
<1>1. CASE pc' \in {"idle", "add", "pull"}
  BY <1>1 DEF MirrorOK
<1>2. CASE BeginInverse
  <2>1. /\ pc' = "inverse" /\ inverseRelationships' = inverseRelationships
        /\ preds' = {p \in Key : inverseRelationships[p] # NoKey}
    BY <1>2 DEF BeginInverse
  <2> QED
    BY <2>1 DEF MirrorOK, Settled
<1>3. CASE AddInverseEdges
  BY <1>3, AddInverseEdgesSettles DEF AddInverseEdges, MirrorOK
<1>4. CASE BeginRolls
  <2>1. /\ pc = "inverse" /\ preds = {} /\ pc' = "roll" /\ mem' = mem
        /\ inverseRelationships' = inverseRelationships
    BY <1>4 DEF BeginRolls
  <2> QED
    BY <1>0, <2>1 DEF MirrorOK, Settled
<1>5. CASE Rolling
  <2>1. /\ mem'.pred = mem.pred /\ mem'.graph = mem.graph
        /\ inverseRelationships' = inverseRelationships
        /\ pc \in {"roll", "bases", "follow", "commit"}
        /\ pc' \in {"roll", "bases", "follow", "commit", "idle"}
    BY <1>0, <1>5, RollingKeeps
  <2> QED
    BY <1>0, <2>1 DEF MirrorOK, Settled, Reflected
<1> QED
  BY <1>1, <1>2, <1>3, <1>4, <1>5, NextCases DEF Open, AddTriple, BeginPull, PullInverse

\* When an insert returns, the second pass has mirrored what is now committed.
LEMMA ClosedStep ==
    ASSUME MirrorInv, Next
    PROVE  InverseClosed'
<1> SUFFICES ASSUME outcome' = "ok", NEW t \in disk'.pred, NEW q \in Key,
                    DeclaredInverse(t[2], q)',
                    \A r \in Key : DeclaredInverse(t[2], r)' => r = q
             PROVE  /\ <<t[3], q, t[1]>> \in disk'.pred
                    /\ t[1] # t[3] => <<t[3], q, t[1]>> \in disk'.graph.in \cap disk'.graph.out
  BY DEF InverseClosed
<1>0. TypeInv /\ CommitMet /\ mem \in StoreType
  BY DEF MirrorInv, DurableInv, GrowInv, TypeInv, TypeOK
<1>d. disk' = disk
  BY <1>0, OkStays, ReturnsOk
<1>e. DeclaredInverse(t[2], q) /\ \A r \in Key : DeclaredInverse(t[2], r) => r = q
  BY <1>d DEF DeclaredInverse
<1>1. CASE outcome = "ok"
  BY <1>1, <1>d, <1>e DEF MirrorInv, InverseClosed
<1>2. CASE outcome # "ok"
  <2>1. /\ pc = "commit" /\ disk.graph = mem.graph /\ disk.pred = mem.pred
    BY <1>0, <1>2, ReturnsOk DEF CommitReturns
  <2>2. t \in mem.pred /\ t[2] \in Key
    <3>1. t \in mem.pred /\ mem.pred \subseteq Triple
      BY <1>0, <1>d, <2>1 DEF StoreType
    <3> QED
      BY <3>1 DEF Triple
  <2>3. Declares(mem.pred, t[2], q) /\ \A r \in Key : Declares(mem.pred, t[2], r) => r = q
    BY <1>e, <2>1, DeclaredMeans
  <2>4. OneInverseIn(mem.pred, t[2])
    BY <2>3 DEF OneInverseIn
  <2>5. inverseRelationships[t[2]] # NoKey
    BY <2>1, <2>2, <2>3 DEF MirrorInv, PairsOK
  <2>6. inverseRelationships[t[2]] \in Key
    BY <1>0, <2>2, <2>5 DEF TypeInv, TypeOK
  <2>7. inverseRelationships[t[2]] = q
    BY <2>1, <2>2, <2>3, <2>5, <2>6 DEF MirrorInv, PairsOK
  <2>8. Settled({})
    BY <2>1 DEF MirrorInv, MirrorOK
  <2>9. Reflected(mem, t, q)
    BY <2>2, <2>4, <2>5, <2>7, <2>8 DEF Settled
  <2> QED
    BY <1>d, <2>1, <2>9 DEF Reflected
<1> QED
  BY <1>1, <1>2

\* There is no edge to have an inverse at the start.
LEMMA MirrorInit == Init => MirrorInv
<1>1. Init => Plain(mem.pred) /\ Plain(disk.pred)
  BY DEF Init, EmptyStores, Plain
<1>2. Init => BatchOK /\ PairsOK /\ MirrorOK /\ InverseClosed
  BY DEF Init, BatchOK, PairsOK, MirrorOK, InverseClosed
<1> QED
  BY <1>1, <1>2, DurableInit DEF MirrorInv

\* Every step leaves each edge its inverse, or its predicate still to be visited.
LEMMA MirrorInvStep ==
    ASSUME PlainDeclarations, MirrorInv, [Next]_vars
    PROVE  MirrorInv'
<1>1. DurableInv'
  BY DurableStep DEF MirrorInv
<1>2. CASE Next
  <2>1. BatchOK'
    BY <1>2, BatchStep DEF MirrorInv, DurableInv, GrowInv
  <2>2. Plain(mem.pred)' /\ Plain(disk.pred)' /\ PairsOK'
    BY <1>2, MemPlainStep, PairsStep
  <2>3. MirrorOK' /\ InverseClosed'
    BY <1>2, MirrorStep, ClosedStep
  <2> QED
    BY <1>1, <2>1, <2>2, <2>3 DEF MirrorInv
<1>3. CASE UNCHANGED vars
  <2>1. BatchOK' /\ Plain(mem.pred)' /\ Plain(disk.pred)' /\ PairsOK'
    BY <1>3 DEF vars, loopVars, MirrorInv, BatchOK, Plain, PairsOK
  <2>2. MirrorOK'
    BY <1>3 DEF vars, loopVars, MirrorInv, MirrorOK, Settled
  <2>3. InverseClosed'
    BY <1>3 DEF vars, MirrorInv, InverseClosed, DeclaredInverse
  <2> QED
    BY <1>1, <2>1, <2>2, <2>3 DEF MirrorInv
<1> QED
  BY <1>2, <1>3

\* After an insert that returned without error inverse predicates mirror each
\* other, in whatever order and in whichever transactions the edges and the
\* owl:inverseOf triples arrived (the second pass of addTriples), if no batch
\* declares an inverse of owl:inverseOf itself.
THEOREM AlwaysInverseClosed ==
    ASSUME PlainDeclarations
    PROVE  Spec => []InverseClosed
<1>1. MirrorInv /\ [Next]_vars => MirrorInv'
  BY MirrorInvStep
<1>2. MirrorInv => InverseClosed
  BY DEF MirrorInv
<1> QED
  BY <1>1, <1>2, MirrorInit, PTL DEF Spec

-----------------------------------------------------------------------------
(* An insert is one step of the abstract set of facts.                     *)

\* Two declarations, of whichever batches, that share a predicate declare the
\* same pair: inverseRelationships has room for one inverse of a predicate.
OneInverse ==
    \A b, c \in Batches : \A i \in DOMAIN b : \A j \in DOMAIN c :
        \A p, q, r \in Key : Joins(b[i], p, q) /\ Joins(c[j], p, r) => q = r

\* What the insert is to add to.
Target == disk.pred \cup {batch[i] : i \in DOMAIN batch}

AtomicInv ==
    /\ MirrorInv
    /\ \A t \in disk.pred :
          t[2] = InverseOf => \E b \in Batches : \E i \in DOMAIN b : b[i] = t
    /\ pc # "idle" /\ committed < 5 =>
          /\ mem.pred \subseteq Facts!Mirrored(Target)
          /\ \A t \in mem.pred : t[2] = InverseOf => t \in Target

\* The facts a set of triples and its declarations imply, member by member.
LEMMA MirroredMeans ==
    ASSUME NEW F, NEW x
    PROVE  x \in Facts!Mirrored(F) <=>
              \/ x \in F
              \/ \E t \in F : \E q : Declares(F, t[2], q) /\ x = <<t[3], q, t[1]>>
<1>1. ASSUME NEW p, NEW q
      PROVE  q \in Facts!InversesIn(F, p) <=> Declares(F, p, q)
  <2>1. ASSUME q \in Facts!InversesIn(F, p)
        PROVE  Declares(F, p, q)
    BY <2>1 DEF Facts!InversesIn, Declares, Joins
  <2>2. ASSUME Declares(F, p, q)
        PROVE  q \in Facts!InversesIn(F, p)
    <3>1. PICK d \in F : Joins(d, p, q)
      BY <2>2 DEF Declares
    <3> QED
      BY <3>1 DEF Facts!InversesIn, Joins
  <2> QED
    BY <2>1, <2>2
<1>2. x \in Facts!Mirrored(F) <=>
         \/ x \in F
         \/ \E t \in F : \E q \in Facts!InversesIn(F, t[2]) : x = <<t[3], q, t[1]>>
  BY DEF Facts!Mirrored
<1> HIDE DEF Facts!Mirrored
<1> QED
  BY <1>1, <1>2

\* When every declaration comes from a batch, no predicate has two inverses.
LEMMA OneInverseHolds ==
    ASSUME OneInverse, NEW F,
           \A t \in F : t[2] = InverseOf => \E b \in Batches : \E i \in DOMAIN b : b[i] = t,
           NEW p \in Key
    PROVE  OneInverseIn(F, p)
<1> SUFFICES ASSUME NEW q \in Key, NEW r \in Key, Declares(F, p, q), Declares(F, p, r)
             PROVE  q = r
  BY DEF OneInverseIn
<1>1. PICK d \in F : Joins(d, p, q)
  BY DEF Declares
<1>2. PICK e \in F : Joins(e, p, r)
  BY DEF Declares
<1>3. PICK b \in Batches : \E i \in DOMAIN b : b[i] = d
  BY <1>1 DEF Joins
<1>4. PICK c \in Batches : \E j \in DOMAIN c : c[j] = e
  BY <1>2 DEF Joins
<1> QED
  BY <1>1, <1>2, <1>3, <1>4 DEF OneInverse

\* The declarations a transaction sees come from a batch.
LEMMA TargetDeclared ==
    ASSUME AtomicInv, pc # "idle", NEW t \in Target, t[2] = InverseOf
    PROVE  \E b \in Batches : \E i \in DOMAIN b : b[i] = t
<1>1. batch \in Batches
  BY DEF AtomicInv, MirrorInv, BatchOK
<1> QED
  BY <1>1 DEF Target, AtomicInv

\* One round of the second pass adds only what the declarations imply.
LEMMA InverseEdgesImplied ==
    ASSUME OneInverse, AtomicInv, pc = "inverse", NEW p \in preds, committed < 5,
           NEW x \in Back(mem, p, inverseRelationships[p])
    PROVE  x \in Facts!Mirrored(Target)
<1> DEFINE q == inverseRelationships[p]
<1>0. TypeInv /\ mem \in StoreType /\ disk \in StoreType /\ PairsOK
  BY DEF AtomicInv, MirrorInv, DurableInv, GrowInv, TypeInv, TypeOK
<1>1. p \in Key /\ q \in Key
  BY <1>0 DEF TypeInv, TypeOK, ControlOK
<1>2. PICK t \in mem.pred : t[2] = p /\ x = <<t[3], q, t[1]>>
  BY DEF Back, Reversed
<1>3. Declares(Target, p, q)
  <2>1. Declares(mem.pred, p, q)
    BY <1>0, <1>1 DEF PairsOK
  <2>2. PICK d \in mem.pred : Joins(d, p, q)
    BY <2>1 DEF Declares
  <2>3. d \in Target
    BY <2>2 DEF AtomicInv, Joins
  <2> QED
    BY <2>2, <2>3 DEF Declares
<1>4. t \in Facts!Mirrored(Target)
  BY DEF AtomicInv
<1> HIDE DEF q
<1>5. CASE t \in Target
  BY <1>2, <1>3, <1>5, MirroredMeans
<1>6. ASSUME NEW u \in Target, NEW r, Declares(Target, u[2], r), t = <<u[3], r, u[1]>>
      PROVE  x \in Facts!Mirrored(Target)
  <2>1. u \in Triple
    <3>1. disk.pred \subseteq Triple
      BY <1>0 DEF StoreType
    <3>2. \A i \in DOMAIN batch : batch[i] \in Triple
      BY <1>0 DEF TypeInv, TypeOK
    <3> QED
      BY <3>1, <3>2 DEF Target
  <2>2. r = p /\ u[2] \in Key /\ t[1] = u[3] /\ t[3] = u[1] /\ u = <<u[1], u[2], u[3]>>
    BY <1>2, <1>6, <2>1 DEF Triple
  <2>3. Declares(Target, p, u[2])
    BY <1>6, <2>2, DeclaresSymmetric
  <2>4. OneInverseIn(Target, p)
    BY <1>1, TargetDeclared, OneInverseHolds
  <2>5. q = u[2]
    BY <1>1, <1>3, <2>2, <2>3, <2>4 DEF OneInverseIn
  <2>6. x = u
    BY <1>2, <2>2, <2>5
  <2> QED
    BY <2>6, MirroredMeans
<1> QED
  BY <1>4, <1>5, <1>6, MirroredMeans

\* What is implied is there when the stores are being committed.
LEMMA CommitsImplied ==
    ASSUME OneInverse, AtomicInv, pc = "commit", committed < 5
    PROVE  mem.pred = Facts!Mirrored(Target)
<1>0. TypeInv /\ mem \in StoreType /\ disk \in StoreType /\ PairsOK /\ Settled({})
  BY DEF AtomicInv, MirrorInv, DurableInv, GrowInv, TypeInv, TypeOK, MirrorOK
<1>1. Target \subseteq mem.pred
  <2>1. disk.pred \subseteq mem.pred
    BY DEF AtomicInv, MirrorInv, DurableInv, GrowInv, Grows
  <2>2. \A i \in DOMAIN batch : batch[i] \in mem.pred
    BY DEF AtomicInv, MirrorInv, DurableInv, BatchMet, Held
  <2> QED
    BY <2>1, <2>2 DEF Target
<1>2. ASSUME NEW t \in Target, NEW q, Declares(Target, t[2], q)
      PROVE  <<t[3], q, t[1]>> \in mem.pred
  <2>1. Declares(mem.pred, t[2], q)
    BY <1>1, <1>2, DeclaresMonotone
  <2>2. t \in mem.pred /\ mem.pred \subseteq Triple
    BY <1>0, <1>1 DEF StoreType
  <2>3. t[2] \in Key
    BY <2>2 DEF Triple
  <2>4. q \in Key
    BY <2>1, <2>2 DEF Declares, Joins, Triple
  <2>5. inverseRelationships[t[2]] # NoKey
    BY <1>0, <2>1, <2>3, <2>4 DEF PairsOK
  <2>6. inverseRelationships[t[2]] \in Key
    BY <1>0, <2>3, <2>5 DEF TypeInv, TypeOK
  <2>7. Declares(mem.pred, t[2], inverseRelationships[t[2]])
    BY <1>0, <2>3, <2>5 DEF PairsOK
  <2>8. OneInverseIn(mem.pred, t[2])
    <3>1. \A d \in mem.pred :
             d[2] = InverseOf => \E b \in Batches : \E i \in DOMAIN b : b[i] = d
      BY TargetDeclared DEF AtomicInv
    <3> QED
      BY <2>3, <3>1, OneInverseHolds
  <2>9. inverseRelationships[t[2]] = q
    BY <2>1, <2>4, <2>6, <2>7, <2>8 DEF OneInverseIn
  <2>10. Reflected(mem, t, q)
    BY <1>0, <2>2, <2>3, <2>5, <2>8, <2>9 DEF Settled
  <2> QED
    BY <2>10 DEF Reflected
<1>3. \A x \in Facts!Mirrored(Target) : x \in mem.pred
  BY <1>1, <1>2, MirroredMeans
<1>4. mem.pred \subseteq Facts!Mirrored(Target)
  BY DEF AtomicInv
<1> QED
  BY <1>3, <1>4

\* A step commits a whole batch to the predicate store, with its inverses, or nothing.
LEMMA AtomicStep ==
    ASSUME PlainDeclarations, OneInverse, AtomicInv, [Next]_vars
    PROVE  AtomicInv' /\ [Facts!Next]_(disk.pred)
<1>0. TypeInv /\ mem \in StoreType /\ disk \in StoreType /\ PairsOK /\ MirrorInv /\ BatchOK
  BY DEF AtomicInv, MirrorInv, DurableInv, GrowInv, TypeInv, TypeOK
<1>1. MirrorInv'
  BY MirrorInvStep DEF AtomicInv
<1> DEFINE FromBatch(t) == \E b \in Batches : \E i \in DOMAIN b : b[i] = t
           Inside == /\ mem.pred \subseteq Facts!Mirrored(Target)
                     /\ \A t \in mem.pred : t[2] = InverseOf => t \in Target
<1>2. \A t \in disk.pred : t[2] = InverseOf => FromBatch(t)
  BY DEF AtomicInv
<1>3. pc # "idle" /\ committed < 5 => Inside
  BY DEF AtomicInv
<1>4. SUFFICES /\ \A t \in disk'.pred : t[2] = InverseOf => FromBatch(t)
               /\ pc' # "idle" /\ committed' < 5 => Inside'
               /\ disk'.pred = disk.pred \/ Facts!Next
  BY <1>1 DEF AtomicInv
<1> HIDE DEF FromBatch, Inside
<1>5. CASE CommitStore
  <2>1. /\ pc = "commit" /\ committed \in 0 .. 4 /\ committed' = committed + 1
        /\ mem' = mem /\ batch' = batch /\ batch \in Batches
    BY <1>0, <1>5, Committing DEF CommitStore, BatchOK
  <2>2. CASE committed = 4
    <3>1. disk'.pred = mem.pred
      BY <1>0, <1>5, <2>2, CommitStoreEffect DEF StoreType
    <3>2. mem.pred = Facts!Mirrored(Target)
      BY <2>1, <2>2, CommitsImplied
    <3>3. Facts!Insert(batch)
      BY <3>1, <3>2 DEF Facts!Insert, Target
    <3>4. \A t \in mem.pred : t[2] = InverseOf => FromBatch(t)
      BY <1>3, <2>1, <2>2, TargetDeclared DEF Inside, FromBatch
    <3> QED
      BY <2>1, <2>2, <3>1, <3>3, <3>4 DEF Facts!Next
  <2>3. CASE committed # 4
    <3>1. disk'.pred = disk.pred
      BY <1>0, <1>5, <2>3, CommitStoreEffect DEF StoreType
    <3>2. Target' = Target
      BY <2>1, <3>1 DEF Target
    <3> QED
      BY <1>2, <1>3, <2>1, <3>1, <3>2 DEF Inside
  <2> QED
    BY <2>2, <2>3
<1>6. CASE Next /\ ~ CommitStore
  <2>0. disk' = disk
    BY <1>6, OnlyCommitWrites
  <2>1. SUFFICES pc' # "idle" /\ committed' < 5 => Inside'
    BY <1>2, <2>0
  <2>2. CASE Open
    <3>1. mem'.pred = disk.pred /\ disk.pred \subseteq Target'
      BY <2>0, <2>2 DEF Open, Target
    <3>2. \A x \in Target' : x \in Facts!Mirrored(Target')
      BY MirroredMeans
    <3> QED
      BY <3>1, <3>2 DEF Inside
  <2>3. CASE pc' = "idle"
    BY <2>3
  <2>4. CASE AddTriple
    <3>1. pc # "idle" /\ batch' = batch /\ committed' = committed
      BY <2>4 DEF AddTriple
    <3>2. Target' = Target
      BY <2>0, <3>1 DEF Target
    <3>3. mem'.pred = mem.pred \cup {Head(todo)} /\ Head(todo) \in Target
      BY <1>0, <2>4, AddTriplePred, HeadInBatch DEF Target
    <3>4. Head(todo) \in Facts!Mirrored(Target)
      BY <3>3, MirroredMeans
    <3> QED
      BY <1>3, <3>1, <3>2, <3>3, <3>4 DEF Inside
  <2>5. CASE AddInverseEdges
    <3>1. PICK p \in preds : mem' = WithInverseEdges(mem, p, inverseRelationships[p])
      BY <2>5 DEF AddInverseEdges
    <3>2. pc = "inverse" /\ batch' = batch /\ committed' = committed
      BY <2>5 DEF AddInverseEdges
    <3>3. Target' = Target
      BY <2>0, <3>2 DEF Target
    <3>4. mem'.pred = mem.pred \cup Back(mem, p, inverseRelationships[p])
      BY <1>0, <3>1, InverseEdgesEffect
    <3>5. \A t \in Back(mem, p, inverseRelationships[p]) : t[2] # InverseOf
      BY <1>0, <3>2, NoNewDeclarations DEF MirrorInv
    <3>6. committed < 5 =>
             \A x \in Back(mem, p, inverseRelationships[p]) : x \in Facts!Mirrored(Target)
      BY <3>2, InverseEdgesImplied
    <3> QED
      BY <1>3, <3>2, <3>3, <3>4, <3>5, <3>6 DEF Inside
  <2>6. CASE Rolling
    <3>1. mem'.pred = mem.pred /\ batch' = batch /\ pc # "idle"
      BY <1>0, <2>6, RollingKeeps
    <3>2. pc' # "idle" => committed' = committed
      BY <1>6, <2>6 DEF Rolling, NextPredicate, BeginRollup, SkipRollup, BeginFollow,
         FollowAgain, FollowReturns, FollowEdges, SaveIndex, AbortRollup, BeginObjects,
         EndRollup, BeginCommit, CommitReturns
    <3>3. Target' = Target
      BY <2>0, <3>1 DEF Target
    <3> QED
      BY <1>3, <3>1, <3>2, <3>3 DEF Inside
  <2>7. CASE BeginPull \/ PullInverse \/ BeginInverse \/ BeginRolls
    <3>1. mem' = mem /\ batch' = batch /\ pc # "idle" /\ committed' = committed
      BY <2>7 DEF BeginPull, PullInverse, BeginInverse, BeginRolls
    <3>2. Target' = Target
      BY <2>0, <3>1 DEF Target
    <3> QED
      BY <1>3, <3>1, <3>2 DEF Inside
  <2> QED
    BY <1>6, <2>2, <2>3, <2>4, <2>5, <2>6, <2>7, NextCases
<1>7. CASE UNCHANGED vars
  <2>1. disk' = disk /\ mem' = mem /\ batch' = batch /\ pc' = pc /\ committed' = committed
    BY <1>7 DEF vars
  <2>2. Target' = Target
    BY <2>1 DEF Target
  <2> QED
    BY <1>2, <1>3, <2>1, <2>2 DEF Inside
<1> QED
  BY <1>5, <1>6, <1>7

\* Seen through the predicate store, an insert is one step of the abstract set of
\* facts, whatever fails in between (commit() commits that store last), if no
\* predicate is declared to have two inverses and owl:inverseOf has none.
THEOREM AlwaysAtomic ==
    ASSUME PlainDeclarations, OneInverse
    PROVE  Spec => InsertsAreAtomic
<1>1. Init => AtomicInv /\ Facts!Init
  <2>1. Init => MirrorInv
    BY MirrorInit
  <2>2. Init => disk.pred = {} /\ pc = "idle"
    BY DEF Init, EmptyStores
  <2> QED
    BY <2>1, <2>2 DEF AtomicInv, Facts!Init
<1>2. AtomicInv /\ [Next]_vars => AtomicInv' /\ [Facts!Next]_(disk.pred)
  BY AtomicStep
<1> QED
  BY <1>1, <1>2, PTL DEF Spec, InsertsAreAtomic, Facts!Spec
=============================================================================
