------------------------- MODULE SnapshotCacheProofs -------------------------
(***************************************************************************)
(* Proofs about SnapshotCache, for any number of inserts and queries, any  *)
(* keys they write, read and evict, and any capacity of pendingEvict.      *)
(***************************************************************************)
EXTENDS SnapshotCache, TLAPS

USE NoneAssumption, WritesAssumption, ReadsAssumption, EvictsAssumption,
    EvictCapacityAssumption

-----------------------------------------------------------------------------
(* The lists of stores.                                                    *)

\* Where the cached stores come in snapshot().
LEMMA Positions ==
    /\ Position("pred") = 3 /\ Position("graph") = 4 /\ Position("ext") = 5
    /\ \A s \in Cached : Position(s) \in 1 .. 5 /\ SnapOrder[Position(s)] = s
<1>1. Position("pred") = 3 /\ Position("graph") = 4 /\ Position("ext") = 5
  BY DEF Position, SnapOrder
<1>2. SnapOrder[3] = "pred" /\ SnapOrder[4] = "graph" /\ SnapOrder[5] = "ext"
  BY DEF SnapOrder
<1> QED
  BY <1>1, <1>2 DEF Cached

\* The three lists have each of the five stores.
LEMMA Orders ==
    /\ Len(SnapOrder) = 5 /\ Len(CommitOrder) = 5 /\ Len(LockOrder) = 5
    /\ \A n \in 1 .. 5 : SnapOrder[n] \in Store /\ CommitOrder[n] \in Store
                         /\ LockOrder[n] \in Store
    /\ \A s \in Store : \E n \in 1 .. 5 : CommitOrder[n] = s
BY DEF SnapOrder, CommitOrder, LockOrder, Store

\* A cache is over one of the stores.
LEMMA CachedAreStores == Cached \subseteq Store
BY DEF Cached, Store

-----------------------------------------------------------------------------
(* Types.                                                                  *)

\* What a query holds at each point: no snapshot before it starts, all five when
\* it reads, and nothing to put into the cache unless it reads.
QueryOK ==
    \A q \in Query :
        /\ Len(snap[q]) <= 5
        /\ qpc[q] = "idle" => snap[q] = <<>>
        /\ qpc[q] = "read" => Len(snap[q]) = 5
        /\ qpc[q] # "read" => fill[q] = {}

InsertOK ==
    \A i \in Insert :
        /\ ipc[i] \in {"start", "commit", "done"} => at[i] <= 5
        /\ ipc[i] = "done" => at[i] = 5
        /\ ipc[i] = "adding" => at[i] <= Len(Evicts[i])

TypeInv == TypeOK /\ QueryOK /\ InsertOK

\* Stores, caches and queries are of their types at the start.
LEMMA InitType == Init => TypeInv
<1> SUFFICES ASSUME Init PROVE TypeInv
  OBVIOUS
<1>1. <<>> \in UNION {[D -> Value] : D \in SUBSET Key}
  <2>1. <<>> \in [{} -> Value]
    OBVIOUS
  <2> QED
    BY <2>1
<1>2. cache \in [Cached -> UNION {[D -> Value] : D \in SUBSET Key}]
  BY <1>1 DEF Init
<1>3. pendingEvict \in Seq(Key) /\ Len(pendingEvict) <= EvictCapacity
  BY DEF Init
<1>4. snap \in [Query -> Seq(Value)] /\ fill \in [Query -> SUBSET Entry]
  BY DEF Init
<1>5. TypeOK
  BY <1>2, <1>3, <1>4 DEF Init, TypeOK, Value
<1>6. QueryOK /\ InsertOK
  BY DEF Init, QueryOK, InsertOK
<1> QED
  BY <1>5, <1>6 DEF TypeInv

\* openTransaction opens one store after the other.
LEMMA OpenStoreType ==
    ASSUME TypeInv, NEW i \in Insert, OpenStore(i)
    PROVE  TypeInv'
<1>1. at[i] \in Nat /\ at[i] + 1 \in 1 .. 5
  BY Orders DEF TypeInv, TypeOK, OpenStore
<1>2. holder' \in [Store -> Insert \cup {None}]
  BY <1>1, Orders DEF TypeInv, TypeOK, OpenStore
<1>3. TypeOK'
  BY <1>1, <1>2 DEF TypeInv, TypeOK, OpenStore, NoQuery
<1>4. QueryOK' /\ InsertOK'
  BY <1>1 DEF TypeInv, TypeOK, OpenStore, QueryOK, InsertOK
<1> QED
  BY <1>3, <1>4 DEF TypeInv

\* The steps of an insert that change no store.
LEMMA InsertLoopType ==
    ASSUME TypeInv, NEW i \in Insert, Opened(i) \/ Added(i) \/ Committed(i) \/ Discard(i)
    PROVE  TypeInv'
<1>1. CASE Opened(i)
  BY <1>1 DEF TypeInv, TypeOK, Opened, QueryOK, InsertOK
<1>2. CASE Added(i)
  BY <1>2 DEF TypeInv, TypeOK, Added, QueryOK, InsertOK
<1>3. CASE Committed(i)
  BY <1>3, Orders DEF TypeInv, TypeOK, Committed, QueryOK, InsertOK
<1>4. CASE Discard(i)
  BY <1>4 DEF TypeInv, TypeOK, Discard, QueryOK, InsertOK
<1> QED
  BY <1>1, <1>2, <1>3, <1>4

\* A key that was changed is sent to the evictor.
LEMMA EvictKeyType ==
    ASSUME TypeInv, NEW i \in Insert, EvictKey(i)
    PROVE  TypeInv'
<1>1. at[i] \in Nat /\ at[i] + 1 \in 1 .. Len(Evicts[i]) /\ Evicts[i] \in Seq(Key)
  BY DEF TypeInv, TypeOK, EvictKey
<1>2. Evicts[i][at[i] + 1] \in Key
  BY <1>1
<1>3. pendingEvict' \in Seq(Key) /\ Len(pendingEvict') <= EvictCapacity
  BY <1>2 DEF TypeInv, TypeOK, EvictKey
<1>4. TypeOK'
  BY <1>1, <1>3 DEF TypeInv, TypeOK, EvictKey
<1>5. QueryOK' /\ InsertOK'
  BY <1>1 DEF TypeInv, TypeOK, EvictKey, QueryOK, InsertOK
<1> QED
  BY <1>4, <1>5 DEF TypeInv

\* commit() makes one store's changes visible.
LEMMA CommitStoreType ==
    ASSUME TypeInv, NEW i \in Insert, CommitStore(i)
    PROVE  TypeInv'
<1>1. at[i] \in Nat /\ at[i] + 1 \in 1 .. 5
  BY Orders DEF TypeInv, TypeOK, CommitStore
<1>2. CommitOrder[at[i] + 1] \in Store
  BY <1>1, Orders
<1>3. TypeOK'
  BY <1>1, <1>2 DEF TypeInv, TypeOK, CommitStore, Value
<1>4. QueryOK' /\ InsertOK'
  BY <1>1 DEF TypeInv, TypeOK, CommitStore, QueryOK, InsertOK
<1> QED
  BY <1>3, <1>4 DEF TypeInv

\* The evictor deletes the entries of a key.
LEMMA EvictType ==
    ASSUME TypeInv, Evict
    PROVE  TypeInv'
<1>1. pendingEvict' \in Seq(Key) /\ Len(pendingEvict') <= EvictCapacity
  BY DEF TypeInv, TypeOK, Evict
<1>2. cache' \in [Cached -> UNION {[D -> Value] : D \in SUBSET Key}]
  <2> SUFFICES ASSUME NEW s \in Cached
               PROVE  cache'[s] \in UNION {[D -> Value] : D \in SUBSET Key}
    BY DEF Evict, Evicted
  <2>1. PICK D \in SUBSET Key : cache[s] \in [D -> Value]
    BY DEF TypeInv, TypeOK
  <2>2. cache'[s] \in [D \ {Head(pendingEvict)} -> Value]
    BY <2>1 DEF Evict, Evicted, Restrict
  <2> QED
    BY <2>2
<1>3. TypeOK'
  BY <1>1, <1>2 DEF TypeInv, TypeOK, Evict
<1>4. QueryOK' /\ InsertOK'
  BY DEF TypeInv, Evict, QueryOK, InsertOK
<1> QED
  BY <1>3, <1>4 DEF TypeInv

\* snapshot() takes one store after the other; Close drops them.
LEMMA SnapshotType ==
    ASSUME TypeInv, NEW q \in Query,
           StartQuery(q) \/ TakeSnapshot(q) \/ BeginReads(q) \/ Close(q)
    PROVE  TypeInv'
<1>1. CASE StartQuery(q)
  <2>1. TypeOK'
    BY <1>1 DEF TypeInv, TypeOK, StartQuery
  <2> QED
    BY <1>1, <2>1 DEF TypeInv, TypeOK, StartQuery, QueryOK, InsertOK
<1>2. CASE TakeSnapshot(q)
  <2>1. Len(snap[q]) \in Nat /\ Len(snap[q]) + 1 \in 1 .. 5 /\ snap[q] \in Seq(Value)
    BY SMTT(30), <1>2, Orders DEF TypeInv, TypeOK, TakeSnapshot
  <2>2. store[SnapOrder[Len(snap[q]) + 1]] \in Value
    BY <2>1, Orders DEF TypeInv, TypeOK
  <2>3. snap'[q] \in Seq(Value) /\ Len(snap'[q]) = Len(snap[q]) + 1
    BY <1>2, <2>1, <2>2 DEF TypeInv, TypeOK, TakeSnapshot
  <2>4. \A p \in Query : p # q => snap'[p] = snap[p]
    BY <1>2 DEF TypeInv, TypeOK, TakeSnapshot
  <2>5. snap' \in [Query -> Seq(Value)]
    BY <1>2, <2>3, <2>4 DEF TypeInv, TypeOK, TakeSnapshot
  <2>6. TypeOK'
    BY <1>2, <2>5 DEF TypeInv, TypeOK, TakeSnapshot
  <2>7. QueryOK' /\ InsertOK'
    BY <1>2, <2>1, <2>3, <2>4 DEF TypeInv, TypeOK, TakeSnapshot, QueryOK, InsertOK
  <2> QED
    BY <2>6, <2>7 DEF TypeInv
<1>3. CASE BeginReads(q)
  BY <1>3, Orders DEF TypeInv, TypeOK, BeginReads, QueryOK, InsertOK
<1>4. CASE Close(q)
  BY <1>4 DEF TypeInv, TypeOK, Close, QueryOK, InsertOK
<1> QED
  BY <1>1, <1>2, <1>3, <1>4

\* A read that is not in the cache goes to the snapshot.
LEMMA ReadMissType ==
    ASSUME TypeInv, NEW q \in Query, NEW r \in Reads, ReadMiss(q, r[1], r[2])
    PROVE  TypeInv'
<1>1. r[1] \in Cached /\ r[2] \in Key
  OBVIOUS
<1>2. SnapOf(q, r[1]) \in Value
  BY <1>1, Positions DEF TypeInv, TypeOK, QueryOK, ReadMiss, SnapOf
<1>3. ValueOf(SnapOf(q, r[1]), r[1], r[2]) \in Value
  BY <1>2 DEF ValueOf, Value
<1>4. TypeOK'
  BY <1>1, <1>3 DEF TypeInv, TypeOK, ReadMiss, Entry
<1> QED
  BY <1>4 DEF TypeInv, TypeOK, ReadMiss, QueryOK, InsertOK

\* A read that missed puts what it read into the cache.
LEMMA FillType ==
    ASSUME TypeInv, NEW q \in Query, Fill(q)
    PROVE  TypeInv'
<1>1. PICK e \in fill[q] : cache' = [cache EXCEPT ![e.s] = WithEntry(@, e.k, e.v)]
  BY DEF Fill
<1>2. e.s \in Cached /\ e.k \in Key /\ e.v \in Value
  BY DEF TypeInv, TypeOK, Entry
<1>3. PICK D \in SUBSET Key : cache[e.s] \in [D -> Value]
  <2>1. \A s \in Cached : \E D \in SUBSET Key : cache[s] \in [D -> Value]
    BY DEF TypeInv, TypeOK
  <2> QED
    BY <1>2, <2>1
<1>4. WithEntry(cache[e.s], e.k, e.v) \in [D \cup {e.k} -> Value]
  BY <1>2, <1>3 DEF WithEntry
<1>5. WithEntry(cache[e.s], e.k, e.v) \in UNION {[E -> Value] : E \in SUBSET Key}
  BY <1>2, <1>4
<1>6. cache' \in [Cached -> UNION {[E -> Value] : E \in SUBSET Key}]
  BY <1>1, <1>2, <1>5 DEF TypeInv, TypeOK
<1>7. TypeOK'
  BY <1>6 DEF TypeInv, TypeOK, Fill
<1> QED
  BY <1>7 DEF TypeInv, TypeOK, Fill, QueryOK, InsertOK

\* Every step of inserts, queries and the evictor keeps the types.
LEMMA NextType == TypeInv /\ [Next]_vars => TypeInv'
<1> SUFFICES ASSUME TypeInv, [Next]_vars PROVE TypeInv'
  OBVIOUS
<1>1. CASE Next
  BY <1>1, OpenStoreType, InsertLoopType, EvictKeyType, CommitStoreType, EvictType,
     SnapshotType, ReadMissType, FillType DEF Next, InsertStep, QueryStep
<1>2. CASE UNCHANGED vars
  BY <1>2 DEF vars, TypeInv, TypeOK, QueryOK, InsertOK
<1> QED
  BY <1>1, <1>2

\* Every variable keeps its range: the channel never holds more keys than its
\* buffer, and a query reads through five snapshots or none.
THEOREM TypeCorrect == Spec => []TypeInv
BY InitType, NextType, PTL DEF Spec

-----------------------------------------------------------------------------
(* What commits, snapshots and cache fills leave behind.                   *)

\* An insert that is committing has committed the stores in their order.
CommitsInOrder ==
    \A i \in Insert :
        /\ ipc[i] = "commit" => \A n \in 1 .. at[i] : i \in store[CommitOrder[n]]
        /\ ipc[i] = "done" => \A s \in Store : i \in store[s]

\* The predicates are committed last.
PredLast == store["pred"] \subseteq store["graph"] /\ store["pred"] \subseteq store["ext"]

\* A snapshot holds nothing that is not committed to its store.
SnapsCommitted ==
    \A q \in Query : \A n \in 1 .. Len(snap[q]) : snap[q][n] \subseteq store[SnapOrder[n]]

\* The predicates are the third snapshot, graph and extended index come after.
SnapsOrdered ==
    \A q \in Query :
        /\ Len(snap[q]) >= 4 => snap[q][3] \subseteq snap[q][4]
        /\ Len(snap[q]) >= 5 => snap[q][3] \subseteq snap[q][5]

\* What is about to be put into the cache is committed, however long ago it was
\* read: nothing is ever taken back from a store.
FillsCommitted ==
    \A q \in Query : \A e \in fill[q] : e.v \subseteq ValueOf(store[e.s], e.s, e.k)

CommitInv ==
    /\ CommitsInOrder /\ PredLast /\ SnapsCommitted /\ SnapsOrdered
    /\ FillsCommitted /\ CacheCommitted

\* At the start caches are empty and nothing is committed.
LEMMA InitCommit == Init => CommitInv
<1> SUFFICES ASSUME Init PROVE CommitInv
  OBVIOUS
<1>1. CommitsInOrder /\ PredLast
  BY DEF Init, CommitsInOrder, PredLast, Store
<1>2. SnapsCommitted /\ SnapsOrdered /\ FillsCommitted
  BY DEF Init, SnapsCommitted, SnapsOrdered, FillsCommitted
<1>3. CacheCommitted
  BY DEF Init, CacheCommitted
<1> QED
  BY <1>1, <1>2, <1>3 DEF CommitInv

\* Steps that leave stores, snapshots, fills and caches alone.
LEMMA QuietCommit ==
    ASSUME TypeInv, CommitInv, CommitsInOrder', UNCHANGED <<store, snap, fill, cache>>
    PROVE  CommitInv'
BY DEF CommitInv, PredLast, SnapsCommitted, SnapsOrdered, FillsCommitted, CacheCommitted, ValueOf

\* The steps of an insert that commit nothing.
LEMMA InsertLoopCommit ==
    ASSUME TypeInv, CommitInv, NEW i \in Insert,
           OpenStore(i) \/ Opened(i) \/ EvictKey(i) \/ Added(i) \/ Committed(i) \/ Discard(i)
    PROVE  CommitInv'
<1>1. UNCHANGED <<store, snap, fill, cache>>
  BY DEF OpenStore, Opened, EvictKey, Added, Committed, Discard
<1>2. CommitsInOrder'
  <2>1. CASE OpenStore(i)
    BY <2>1 DEF OpenStore, TypeInv, TypeOK, CommitInv, CommitsInOrder
  <2>2. CASE Opened(i)
    BY <2>2 DEF Opened, TypeInv, TypeOK, CommitInv, CommitsInOrder
  <2>3. CASE EvictKey(i)
    BY <2>3 DEF EvictKey, TypeInv, TypeOK, CommitInv, CommitsInOrder
  <2>4. CASE Added(i)
    BY <2>4 DEF Added, TypeInv, TypeOK, CommitInv, CommitsInOrder
  <2>5. CASE Committed(i)
    <3>1. \A s \in Store : i \in store[s]
      BY <2>5, Orders DEF Committed, CommitInv, CommitsInOrder
    <3> QED
      BY <2>5, <3>1 DEF Committed, TypeInv, TypeOK, CommitInv, CommitsInOrder
  <2>6. CASE Discard(i)
    BY <2>6 DEF Discard, TypeInv, TypeOK, CommitInv, CommitsInOrder
  <2> QED
    BY <2>1, <2>2, <2>3, <2>4, <2>5, <2>6
<1> QED
  BY <1>1, <1>2, QuietCommit

\* A commit only adds, so what was read before stays committed.
LEMMA CommitStoreCommit ==
    ASSUME TypeInv, CommitInv, NEW i \in Insert, CommitStore(i)
    PROVE  CommitInv'
<1> DEFINE c == CommitOrder[at[i] + 1]
<1>1. at[i] \in Nat /\ at[i] + 1 \in 1 .. 5 /\ c \in Store /\ ipc[i] = "commit"
  BY Orders DEF TypeInv, TypeOK, CommitStore
<1>2. /\ store' = [store EXCEPT ![c] = @ \cup {i}]
      /\ at' = [at EXCEPT ![i] = @ + 1]
      /\ UNCHANGED <<ipc, cache, snap, fill>>
  BY DEF CommitStore
<1>3. /\ \A s \in Store : store[s] \subseteq store'[s]
      /\ \A s \in Store : s # c => store'[s] = store[s]
      /\ store'[c] = store[c] \cup {i}
  BY <1>1, <1>2 DEF TypeInv, TypeOK
<1>4. CommitsInOrder'
  <2> SUFFICES ASSUME NEW j \in Insert
               PROVE  /\ ipc[j] = "commit" => \A n \in 1 .. at'[j] : j \in store'[CommitOrder[n]]
                      /\ ipc[j] = "done" => \A s \in Store : j \in store'[s]
    BY <1>2 DEF CommitsInOrder
  <2>1. ipc[j] = "done" => \A s \in Store : j \in store'[s]
    BY <1>3 DEF CommitInv, CommitsInOrder
  <2>2. CASE j = i
    <3> SUFFICES ASSUME NEW n \in 1 .. at'[i] PROVE i \in store'[CommitOrder[n]]
      BY <2>1, <2>2
    <3>1. n \in 1 .. at[i] \/ n = at[i] + 1
      BY <1>1, <1>2 DEF TypeInv, TypeOK
    <3>2. CASE n \in 1 .. at[i]
      <4>1. i \in store[CommitOrder[n]] /\ CommitOrder[n] \in Store
        BY <1>1, <3>2, Orders DEF CommitInv, CommitsInOrder
      <4> QED
        BY <1>3, <4>1
    <3> QED
      BY <1>3, <3>1, <3>2
  <2>3. CASE j # i
    <3>1. at'[j] = at[j]
      BY <1>2, <2>3 DEF TypeInv, TypeOK
    <3>2. ipc[j] = "commit" => \A n \in 1 .. at[j] : CommitOrder[n] \in Store
      BY Orders DEF TypeInv, TypeOK, InsertOK
    <3> QED
      BY <1>3, <2>1, <3>1, <3>2 DEF CommitInv, CommitsInOrder
  <2> QED
    BY <2>2, <2>3
<1>5. PredLast'
  <2>1. CASE c = "pred"
    <3>1. at[i] = 4
      BY <1>1, <2>1 DEF CommitOrder
    <3>2. i \in store["graph"] /\ i \in store["ext"]
      <4>1. i \in store[CommitOrder[3]] /\ i \in store[CommitOrder[4]]
        BY <1>1, <3>1 DEF CommitInv, CommitsInOrder
      <4> QED
        BY <4>1 DEF CommitOrder
    <3> QED
      BY <1>3, <2>1, <3>2 DEF CommitInv, PredLast, Store
  <2>2. CASE c # "pred"
    BY <1>3, <2>2 DEF CommitInv, PredLast, Store
  <2> QED
    BY <2>1, <2>2
<1>6. SnapsCommitted'
  <2> SUFFICES ASSUME NEW q \in Query, NEW n \in 1 .. Len(snap[q])
               PROVE  snap[q][n] \subseteq store'[SnapOrder[n]]
    BY <1>2 DEF SnapsCommitted
  <2>1. SnapOrder[n] \in Store
    BY Orders DEF TypeInv, TypeOK, QueryOK
  <2> QED
    BY <1>3, <2>1 DEF CommitInv, SnapsCommitted
<1>7. SnapsOrdered'
  BY <1>2 DEF CommitInv, SnapsOrdered
<1>8. FillsCommitted'
  <2> SUFFICES ASSUME NEW q \in Query, NEW e \in fill[q]
               PROVE  e.v \subseteq ValueOf(store'[e.s], e.s, e.k)
    BY <1>2 DEF FillsCommitted, ValueOf
  <2>1. e.s \in Store
    BY CachedAreStores DEF TypeInv, TypeOK, Entry
  <2>2. e.v \subseteq ValueOf(store[e.s], e.s, e.k)
    BY DEF CommitInv, FillsCommitted
  <2>3. store[e.s] \subseteq store'[e.s]
    BY <1>3, <2>1
  <2> QED
    BY <2>2, <2>3 DEF ValueOf
<1>9. CacheCommitted'
  <2> SUFFICES ASSUME NEW s \in Cached, NEW k \in DOMAIN cache[s]
               PROVE  cache[s][k] \subseteq ValueOf(store'[s], s, k)
    BY <1>2 DEF CacheCommitted, ValueOf
  <2>1. cache[s][k] \subseteq ValueOf(store[s], s, k)
    BY DEF CommitInv, CacheCommitted
  <2>2. store[s] \subseteq store'[s]
    BY <1>3, CachedAreStores
  <2> QED
    BY <2>1, <2>2 DEF ValueOf
<1> QED
  BY <1>4, <1>5, <1>6, <1>7, <1>8, <1>9 DEF CommitInv

\* The evictor changes no entry it leaves.
LEMMA EvictedEntries ==
    ASSUME TypeInv, Evict
    PROVE  \A s \in Cached : /\ DOMAIN cache'[s] = DOMAIN cache[s] \ {Head(pendingEvict)}
                             /\ \A k \in DOMAIN cache'[s] : cache'[s][k] = cache[s][k]
BY DEF Evict, Evicted, Restrict

\* Entries that stay in the cache stay committed.
LEMMA EvictCommit ==
    ASSUME TypeInv, CommitInv, Evict
    PROVE  CommitInv'
<1>1. UNCHANGED <<store, ipc, at, snap, fill>>
  BY DEF Evict
<1>2. CacheCommitted'
  BY <1>1, EvictedEntries DEF CommitInv, CacheCommitted, ValueOf
<1> QED
  BY <1>1, <1>2 DEF CommitInv, CommitsInOrder, PredLast, SnapsCommitted, SnapsOrdered,
                    FillsCommitted, ValueOf

\* A snapshot has what is committed when it is taken.
LEMMA TakeSnapshotCommit ==
    ASSUME TypeInv, CommitInv, NEW q \in Query, TakeSnapshot(q)
    PROVE  CommitInv'
<1> DEFINE m == Len(snap[q]) + 1
<1>1. Len(snap[q]) \in Nat /\ m \in 1 .. 5 /\ snap[q] \in Seq(Value)
  BY Orders DEF TypeInv, TypeOK, TakeSnapshot
<1>2. UNCHANGED <<store, ipc, at, fill, cache>>
      /\ snap' = [snap EXCEPT ![q] = Append(@, store[SnapOrder[m]])]
  BY DEF TakeSnapshot
<1>3. /\ Len(snap'[q]) = m
      /\ \A n \in 1 .. Len(snap[q]) : snap'[q][n] = snap[q][n]
      /\ snap'[q][m] = store[SnapOrder[m]]
      /\ \A p \in Query : p # q => snap'[p] = snap[p]
  BY <1>1, <1>2 DEF TypeInv, TypeOK
<1> HIDE DEF m
<1>4. SnapsCommitted'
  <2> SUFFICES ASSUME NEW p \in Query, NEW n \in 1 .. Len(snap'[p])
               PROVE  snap'[p][n] \subseteq store[SnapOrder[n]]
    BY <1>2 DEF SnapsCommitted
  <2>1. CASE p = q /\ n = m
    BY <1>3, <2>1
  <2>2. CASE p = q /\ n # m
    <3>1. n \in 1 .. Len(snap[q])
      BY <1>1, <1>3, <2>2 DEF m
    <3> QED
      BY <1>3, <2>2, <3>1 DEF CommitInv, SnapsCommitted
  <2>3. CASE p # q
    BY <1>3, <2>3 DEF CommitInv, SnapsCommitted
  <2> QED
    BY <2>1, <2>2, <2>3
<1>5. SnapsOrdered'
  <2> SUFFICES ASSUME NEW p \in Query
               PROVE  /\ Len(snap'[p]) >= 4 => snap'[p][3] \subseteq snap'[p][4]
                      /\ Len(snap'[p]) >= 5 => snap'[p][3] \subseteq snap'[p][5]
    BY DEF SnapsOrdered
  <2>1. CASE p # q
    BY <1>3, <2>1 DEF CommitInv, SnapsOrdered
  <2>2. CASE p = q /\ m < 4
    BY <1>1, <1>3, <2>2
  <2>3. CASE p = q /\ m \in {4, 5}
    <3>1. snap'[q][3] = snap[q][3]
      BY <1>1, <1>3, <2>3 DEF m
    <3>2. snap[q][3] \subseteq store["pred"]
      <4>1. 3 \in 1 .. Len(snap[q])
        BY <1>1, <2>3 DEF m
      <4>2. snap[q][3] \subseteq store[SnapOrder[3]]
        BY <4>1 DEF CommitInv, SnapsCommitted
      <4> QED
        BY <4>2 DEF SnapOrder
    <3>3. snap[q][3] \subseteq store["graph"] /\ snap[q][3] \subseteq store["ext"]
      BY <3>2 DEF CommitInv, PredLast
    <3>4. SnapOrder[4] = "graph" /\ SnapOrder[5] = "ext"
      BY DEF SnapOrder
    <3>5. m = 5 => snap'[q][4] = snap[q][4] /\ snap[q][3] \subseteq snap[q][4]
      BY <1>1, <1>3 DEF m, CommitInv, SnapsOrdered
    <3>6. CASE m = 4
      <4>1. snap'[q][4] = store["graph"] /\ Len(snap'[q]) = 4
        BY <1>3, <3>4, <3>6
      <4> QED
        BY <2>3, <3>1, <3>3, <4>1
    <3>7. CASE m = 5
      <4>1. snap'[q][5] = store["ext"]
        BY <1>3, <3>4, <3>7
      <4> QED
        BY <2>3, <3>1, <3>3, <3>5, <3>7, <4>1
    <3> QED
      BY <2>3, <3>6, <3>7
  <2> QED
    BY <1>1, <2>1, <2>2, <2>3
<1> QED
  BY <1>2, <1>4, <1>5
     DEF CommitInv, CommitsInOrder, PredLast, FillsCommitted, CacheCommitted, ValueOf

\* What a query read was in its snapshot, and so committed.
LEMMA ReadMissCommit ==
    ASSUME TypeInv, CommitInv, NEW q \in Query, NEW r \in Reads, ReadMiss(q, r[1], r[2])
    PROVE  CommitInv'
<1>1. r[1] \in Cached
  OBVIOUS
<1>2. SnapOf(q, r[1]) \subseteq store[r[1]]
  <2>1. Position(r[1]) \in 1 .. 5 /\ SnapOrder[Position(r[1])] = r[1]
    BY <1>1, Positions
  <2>2. Len(snap[q]) = 5
    BY DEF TypeInv, QueryOK, ReadMiss
  <2>3. snap[q][Position(r[1])] \subseteq store[SnapOrder[Position(r[1])]]
    BY <2>1, <2>2 DEF CommitInv, SnapsCommitted
  <2> QED
    BY <2>1, <2>3 DEF SnapOf
<1> DEFINE new == [s |-> r[1], k |-> r[2], v |-> ValueOf(SnapOf(q, r[1]), r[1], r[2])]
<1>3. fill' = [fill EXCEPT ![q] = {new}] /\ UNCHANGED <<store, ipc, at, snap, cache>>
  BY DEF ReadMiss
<1>4. new.v \subseteq ValueOf(store[new.s], new.s, new.k)
  BY <1>2 DEF ValueOf
<1> HIDE DEF new
<1>5. FillsCommitted'
  <2> SUFFICES ASSUME NEW p \in Query, NEW e \in fill'[p]
               PROVE  e.v \subseteq ValueOf(store[e.s], e.s, e.k)
    BY <1>3 DEF FillsCommitted, ValueOf
  <2>1. e = new \/ e \in fill[p]
    BY <1>3 DEF TypeInv, TypeOK
  <2> QED
    BY <1>4, <2>1 DEF CommitInv, FillsCommitted
<1> QED
  BY <1>3, <1>5
     DEF CommitInv, CommitsInOrder, PredLast, SnapsCommitted, SnapsOrdered, CacheCommitted, ValueOf

\* Setting an entry changes no other.
LEMMA FilledEntries ==
    ASSUME TypeInv, NEW e \in Entry, cache' = [cache EXCEPT ![e.s] = WithEntry(@, e.k, e.v)]
    PROVE  \A s \in Cached : \A k \in DOMAIN cache'[s] :
               \/ s = e.s /\ k = e.k /\ cache'[s][k] = e.v
               \/ k \in DOMAIN cache[s] /\ cache'[s][k] = cache[s][k]
<1> SUFFICES ASSUME NEW s \in Cached, NEW k \in DOMAIN cache'[s]
             PROVE  \/ s = e.s /\ k = e.k /\ cache'[s][k] = e.v
                    \/ k \in DOMAIN cache[s] /\ cache'[s][k] = cache[s][k]
  OBVIOUS
<1>1. CASE s = e.s
  <2>1. cache'[s] = WithEntry(cache[s], e.k, e.v)
    BY <1>1 DEF TypeInv, TypeOK
  <2> QED
    BY <1>1, <2>1 DEF WithEntry
<1>2. CASE s # e.s
  BY <1>2 DEF TypeInv, TypeOK
<1> QED
  BY <1>1, <1>2

\* What goes into the cache was read from a snapshot.
LEMMA FillCommit ==
    ASSUME TypeInv, CommitInv, NEW q \in Query, Fill(q)
    PROVE  CommitInv'
<1>1. PICK e \in fill[q] : cache' = [cache EXCEPT ![e.s] = WithEntry(@, e.k, e.v)]
  BY DEF Fill
<1>2. e \in Entry
  BY DEF TypeInv, TypeOK
<1>3. UNCHANGED <<store, ipc, at, snap>> /\ fill' = [fill EXCEPT ![q] = {}]
  BY DEF Fill
<1>4. e.v \subseteq ValueOf(store[e.s], e.s, e.k)
  BY DEF CommitInv, FillsCommitted
<1>5. CacheCommitted'
  <2>1. \A s \in Cached : \A k \in DOMAIN cache'[s] :
            \/ s = e.s /\ k = e.k /\ cache'[s][k] = e.v
            \/ k \in DOMAIN cache[s] /\ cache'[s][k] = cache[s][k]
    BY <1>1, <1>2, FilledEntries
  <2> SUFFICES ASSUME NEW s \in Cached, NEW k \in DOMAIN cache'[s]
               PROVE  cache'[s][k] \subseteq ValueOf(store[s], s, k)
    BY <1>3 DEF CacheCommitted, ValueOf
  <2> QED
    BY <1>4, <2>1 DEF CommitInv, CacheCommitted
<1>6. FillsCommitted'
  BY <1>3 DEF TypeInv, TypeOK, CommitInv, FillsCommitted, ValueOf
<1> QED
  BY <1>3, <1>5, <1>6
     DEF CommitInv, CommitsInOrder, PredLast, SnapsCommitted, SnapsOrdered

\* A query that closes drops its snapshots.
LEMMA CloseCommit ==
    ASSUME TypeInv, CommitInv, NEW q \in Query, Close(q)
    PROVE  CommitInv'
<1>1. UNCHANGED <<store, ipc, at, fill, cache>> /\ snap' = [snap EXCEPT ![q] = <<>>]
  BY DEF Close
<1>2. SnapsCommitted' /\ SnapsOrdered'
  BY <1>1 DEF TypeInv, TypeOK, CommitInv, SnapsCommitted, SnapsOrdered
<1> QED
  BY <1>1, <1>2
     DEF CommitInv, CommitsInOrder, PredLast, FillsCommitted, CacheCommitted, ValueOf

\* Every step fills caches with committed values only.
LEMMA NextCommit == TypeInv /\ CommitInv /\ [Next]_vars => CommitInv'
<1> SUFFICES ASSUME TypeInv, CommitInv, [Next]_vars PROVE CommitInv'
  OBVIOUS
<1>1. ASSUME NEW q \in Query, StartQuery(q) \/ BeginReads(q)
      PROVE  CommitInv'
  BY <1>1, QuietCommit DEF StartQuery, BeginReads, CommitInv, CommitsInOrder
<1>2. CASE UNCHANGED vars
  BY <1>2, QuietCommit DEF vars, CommitInv, CommitsInOrder
<1>3. CASE Next
  BY <1>1, <1>3, InsertLoopCommit, CommitStoreCommit, EvictCommit, TakeSnapshotCommit,
     ReadMissCommit, FillCommit, CloseCommit DEF Next, InsertStep, QueryStep
<1> QED
  BY <1>2, <1>3

\* No query is ever answered from an insert that was not committed to the store
\* it reads: snapshots hold committed inserts only, a value read from one stays
\* committed until it is put into the cache, and commits are never taken back.
THEOREM CacheAlwaysCommitted == Spec => []CacheCommitted
<1>1. CommitInv => CacheCommitted
  BY DEF CommitInv
<1> QED
  BY <1>1, TypeCorrect, InitCommit, NextCommit, PTL DEF Spec

\* What a query finds in its predicate snapshot it finds in its graph and
\* extended index snapshots: snapshot() takes the predicates before the two, and
\* commit() commits them after the two, for every interleaving of both loops.
THEOREM SnapshotsOrdered == Spec => []SnapPredInGraph
<1>1. TypeInv /\ CommitInv => SnapPredInGraph
  <2> SUFFICES ASSUME TypeInv, CommitInv, NEW q \in Query
               PROVE  /\ HasSnap(q, "graph") => SnapOf(q, "pred") \subseteq SnapOf(q, "graph")
                      /\ HasSnap(q, "ext") => SnapOf(q, "pred") \subseteq SnapOf(q, "ext")
    BY DEF SnapPredInGraph
  <2>1. snap[q] \in Seq(Value)
    BY DEF TypeInv, TypeOK
  <2>2. /\ HasSnap(q, "graph") => Len(snap[q]) >= 4
        /\ HasSnap(q, "ext") => Len(snap[q]) >= 5
    BY <2>1, Positions DEF HasSnap
  <2> QED
    BY <2>2, Positions DEF SnapOf, CommitInv, SnapsOrdered
<1> QED
  BY <1>1, TypeCorrect, InitCommit, NextCommit, PTL DEF Spec

-----------------------------------------------------------------------------
(* What eviction leaves in the cache.                                      *)

\* An insert no query has overlapped runs alone.
LonelyAlone == \A i \in Insert : lonely[i] /\ Running(i) => NoQuery

OnItsWay(s, k) == k \in DOMAIN cache[s] => k \in Range(pendingEvict)

\* While it adds and commits, the keys it has queued are out of the caches or
\* still queued.
AddsEvicted ==
    \A i \in Insert : lonely[i] =>
        /\ ipc[i] = "adding" =>
              \A n \in 1 .. at[i], s \in Cached : OnItsWay(s, Evicts[i][n])
        /\ ipc[i] = "commit" =>
              \A n \in 1 .. Len(Evicts[i]), s \in Cached : OnItsWay(s, Evicts[i][n])

\* Afterwards every query has the insert in all its snapshots and in what it
\* fills the cache with; an entry without it is still queued for eviction.
SnapsHave(i) == \A q \in Query : \A n \in 1 .. Len(snap[q]) : i \in snap[q][n]
FillsHave(i) == \A q \in Query : \A e \in fill[q] : e.k \in Writes[i][e.s] => i \in e.v
CacheHas(i) ==
    \A n \in 1 .. Len(Evicts[i]), s \in Cached :
        LET k == Evicts[i][n]
        IN  k \in Writes[i][s] /\ k \in DOMAIN cache[s] =>
                i \in cache[s][k] \/ k \in Range(pendingEvict)

DoneVisible ==
    \A i \in Insert :
        lonely[i] /\ ipc[i] = "done" => SnapsHave(i) /\ FillsHave(i) /\ CacheHas(i)

EvictInv == LonelyAlone /\ AddsEvicted /\ DoneVisible

\* Sending a key adds it to the queue.
LEMMA QueuedAppend ==
    ASSUME NEW u \in Seq(Key), NEW k \in Key
    PROVE  Range(Append(u, k)) = Range(u) \cup {k}
<1>1. Len(Append(u, k)) = Len(u) + 1 /\ Append(u, k)[Len(u) + 1] = k
      /\ \A n \in 1 .. Len(u) : Append(u, k)[n] = u[n]
  OBVIOUS
<1>2. DOMAIN u = 1 .. Len(u) /\ DOMAIN Append(u, k) = 1 .. Len(u) + 1 /\ Len(u) \in Nat
  OBVIOUS
<1>3. 1 .. Len(u) + 1 = (1 .. Len(u)) \cup {Len(u) + 1}
  BY <1>2
<1> QED
  BY <1>1, <1>2, <1>3 DEF Range

\* Receiving takes the first key and no other.
LEMMA QueuedTail ==
    ASSUME NEW u \in Seq(Key), u # <<>>, NEW k \in Range(u), k # Head(u)
    PROVE  k \in Range(Tail(u))
<1>1. PICK n \in DOMAIN u : k = u[n]
  BY DEF Range
<1>2. Len(u) \in Nat /\ n \in 1 .. Len(u) /\ n # 1
  BY <1>1
<1>3. Tail(u)[n - 1] = u[n] /\ n - 1 \in DOMAIN Tail(u)
  BY <1>2
<1> QED
  BY <1>1, <1>3 DEF Range

\* No insert is done at the start.
LEMMA InitEvict == Init => EvictInv
BY DEF Init, EvictInv, LonelyAlone, Running, AddsEvicted, DoneVisible

\* Steps of an insert, of those that change neither caches nor queries.
LEMMA OpenStoreEvict ==
    ASSUME TypeInv, EvictInv, NEW i \in Insert, OpenStore(i)
    PROVE  EvictInv'
<1>1. /\ ipc[i] = "start"
      /\ at' = [at EXCEPT ![i] = @ + 1]
      /\ UNCHANGED <<ipc, pendingEvict, cache, qpc, snap, fill>>
      /\ lonely' = [lonely EXCEPT ![i] = @ /\ NoQuery]
  BY DEF OpenStore
<1>2. \A j \in Insert : lonely'[j] => lonely[j]
  BY <1>1 DEF TypeInv, TypeOK
<1>3. lonely'[i] => NoQuery
  BY <1>1 DEF TypeInv, TypeOK
<1>4. \A j \in Insert : j # i => at'[j] = at[j]
  BY <1>1 DEF TypeInv, TypeOK
<1>5. LonelyAlone'
  BY <1>1, <1>2, <1>3, <1>4 DEF EvictInv, LonelyAlone, Running, NoQuery
<1>6. AddsEvicted'
  BY <1>1, <1>2, <1>4 DEF EvictInv, AddsEvicted, OnItsWay
<1>7. DoneVisible'
  BY <1>1, <1>2 DEF EvictInv, DoneVisible, SnapsHave, FillsHave, CacheHas
<1> QED
  BY <1>5, <1>6, <1>7 DEF EvictInv

\* The steps of an insert that send no key to the evictor.
LEMMA InsertLoopEvict ==
    ASSUME TypeInv, EvictInv, NEW i \in Insert,
           Opened(i) \/ Added(i) \/ CommitStore(i) \/ Discard(i)
    PROVE  EvictInv'
<1>1. UNCHANGED <<pendingEvict, cache, qpc, snap, fill, lonely>>
  BY DEF Opened, Added, CommitStore, Discard
<1>2. \A j \in Insert : j # i => at'[j] = at[j] /\ ipc'[j] = ipc[j]
  BY DEF TypeInv, TypeOK, Opened, Added, CommitStore, Discard
<1>3. Running(i)' => Running(i)
  BY Orders DEF TypeInv, TypeOK, Opened, Added, CommitStore, Discard, Running
<1>4. ipc'[i] # "done"
  BY DEF TypeInv, TypeOK, Opened, Added, CommitStore, Discard
<1>5. LonelyAlone'
  BY <1>1, <1>2, <1>3 DEF EvictInv, LonelyAlone, Running, NoQuery
<1>6. DoneVisible'
  BY <1>1, <1>2, <1>4 DEF EvictInv, DoneVisible, SnapsHave, FillsHave, CacheHas
<1>7. \A j \in Insert : j # i /\ lonely[j] =>
        /\ ipc'[j] = "adding" =>
              \A n \in 1 .. at'[j], s \in Cached : OnItsWay(s, Evicts[j][n])
        /\ ipc'[j] = "commit" =>
              \A n \in 1 .. Len(Evicts[j]), s \in Cached : OnItsWay(s, Evicts[j][n])
  BY <1>2 DEF EvictInv, AddsEvicted
<1>8. lonely[i] =>
        /\ ipc'[i] = "adding" =>
              \A n \in 1 .. at'[i], s \in Cached : OnItsWay(s, Evicts[i][n])
        /\ ipc'[i] = "commit" =>
              \A n \in 1 .. Len(Evicts[i]), s \in Cached : OnItsWay(s, Evicts[i][n])
  <2>1. CASE Opened(i)
    BY <2>1 DEF TypeInv, TypeOK, Opened
  <2>2. CASE Added(i)
    BY <2>2 DEF TypeInv, TypeOK, Added, EvictInv, AddsEvicted
  <2>3. CASE CommitStore(i)
    BY <2>3 DEF TypeInv, TypeOK, CommitStore, EvictInv, AddsEvicted
  <2>4. CASE Discard(i)
    BY <2>4 DEF TypeInv, TypeOK, Discard
  <2> QED
    BY <2>1, <2>2, <2>3, <2>4
<1>9. AddsEvicted'
  BY <1>1, <1>7, <1>8 DEF AddsEvicted, OnItsWay
<1> QED
  BY <1>5, <1>6, <1>9 DEF EvictInv

\* A key sent is queued until its entries are deleted.
LEMMA EvictKeyEvict ==
    ASSUME TypeInv, EvictInv, NEW i \in Insert, EvictKey(i)
    PROVE  EvictInv'
<1> DEFINE k == Evicts[i][at[i] + 1]
<1>1. /\ ipc[i] = "adding" /\ at' = [at EXCEPT ![i] = @ + 1]
      /\ pendingEvict' = Append(pendingEvict, k)
      /\ UNCHANGED <<ipc, cache, qpc, snap, fill, lonely>>
  BY DEF EvictKey
<1>2. at[i] \in Nat /\ at[i] + 1 \in 1 .. Len(Evicts[i]) /\ Evicts[i] \in Seq(Key)
  BY DEF TypeInv, TypeOK, EvictKey
<1>3. k \in Key
  BY <1>2
<1>4. Range(pendingEvict') = Range(pendingEvict) \cup {k}
  BY <1>1, <1>3, QueuedAppend DEF TypeInv, TypeOK
<1>5. /\ \A j \in Insert : j # i => at'[j] = at[j]
      /\ at'[i] = at[i] + 1
  BY <1>1 DEF TypeInv, TypeOK
<1>6. LonelyAlone'
  BY <1>1, <1>5 DEF EvictInv, LonelyAlone, Running, NoQuery
<1>7. DoneVisible'
  BY <1>1, <1>4 DEF EvictInv, DoneVisible, SnapsHave, FillsHave, CacheHas
<1>8. AddsEvicted'
  <2>1. \A s \in Cached, x \in Key : OnItsWay(s, x) => OnItsWay(s, x)'
    BY <1>1, <1>4 DEF OnItsWay
  <2> SUFFICES ASSUME NEW j \in Insert, lonely[j]
               PROVE  /\ ipc[j] = "adding" =>
                            \A n \in 1 .. at'[j], s \in Cached : OnItsWay(s, Evicts[j][n])'
                      /\ ipc[j] = "commit" =>
                            \A n \in 1 .. Len(Evicts[j]), s \in Cached :
                                OnItsWay(s, Evicts[j][n])'
    BY <1>1 DEF AddsEvicted
  <2>2. \A n \in 1 .. Len(Evicts[j]) : Evicts[j][n] \in Key
    OBVIOUS
  <2>3. ipc[j] = "commit" =>
            \A n \in 1 .. Len(Evicts[j]), s \in Cached : OnItsWay(s, Evicts[j][n])'
    BY <2>1, <2>2 DEF EvictInv, AddsEvicted
  <2>4. CASE j = i
    <3> SUFFICES ASSUME NEW n \in 1 .. at[i] + 1, NEW s \in Cached
                 PROVE  OnItsWay(s, Evicts[i][n])'
      BY <1>1, <1>5, <2>3, <2>4
    <3>1. CASE n = at[i] + 1
      BY <1>4, <3>1 DEF OnItsWay
    <3>2. CASE n \in 1 .. at[i]
      BY <1>1, <1>2, <2>1, <2>2, <2>4, <3>2 DEF EvictInv, AddsEvicted
    <3> QED
      BY <1>2, <3>1, <3>2
  <2>5. CASE j # i
    <3>1. ipc[j] = "adding" => at[j] \in Nat /\ at[j] <= Len(Evicts[j])
      BY DEF TypeInv, TypeOK, InsertOK
    <3>2. ipc[j] = "adding" =>
              \A n \in 1 .. at[j], s \in Cached : OnItsWay(s, Evicts[j][n])'
      BY <2>1, <2>2, <3>1 DEF EvictInv, AddsEvicted
    <3> QED
      BY <1>5, <2>3, <2>5, <3>2
  <2> QED
    BY <2>4, <2>5
<1> QED
  BY <1>6, <1>7, <1>8 DEF EvictInv

\* The insert returns: no query runs, and what it queued is out or queued still.
LEMMA CommittedEvict ==
    ASSUME TypeInv, EvictInv, NEW i \in Insert, Committed(i)
    PROVE  EvictInv'
<1>1. /\ ipc[i] = "commit" /\ ipc' = [ipc EXCEPT ![i] = "done"]
      /\ UNCHANGED <<at, pendingEvict, cache, qpc, snap, fill, lonely>>
  BY DEF Committed
<1>2. /\ \A j \in Insert : j # i => ipc'[j] = ipc[j]
      /\ ipc'[i] = "done"
  BY <1>1 DEF TypeInv, TypeOK
<1>3. LonelyAlone'
  BY <1>1, <1>2 DEF EvictInv, LonelyAlone, Running, NoQuery
<1>4. AddsEvicted'
  BY <1>1, <1>2 DEF EvictInv, AddsEvicted, OnItsWay
<1>5. ASSUME lonely[i]
      PROVE  SnapsHave(i) /\ FillsHave(i) /\ CacheHas(i)
  <2>1. NoQuery
    BY <1>1, <1>5 DEF EvictInv, LonelyAlone, Running
  <2>2. \A q \in Query : snap[q] = <<>> /\ fill[q] = {}
    BY <2>1 DEF NoQuery, TypeInv, QueryOK
  <2>3. CacheHas(i)
    BY <1>1, <1>5 DEF EvictInv, AddsEvicted, OnItsWay, CacheHas
  <2> QED
    BY <2>2, <2>3 DEF SnapsHave, FillsHave
<1>6. DoneVisible'
  BY <1>1, <1>2, <1>5 DEF EvictInv, DoneVisible, SnapsHave, FillsHave, CacheHas
<1> QED
  BY <1>3, <1>4, <1>6 DEF EvictInv

\* The evictor: a key that leaves the queue leaves the caches.
LEMMA EvictEvict ==
    ASSUME TypeInv, EvictInv, Evict
    PROVE  EvictInv'
<1>1. UNCHANGED <<ipc, at, qpc, snap, fill, lonely>> /\ pendingEvict' = Tail(pendingEvict)
      /\ pendingEvict # <<>> /\ pendingEvict \in Seq(Key)
  BY DEF Evict, TypeInv, TypeOK
<1>2. \A k \in Range(pendingEvict) : k # Head(pendingEvict) => k \in Range(pendingEvict')
  BY <1>1, QueuedTail
<1>3. \A s \in Cached : /\ DOMAIN cache'[s] = DOMAIN cache[s] \ {Head(pendingEvict)}
                        /\ \A k \in DOMAIN cache'[s] : cache'[s][k] = cache[s][k]
  BY EvictedEntries
<1>4. LonelyAlone'
  BY <1>1 DEF EvictInv, LonelyAlone, Running, NoQuery
<1>5. AddsEvicted'
  <2>1. \A s \in Cached : \A k : OnItsWay(s, k) => OnItsWay(s, k)'
    BY <1>2, <1>3 DEF OnItsWay
  <2> QED
    BY <1>1, <2>1 DEF EvictInv, AddsEvicted
<1>6. DoneVisible'
  <2>1. \A i \in Insert : CacheHas(i) => CacheHas(i)'
    BY <1>2, <1>3 DEF CacheHas
  <2> QED
    BY <1>1, <2>1 DEF EvictInv, DoneVisible, SnapsHave, FillsHave
<1> QED
  BY <1>4, <1>5, <1>6 DEF EvictInv

\* A query that starts ends the solitude of the inserts that are running.
LEMMA StartQueryEvict ==
    ASSUME TypeInv, EvictInv, NEW q \in Query, StartQuery(q)
    PROVE  EvictInv'
<1>1. UNCHANGED <<ipc, at, pendingEvict, cache, snap, fill>>
      /\ lonely' = [i \in Insert |-> lonely[i] /\ ~ Overlapped(i)]
  BY DEF StartQuery
<1>2. \A i \in Insert : lonely'[i] => lonely[i] /\ ~ Running(i)
  BY <1>1 DEF Overlapped
<1>3. LonelyAlone'
  BY <1>1, <1>2 DEF LonelyAlone, Running
<1>4. AddsEvicted'
  BY <1>1, <1>2 DEF EvictInv, AddsEvicted, OnItsWay
<1>5. DoneVisible'
  BY <1>1, <1>2 DEF EvictInv, DoneVisible, SnapsHave, FillsHave, CacheHas
<1> QED
  BY <1>3, <1>4, <1>5 DEF EvictInv

\* While a query runs, no lonely insert does.
LEMMA NoneRunsBeside ==
    ASSUME EvictInv, NEW q \in Query, qpc[q] # "idle", NEW i \in Insert, lonely[i]
    PROVE  ipc[i] \notin {"adding", "commit"} /\ ~ Running(i)
BY DEF EvictInv, LonelyAlone, Running, NoQuery

\* A step of a running query keeps what says nothing of done inserts.
LEMMA QueryStepEvict ==
    ASSUME TypeInv, EvictInv, NEW q \in Query, qpc[q] # "idle",
           UNCHANGED <<ipc, at, pendingEvict, lonely>>, DoneVisible'
    PROVE  EvictInv'
<1>1. LonelyAlone'
  BY NoneRunsBeside DEF LonelyAlone, Running
<1>2. AddsEvicted'
  BY NoneRunsBeside DEF AddsEvicted
<1> QED
  BY <1>1, <1>2 DEF EvictInv

\* A snapshot taken after an insert returned has what it committed.
LEMMA TakeSnapshotEvict ==
    ASSUME TypeInv, CommitInv, EvictInv, NEW q \in Query, TakeSnapshot(q)
    PROVE  EvictInv'
<1> DEFINE m == Len(snap[q]) + 1
<1>1. Len(snap[q]) \in Nat /\ m \in 1 .. 5 /\ snap[q] \in Seq(Value) /\ qpc[q] # "idle"
  BY Orders DEF TypeInv, TypeOK, TakeSnapshot
<1>2. /\ UNCHANGED <<ipc, at, pendingEvict, lonely, fill, cache>>
      /\ snap' = [snap EXCEPT ![q] = Append(@, store[SnapOrder[m]])]
  BY DEF TakeSnapshot
<1>3. /\ Len(snap'[q]) = m
      /\ \A n \in 1 .. Len(snap[q]) : snap'[q][n] = snap[q][n]
      /\ snap'[q][m] = store[SnapOrder[m]]
      /\ \A p \in Query : p # q => snap'[p] = snap[p]
  BY <1>1, <1>2 DEF TypeInv, TypeOK
<1>4. DoneVisible'
  <2> SUFFICES ASSUME NEW i \in Insert, lonely[i], ipc[i] = "done"
               PROVE  SnapsHave(i)'
    BY <1>2 DEF EvictInv, DoneVisible, FillsHave, CacheHas
  <2>1. i \in store[SnapOrder[m]]
    BY <1>1, Orders DEF CommitInv, CommitsInOrder
  <2>2. SnapsHave(i)
    BY DEF EvictInv, DoneVisible
  <2> SUFFICES ASSUME NEW p \in Query, NEW n \in 1 .. Len(snap'[p])
               PROVE  i \in snap'[p][n]
    BY DEF SnapsHave
  <2>3. CASE p # q
    BY <1>3, <2>2, <2>3 DEF SnapsHave
  <2>4. CASE p = q /\ n = m
    BY <1>3, <2>1, <2>4
  <2>5. CASE p = q /\ n # m
    <3>1. n \in 1 .. Len(snap[q])
      BY <1>1, <1>3, <2>5
    <3> QED
      BY <1>3, <2>2, <2>5, <3>1 DEF SnapsHave
  <2> QED
    BY <2>3, <2>4, <2>5
<1> QED
  BY <1>1, <1>2, <1>4, QueryStepEvict

\* A query begins to read, or closes.
LEMMA BeginOrCloseEvict ==
    ASSUME TypeInv, EvictInv, NEW q \in Query, BeginReads(q) \/ Close(q)
    PROVE  EvictInv'
<1>1. qpc[q] # "idle" /\ UNCHANGED <<ipc, at, pendingEvict, lonely, fill, cache>>
  BY DEF BeginReads, Close
<1>2. \A p \in Query : snap'[p] = snap[p] \/ snap'[p] = <<>>
  BY DEF BeginReads, Close, TypeInv, TypeOK
<1>3. \A i \in Insert : SnapsHave(i) => SnapsHave(i)'
  <2> SUFFICES ASSUME NEW i \in Insert, SnapsHave(i),
                      NEW p \in Query, NEW n \in 1 .. Len(snap'[p])
               PROVE  i \in snap'[p][n]
    BY DEF SnapsHave
  <2>1. snap'[p] = snap[p]
    BY <1>2
  <2> QED
    BY <2>1 DEF SnapsHave
<1>4. DoneVisible'
  BY <1>1, <1>3 DEF EvictInv, DoneVisible, FillsHave, CacheHas
<1> QED
  BY <1>1, <1>4, QueryStepEvict

\* A read of a snapshot has what the snapshot has.
LEMMA ReadMissEvict ==
    ASSUME TypeInv, EvictInv, NEW q \in Query, NEW r \in Reads, ReadMiss(q, r[1], r[2])
    PROVE  EvictInv'
<1> DEFINE new == [s |-> r[1], k |-> r[2], v |-> ValueOf(SnapOf(q, r[1]), r[1], r[2])]
<1>1. /\ qpc[q] = "read"
      /\ UNCHANGED <<ipc, at, pendingEvict, lonely, snap, cache>>
      /\ fill' = [fill EXCEPT ![q] = {new}]
  BY DEF ReadMiss
<1>2. Position(r[1]) \in 1 .. Len(snap[q])
  BY <1>1, Positions DEF TypeInv, QueryOK
<1>3. DoneVisible'
  <2> SUFFICES ASSUME NEW i \in Insert, lonely[i], ipc[i] = "done"
               PROVE  FillsHave(i)'
    BY <1>1 DEF EvictInv, DoneVisible, SnapsHave, CacheHas
  <2>1. i \in SnapOf(q, r[1])
    BY <1>2 DEF EvictInv, DoneVisible, SnapsHave, SnapOf
  <2>2. new.k \in Writes[i][new.s] => i \in new.v
    BY <2>1 DEF ValueOf
  <2> HIDE DEF new
  <2> SUFFICES ASSUME NEW p \in Query, NEW e \in fill'[p], e.k \in Writes[i][e.s]
               PROVE  i \in e.v
    BY DEF FillsHave
  <2>3. e = new \/ e \in fill[p]
    BY <1>1 DEF TypeInv, TypeOK
  <2> QED
    BY <2>2, <2>3 DEF EvictInv, DoneVisible, FillsHave
<1> QED
  BY <1>1, <1>3, QueryStepEvict

\* A fill that may be stale is one of a query that ran during the insert.
LEMMA FillEvict ==
    ASSUME TypeInv, EvictInv, NEW q \in Query, Fill(q)
    PROVE  EvictInv'
<1>1. PICK e \in fill[q] : cache' = [cache EXCEPT ![e.s] = WithEntry(@, e.k, e.v)]
  BY DEF Fill
<1>2. e \in Entry /\ qpc[q] # "idle"
  BY DEF TypeInv, TypeOK, QueryOK
<1>3. UNCHANGED <<ipc, at, pendingEvict, lonely, snap>> /\ fill' = [fill EXCEPT ![q] = {}]
  BY DEF Fill
<1>4. \A s \in Cached : \A k \in DOMAIN cache'[s] :
          \/ s = e.s /\ k = e.k /\ cache'[s][k] = e.v
          \/ k \in DOMAIN cache[s] /\ cache'[s][k] = cache[s][k]
  BY <1>1, <1>2, FilledEntries
<1>5. DoneVisible'
  <2> SUFFICES ASSUME NEW i \in Insert, lonely[i], ipc[i] = "done"
               PROVE  FillsHave(i)' /\ CacheHas(i)'
    BY <1>3 DEF EvictInv, DoneVisible, SnapsHave
  <2>1. FillsHave(i) /\ CacheHas(i)
    BY DEF EvictInv, DoneVisible
  <2>2. FillsHave(i)'
    BY <1>3, <2>1 DEF FillsHave, TypeInv, TypeOK
  <2>3. e.k \in Writes[i][e.s] => i \in e.v
    BY <2>1 DEF FillsHave
  <2>4. CacheHas(i)'
    BY <1>3, <1>4, <2>1, <2>3 DEF CacheHas
  <2> QED
    BY <2>2, <2>4
<1> QED
  BY <1>2, <1>3, <1>5, QueryStepEvict

\* Every step leaves a stale entry only where one may be.
LEMMA NextEvict == TypeInv /\ CommitInv /\ EvictInv /\ [Next]_vars => EvictInv'
<1> SUFFICES ASSUME TypeInv, CommitInv, EvictInv, [Next]_vars PROVE EvictInv'
  OBVIOUS
<1>1. CASE UNCHANGED vars
  BY <1>1 DEF vars, EvictInv, LonelyAlone, Running, NoQuery, AddsEvicted, OnItsWay, DoneVisible,
              SnapsHave, FillsHave, CacheHas
<1>2. CASE Next
  BY <1>2, OpenStoreEvict, InsertLoopEvict, EvictKeyEvict, CommittedEvict, EvictEvict,
     StartQueryEvict, TakeSnapshotEvict, BeginOrCloseEvict, ReadMissEvict, FillEvict
     DEF Next, InsertStep, QueryStep
<1> QED
  BY <1>1, <1>2

\* Once an insert that no query overlapped has returned and its keys are
\* evicted, no later read of those keys misses it, although they are queued for
\* eviction before the commit and other inserts and queries come and go.
THEOREM EvictionAlwaysWorks == Spec => []EvictionWorks
<1>1. EvictInv => EvictionWorks
  <2> SUFFICES ASSUME EvictInv, NEW i \in Insert, ipc[i] = "done", lonely[i],
                      pendingEvict = <<>>,
                      NEW s \in Cached, NEW k \in Writes[i][s] \cap Range(Evicts[i]),
                      k \in DOMAIN cache[s]
               PROVE  i \in cache[s][k]
    BY DEF EvictionWorks
  <2>1. PICK n \in 1 .. Len(Evicts[i]) : k = Evicts[i][n]
    <3>1. DOMAIN Evicts[i] = 1 .. Len(Evicts[i])
      OBVIOUS
    <3> QED
      BY <3>1 DEF Range
  <2>2. k \notin Range(pendingEvict)
    BY DEF Range
  <2> QED
    BY <2>1, <2>2 DEF EvictInv, DoneVisible, CacheHas
<1> QED
  BY <1>1, TypeCorrect, InitCommit, NextCommit, InitEvict, NextEvict, PTL DEF Spec
=============================================================================
