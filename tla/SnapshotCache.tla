---------------------------- MODULE SnapshotCache ----------------------------
(***************************************************************************)
(* Inserts, queries and the entity cache of one HodDB database running at  *)
(* the same time (transaction.go, snapshot.go, traversal.go, cache.go).    *)
(*                                                                         *)
(* Each of the five leveldb stores admits one write transaction at a time  *)
(* and hands out snapshots freely.  An insert holds a transaction of every *)
(* store, queues the keys of its triples for eviction from the cache, and  *)
(* commits store after store.  A query takes a snapshot of each store, one *)
(* after the other, and reads through the cache: what it misses it reads   *)
(* from its snapshot and then puts into the cache all queries share.       *)
(*                                                                         *)
(* An insert is identified by its process, and each inserts once.  The     *)
(* content of a store is the set of inserts committed to it, and the value *)
(* of a key in a store is the set of those that wrote the key.             *)
(***************************************************************************)
EXTENDS Naturals, Sequences, SequencesExt, TLC

CONSTANTS
    Key,
    Insert,         \* goroutines that insert one batch each
    Query,          \* goroutines that run queries, one after the other
    None,           \* no holder
    Writes,         \* Writes[i][s]: the keys insert i changes in cached store s
    Reads,          \* the <<cached store, key>> pairs queries look up
    Evicts,         \* Evicts[i]: the keys of its triples, in order
    EvictCapacity   \* buffer of pendingEvict (10^6 in the code)

\* Opened and committed in this order ...
LockOrder == <<"entity", "pk", "graph", "ext", "pred">>
CommitOrder == <<"entity", "pk", "graph", "ext", "pred">>
\* ... and snapshotted in this one.  (Slips, here and below, are what a plausible
\* bug would make of the definition after them; no specification uses them.)
SlipSameOrder == <<"entity", "pk", "graph", "ext", "pred">>

SnapOrder == <<"entity", "pk", "pred", "graph", "ext">>

Store == {"entity", "pk", "graph", "ext", "pred"}

\* The stores with a cache whose entries can go out of date: entityObjectCache,
\* entityIndexCache and predCache.  A URI never changes its hash.
Cached == {"graph", "ext", "pred"}

Value == SUBSET Insert

ASSUME NoneAssumption == None \notin Insert
ASSUME WritesAssumption == Writes \in [Insert -> [Cached -> SUBSET Key]]
ASSUME ReadsAssumption == Reads \subseteq Cached \X Key
ASSUME EvictsAssumption == Evicts \in [Insert -> Seq(Key)]
ASSUME EvictCapacityAssumption == EvictCapacity \in Nat \ {0}

VARIABLES
    store,          \* the inserts committed to each store
    holder,         \* who has the open transaction of each store
    ipc,            \* where each insert is
    at,             \* its position in the loop it is in
    pendingEvict,   \* keys on their way to the evictor goroutine
    cache,          \* one map per cached store
    qpc,            \* where each query is
    snap,           \* the snapshots it has taken
    fill,           \* what it has read and is about to put into the cache
    lonely          \* auxiliary: no query overlapped the insert's evictions

vars == <<store, holder, ipc, at, pendingEvict, cache, qpc, snap, fill, lonely>>

\* What key k is in store s when the inserts of C are committed to it.
ValueOf(C, s, k) == {i \in C : k \in Writes[i][s]}

Entry == [s : Cached, k : Key, v : Value]

Init ==
    /\ store = [s \in Store |-> {}]
    /\ holder = [s \in Store |-> None]
    /\ ipc = [i \in Insert |-> "start"]
    /\ at = [i \in Insert |-> 0]
    /\ pendingEvict = <<>>
    /\ cache = [s \in Cached |-> <<>>]
    /\ qpc = [q \in Query |-> "idle"]
    /\ snap = [q \in Query |-> <<>>]
    /\ fill = [q \in Query |-> {}]
    /\ lonely = [i \in Insert |-> TRUE]

-----------------------------------------------------------------------------
(* Inserts.                                                                *)

NoQuery == \A q \in Query : qpc[q] = "idle"

\* Waits until nobody has an open transaction of the next store.
OpenStore(i) ==
    /\ ipc[i] = "start"
    /\ at[i] < Len(LockOrder)
    /\ holder[LockOrder[at[i] + 1]] = None
    /\ holder' = [holder EXCEPT ![LockOrder[at[i] + 1]] = i]
    /\ at' = [at EXCEPT ![i] = @ + 1]
    /\ lonely' = [lonely EXCEPT ![i] = @ /\ NoQuery]
    /\ UNCHANGED <<store, ipc, pendingEvict, cache, qpc, snap, fill>>

Opened(i) ==
    /\ ipc[i] = "start"
    /\ at[i] = Len(LockOrder)
    /\ ipc' = [ipc EXCEPT ![i] = "adding"]
    /\ at' = [at EXCEPT ![i] = 0]
    /\ UNCHANGED <<store, holder, pendingEvict, cache, qpc, snap, fill, lonely>>

\* addTriple queues the keys of the triple for eviction, waiting while the
\* channel is full: the insert is not committed yet.
EvictKey(i) ==
    /\ ipc[i] = "adding"
    /\ at[i] < Len(Evicts[i])
    /\ Len(pendingEvict) < EvictCapacity
    /\ pendingEvict' = Append(pendingEvict, Evicts[i][at[i] + 1])
    /\ at' = [at EXCEPT ![i] = @ + 1]
    /\ UNCHANGED <<store, holder, ipc, cache, qpc, snap, fill, lonely>>

\* The rest of addTriples reads and writes nothing but its own transaction.
Added(i) ==
    /\ ipc[i] = "adding"
    /\ at[i] = Len(Evicts[i])
    /\ ipc' = [ipc EXCEPT ![i] = "commit"]
    /\ at' = [at EXCEPT ![i] = 0]
    /\ UNCHANGED <<store, holder, pendingEvict, cache, qpc, snap, fill, lonely>>

\* A store's commit also ends its transaction: the next insert may open it
\* while this one is still committing the others.
CommitStore(i) ==
    /\ ipc[i] = "commit"
    /\ at[i] < Len(CommitOrder)
    /\ LET s == CommitOrder[at[i] + 1]
       IN /\ store' = [store EXCEPT ![s] = @ \cup {i}]
          /\ holder' = [holder EXCEPT ![s] = None]
    /\ at' = [at EXCEPT ![i] = @ + 1]
    /\ UNCHANGED <<ipc, pendingEvict, cache, qpc, snap, fill, lonely>>

Committed(i) ==
    /\ ipc[i] = "commit"
    /\ at[i] = Len(CommitOrder)
    /\ ipc' = [ipc EXCEPT ![i] = "done"]
    /\ UNCHANGED <<store, holder, at, pendingEvict, cache, qpc, snap, fill, lonely>>

\* An error path that returns without discard().
SlipNoDiscard(i) ==
    /\ ipc[i] \in {"adding", "commit"}
    /\ ipc[i] = "commit" => at[i] < Len(CommitOrder)
    /\ ipc' = [ipc EXCEPT ![i] = "failed"]
    /\ UNCHANGED <<store, holder, at, pendingEvict, cache, qpc, snap, fill, lonely>>

\* addTriples or the commit of a store fails: the transactions still open are
\* discarded, what was committed stays.
Discard(i) ==
    /\ ipc[i] \in {"adding", "commit"}
    /\ ipc[i] = "commit" => at[i] < Len(CommitOrder)
    /\ holder' = [s \in Store |-> IF holder[s] = i THEN None ELSE holder[s]]
    /\ ipc' = [ipc EXCEPT ![i] = "failed"]
    /\ UNCHANGED <<store, at, pendingEvict, cache, qpc, snap, fill, lonely>>

\* The entity cache forgotten by the evictor.
SlipKeepEntity(c, k) ==
    [s \in Cached |-> IF s = "graph" THEN c[s] ELSE Restrict(c[s], DOMAIN c[s] \ {k})]

\* The evictor goroutine drops one key from all three caches at a time.
Evicted(c, k) == [s \in Cached |-> Restrict(c[s], DOMAIN c[s] \ {k})]

Evict ==
    /\ pendingEvict # <<>>
    /\ cache' = Evicted(cache, Head(pendingEvict))
    /\ pendingEvict' = Tail(pendingEvict)
    /\ UNCHANGED <<store, holder, ipc, at, qpc, snap, fill, lonely>>

-----------------------------------------------------------------------------
(* Queries.  A read the cache can answer changes nothing.                  *)

Running(i) == ipc[i] \in {"adding", "commit"} \/ (ipc[i] = "start" /\ at[i] > 0)
Ended(i) == ipc[i] \in {"done", "failed"}

\* A query that starts while an insert is under way, or while keys are still
\* to be evicted for it, overlaps the insert.
Overlapped(i) == Running(i) \/ (Ended(i) /\ pendingEvict # <<>>)

StartQuery(q) ==
    /\ qpc[q] = "idle"
    /\ qpc' = [qpc EXCEPT ![q] = "snapshot"]
    /\ lonely' = [i \in Insert |-> lonely[i] /\ ~ Overlapped(i)]
    /\ UNCHANGED <<store, holder, ipc, at, pendingEvict, cache, snap, fill>>

Position(s) == CHOOSE n \in DOMAIN SnapOrder : SnapOrder[n] = s

\* The snapshot query q took of store s.
SnapOf(q, s) == snap[q][Position(s)]
HasSnap(q, s) == Position(s) \in DOMAIN snap[q]

TakeSnapshot(q) ==
    /\ qpc[q] = "snapshot"
    /\ Len(snap[q]) < Len(SnapOrder)
    /\ snap' = [snap EXCEPT ![q] = Append(@, store[SnapOrder[Len(@) + 1]])]
    /\ UNCHANGED <<store, holder, ipc, at, pendingEvict, cache, qpc, fill, lonely>>

BeginReads(q) ==
    /\ qpc[q] = "snapshot"
    /\ Len(snap[q]) = Len(SnapOrder)
    /\ qpc' = [qpc EXCEPT ![q] = "read"]
    /\ UNCHANGED <<store, holder, ipc, at, pendingEvict, cache, snap, fill, lonely>>

\* The open transaction's own traversal filling the shared cache.
SlipReadUncommitted(q, s, k) ==
    /\ qpc[q] = "read"
    /\ fill[q] = {}
    /\ k \notin DOMAIN cache[s]
    /\ fill' = [fill EXCEPT ![q] = {[s |-> s, k |-> k,
            v |-> ValueOf(store[s] \cup ({holder[s]} \ {None}), s, k)]}]
    /\ UNCHANGED <<store, holder, ipc, at, pendingEvict, cache, qpc, snap, lonely>>

\* A miss: the lock of the cache is released, the snapshot is read ...
ReadMiss(q, s, k) ==
    /\ qpc[q] = "read"
    /\ fill[q] = {}
    /\ k \notin DOMAIN cache[s]
    /\ fill' = [fill EXCEPT ![q] = {[s |-> s, k |-> k, v |-> ValueOf(SnapOf(q, s), s, k)]}]
    /\ UNCHANGED <<store, holder, ipc, at, pendingEvict, cache, qpc, snap, lonely>>

\* A cache with an entry set, new or not.
WithEntry(c, k, v) == [x \in DOMAIN c \cup {k} |-> IF x = k THEN v ELSE c[x]]

\* ... and the lock is taken again to set the entry, whatever happened since.
Fill(q) ==
    /\ \E e \in fill[q] : cache' = [cache EXCEPT ![e.s] = WithEntry(@, e.k, e.v)]
    /\ fill' = [fill EXCEPT ![q] = {}]
    /\ UNCHANGED <<store, holder, ipc, at, pendingEvict, qpc, snap, lonely>>

Close(q) ==
    /\ qpc[q] = "read"
    /\ fill[q] = {}
    /\ qpc' = [qpc EXCEPT ![q] = "idle"]
    /\ snap' = [snap EXCEPT ![q] = <<>>]
    /\ UNCHANGED <<store, holder, ipc, at, pendingEvict, cache, fill, lonely>>

InsertStep(i) ==
    OpenStore(i) \/ Opened(i) \/ EvictKey(i) \/ Added(i) \/ CommitStore(i) \/ Committed(i)

QueryStep(q) ==
    \/ StartQuery(q) \/ TakeSnapshot(q) \/ BeginReads(q) \/ Fill(q) \/ Close(q)
    \/ \E r \in Reads : ReadMiss(q, r[1], r[2])

Next ==
    \/ \E i \in Insert : InsertStep(i) \/ Discard(i)
    \/ Evict
    \/ \E q \in Query : QueryStep(q)

Spec == Init /\ [][Next]_vars

\* Goroutines are scheduled; nothing makes an insert fail or a query start.
FairSpec == Spec /\ WF_vars(Evict) /\ \A i \in Insert : WF_vars(InsertStep(i))

-----------------------------------------------------------------------------
(* Properties.                                                             *)

TypeOK ==
    /\ store \in [Store -> Value]
    /\ holder \in [Store -> Insert \cup {None}]
    /\ ipc \in [Insert -> {"start", "adding", "commit", "done", "failed"}]
    /\ at \in [Insert -> Nat]
    /\ pendingEvict \in Seq(Key) /\ Len(pendingEvict) <= EvictCapacity
    /\ cache \in [Cached -> UNION {[D -> Value] : D \in SUBSET Key}]
    /\ qpc \in [Query -> {"idle", "snapshot", "read"}]
    /\ snap \in [Query -> Seq(Value)]
    /\ fill \in [Query -> SUBSET Entry]
    /\ lonely \in [Insert -> BOOLEAN]

\* No query is ever answered from an insert that was not committed to the store
\* it reads, however snapshots, cache fills and failing inserts interleave.
CacheCommitted ==
    \A s \in Cached : \A k \in DOMAIN cache[s] : cache[s][k] \subseteq ValueOf(store[s], s, k)

\* What a query finds in its predicate snapshot it finds in its graph and
\* extended index snapshots, although the three are taken at different times:
\* snapshot() takes the predicates first and commit() commits them last.
SnapPredInGraph ==
    \A q \in Query :
        /\ HasSnap(q, "graph") /\ HasSnap(q, "pred")
              => SnapOf(q, "pred") \subseteq SnapOf(q, "graph")
        /\ HasSnap(q, "ext") /\ HasSnap(q, "pred")
              => SnapOf(q, "pred") \subseteq SnapOf(q, "ext")

\* The guarantee eviction does give: once an insert that no query overlapped has
\* returned and its keys are evicted, no later read of those keys misses it
\* (addTriple's evict calls, although they come before the commit).
EvictionWorks ==
    \A i \in Insert :
        ipc[i] = "done" /\ lonely[i] /\ pendingEvict = <<>> =>
            \A s \in Cached : \A k \in Writes[i][s] \cap Range(Evicts[i]) :
                k \in DOMAIN cache[s] => i \in cache[s][k]

\* Every insert returns: the five transactions are opened in one order by all,
\* every failure gives back those it holds, and an insert waiting for room in
\* pendingEvict waits only for the evictor, which waits for nobody.
InsertsReturn == \A i \in Insert : <>Ended(i)

-----------------------------------------------------------------------------
(* What NOTES.md says of inserts and the code does not do.                 *)

\* NOTES.md:94-95 "remember inserts should be transactional; we should not see
\* any intermediate forms of the database".
SnapshotWhole ==
    \A q \in Query : qpc[q] = "read" => \A m, n \in DOMAIN snap[q] : snap[q][m] = snap[q][n]

\* With nothing under way, the cache agrees with the stores.
Quiet == NoQuery /\ pendingEvict = <<>> /\ \A i \in Insert : ~ Running(i)

FreshCache ==
    Quiet => \A s \in Cached : \A k \in DOMAIN cache[s] :
                cache[s][k] = ValueOf(store[s], s, k)

\* NOTES.md:98-99 "Rather, we should see changes reflected in between
\* iterations": at least when inserts and queries never overlap.
FreshWhenSequential == (\A i \in Insert : lonely[i]) => FreshCache
=============================================================================
