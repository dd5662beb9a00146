# HodDB in TLA+

HodDB is a graph database for Brick building models: it loads Turtle files into
leveldb stores, rolls transitive edges into an index, and answers SPARQL-like
queries over them, while inserts may arrive at any time. This directory models
the parts of it in which something can go wrong that a test would hardly reach,
model-checks them with TLC on small instances, and proves about the models with
TLAPS what should hold for every instance.

Paths below are relative to the repository.

## 1. The system

| Component | Source | State it keeps | Operations |
|---|---|---|---|
| write transactions | `db/transaction.go`, `db/entity.go` | five leveldb stores (entity: URI to hash, pk: hash to URI, graph: edges of an entity, ext: its p+ edges, pred: subjects and objects of a predicate); per transaction `predbatch`, `hashes`, `inverseRelationships` | `openTransaction`, `addTriples`, `addTriple`, `addURI`, `rollupPredicate`, `done`, `commit`, `discard` |
| property paths, extended index | `db/traversal.go`, `db/keymap.go` | two lists of entities, two sets of visited keys, the keys reached | `followPathFromSubject`, `followPathFromObject`, `getSubjectFromPredObject`, ... |
| snapshots and cache | `db/snapshot.go`, `db/cache.go`, `db/context.go` | five snapshots per query; five maps and the channel `pendingEvict` shared by all | `snapshot`, `done`, cached getters, `evict`, the evictor goroutine |
| query planner | `db/dependency.go`, `db/plan.go` | `dependencyGraph`, `queryPlan.vars` | `makeDependencyGraph`, `formQueryPlan` |
| query execution | `db/operators.go`, `db/relation.go`, `db/row.go`, `db/context.go` | a relation of rows, and the values found for each variable | 13 operations, `join`, `getResults` |
| start-up loader | `db/hoddb.go` | `loadedfilehashes` and the file `fileHashes`, `dbs`, `buildings`, twenty workers, `errchan`, `loadwg` | `NewHodDB`, `loadDataset`, `saveIndexes`, `Databases` |
| front end | `db/hoddb.go`, `db/db_api.go`, `db/insert.go`, `db/result.go` | a B-tree of result rows, rows and error shared by the goroutines of a UNION | `RunQuery`, `runQuery`, `handleInsert` |
| database files | `db/db.go`, `db/util.go` | `predIndex`, `relationships`, `namespaces` and their files | `newDB`, `saveIndexes`, `hashURI` |
| query language | `lang/parser.go`, `lang/ast/ast.go`, `lang/parser/` | one parser object: a stack and the next token; the tables | `Parse`, the constructors of `ast`, `PopulateVars`, `Expand` |
| Turtle reader | `turtle/` | one locked parser around the C library raptor | `Parse`, `ParseReader` |
| BOSSWAVE service | `actions.go` | the databases found allowed, per message | `handleBOSSWAVEQuery`, one goroutine per message |
| server, CLI | `server/server.go`, `main.go`, `dot.go` | none | one goroutine per request |
| Go client | `clients/go/client.go` | `waiting`: nonce to reply channel | `DoQuery`, the receiving goroutine |
| configuration | `config/config.go` | read once | `ReadConfig`, `Copy` |

How they interact. The loader opens a database per building and inserts the
ontologies and the building's file through write transactions. The server, the
BOSSWAVE service and the command line call `RunQuery` from as many goroutines as
there are requests; it plans the query, takes a snapshot and executes the plan,
reading through the cache every query of a database shares; an INSERT then opens
a write transaction. leveldb lets one transaction per store be open at a time.
An insert tells the cache which keys to drop through `pendingEvict`; it tells
the queries nothing.

What is hard here, and what makes each component correct:

* *Write path.* Five commits are five steps, and a crash may come between any
  two. Correct: what the stores hold fits together at every moment
  (`PredInGraph`, `IndexSound`), nothing committed is lost (`NothingLost`), a torn
  insert is repaired by repeating it (`BatchDurable`), inverse predicates mirror
  each other in whatever order they arrive (`InverseClosed`), cyclic data does not
  keep an insert from returning (`InsertReturns`).
* *Snapshots and cache.* Snapshots, cache fills, evictions and commits
  interleave. Correct: nothing uncommitted is read, the five snapshots can be used
  together, eviction works at least when nothing overlaps, nobody waits forever.
* *Planner.* A greedy loop over a slice it splices. Correct: no term lost (proved, `AlwaysKeepsTerms`),
  no operation before its values (`StartsResolved`), and it ends.
* *Loader.* Workers, an error channel, a select and a file of hashes that outlives
  the process. Correct: what is recorded as loaded is loaded, whatever fails.
* *Query execution.* Each operation relies on what the ones before left in three
  places: the rows, the values per variable, the list of joined variables. Correct:
  rows are appended only where nothing has to be joined (`RowsAligned`), a join
  continues rows there were and makes none up (`RowsContinue`), the values cover the
  rows (`DefinitionsCoverRows`), no operation starts from values nobody has
  (`NothingPanics`), and the answer is what satisfies all the terms (`NothingMissed`,
  `TreesAnswered`).

* *Paths.* Two nested loops with a list and a set of visited keys each, and an
  index that cuts the search short. Correct: what is returned is what the path leads
  to (`PathsSound`, `PathsComplete`), and cycles do not keep it (`SearchEnds`).
* *Query language.* Generated tables, an action per production, a stack every caller
  shares. Correct: the tables are those of the grammar (`RowsFollowGrammar`), the stack
  is a parse of the text whatever was there before (`StackParsesText`), and the query
  asks for what the text says (`QueryMeansText`).
* *Front end.* Branches, databases and other callers' inserts interleave, and rows pass
  through a B-tree whose comparison is no order. Correct: nothing found is lost or
  made up (`AnswersWhatWasFound`, `CountsRows`), failures are named (`FailuresNamed`), calls
  return, and earlier inserts are seen as far as the cache allows (`SeesEarlierInserts`):
  not those whose entries stay cached, nor always those a query overlapped (section 4).
* *BOSSWAVE.* A bus that loses, delays and repeats, a timer racing an answer, one
  receiving goroutine for all calls. Correct: a call is a remote query
  (`CallsAreRemoteQueries`) and nobody holds up the receiver (`ResultsTaken`).

`PROJECT.json` lists every hazard at its line with the properties that watch it.

## 2. Modules

| Module | Stands for |
|---|---|
| `Reachability` | the meaning of `p+`: the least set closed under following edges, without recursion so that it can be proved about |
| `TripleSet` | the abstract specification of a database: a set of facts, inserts in one step, inverse predicates mirrored |
| `TripleStore` | the write path of one database, detailed |
| `SnapshotCache` | inserts, queries and the evictor of one database, concurrently |
| `QueryPlan` | ordering the terms of a query and choosing the operations |
| `QueryEngine` | running these operations over the rows of one query, on top of `QueryPlan` |
| `PathQuery` | following a property path from either end, over any extended index |
| `Grammar` | the productions: symbols, action, and what each argument is |
| `LRTables` | the generated action and goto tables |
| `LRAutomaton` | the automaton of the grammar, walked beside the tables |
| `QueryAst` | the constructors of `ast.go`, and the branches of a query |
| `QueryParser` | the parser's driver over tables and constructors, token by token |
| `FrontEnd` | RunQuery: databases, UNION branches reading through the cache, result rows, inserts |
| `RemoteQuery` | the abstract specification of a query over BOSSWAVE |
| `Bosswave` | client, bus and service, shown to implement `RemoteQuery` |
| `Loader` | starting HodDB, over restarts |
| `MC...` | instances for TLC; a `.cfg` per run |
| `TripleStoreProofs`, `SnapshotCacheProofs`, `PathQueryProofs`, `QueryEngineProofs`, `QueryParserProofs`, `FrontEndProofs`, `BosswaveProofs`, `LoaderProofs` | the theorems about the module of that name (`QueryEngineProofs`: about `QueryPlan` too) |

`TripleStore` extends `Reachability` and is shown to implement `TripleSet` (with the
content of the predicate store as the facts). `SnapshotCache` takes what a whole
insert does to a store from `TripleStore` as one constant, `Writes`, and keeps the
steps other goroutines can see. `Loader` takes a committed load as one step,
which `TripleStore` shows it may. `PathQuery` extends `Reachability` as `TripleStore` does:
one writes the extended index, the other reads it, and `IndexSound` of the first is
the assumption of the second. `QueryParser` composes `Grammar`, `QueryAst` and `LRTables`;
`FrontEnd` takes over where it ends, with the execution of a plan (`QueryEngine`) as the entries
it looks up, and a commit (`TripleStore`) and the five snapshots (`SnapshotCache`) as single
steps; `Bosswave` has `FrontEnd`'s RunQuery as one.

Definitions named `Slip...` are what a plausible mistake would make of the
definition after them (a swapped order, a dropped reset, a missing case). No
specification uses them; substituting one shows that a property can fail.

### TripleStore

A triple is `<<subject, predicate, object>>`, and each store is a set: the edge
lists of `graph`, the maps of `pred` and the `+` lists of `ext` are sets of
triples, since `AddInEdge`, `AddOutEdge`, `AddSubjectObject` and the `Plus`
versions never add twice. `disk` is what is committed, `mem` what the open
transaction reads back, and `pc` follows `addTriples`: `add` (one `AddTriple` per
triple, with its `addURI` calls), `pull` (the inverse pairs of the whole predicate
store), `inverse` (one `AddInverseEdges` per predicate), `roll`/`bases`/`follow`
(rollupPredicate: a predicate, one of its subjects or objects, one step of the
search), `commit` (a store a step). Go ranges over maps in any order, hence the
`\E` over `pairs`, `preds` and `bases`; edge lists are kept as sets, so `FollowEdges`
queues them in any order, which includes the one the code has.

Kept as in the code because it matters: subject and object are two copies of
the same entity when they are equal (`WithEdges`, `WithInverseEdges`), the entry of
`base` is read before and written after the others (`SaveIndex`), a missing index
entry ends the rollup of a predicate and the error is ignored (`AbortRollup`),
`addURI` does not repeat a put into `pk` (`WithURIs`).

Abstractions: a URI and its hash are one `Key`. Error returns that can only come
from leveldb reads or from msgp are left out, except at commit. `getHash` in
rollupPredicate finds its predicate because every predicate was added before.

### SnapshotCache

`store[s]` is the set of inserts committed to store `s`, and a value is the set of
inserts that wrote it: enough to tell old from new and committed from not. A
query takes snapshots in the order of `snapshot()`, and a cache miss is two
steps, as the lock is released between them. `lonely` is an auxiliary variable:
no query overlapped the insert and its evictions.

### QueryPlan

`terms`, `plan`, `links` and `operations` are `dg.terms`, `dg.plan`, `qp.vars` and
`qp.operations`. Of a chosen operation the model keeps the name and the variable
it starts from.

### QueryEngine

`EngineSpec` plans a query with `QueryPlan`'s actions, takes a snapshot (`StartRun`) and
runs an operation a step, each the action of the same name as the type in
`operators.go`. `rows`, `definitions` and `joined` are `ctx.rel.rows`,
`ctx.definitions` and `ctx.joined`; a row is a function of all variables with `Empty`
where the code has the zero key. `Unknown` is the error of a constant without a hash,
`Panics` and `ShortRow` are the panics, `getResults` the projection to any choice of
selected variables.

Kept because it matters: an operation appends rows or joins depending on what is
`defined` or `joined`; `Join` matches on one variable and overwrites the others;
`defineVariable` keeps a nonempty set and `unionDefinitions` intersects; several
operations mark variables joined without defining them, or define them with no
values; `add1Value` and its siblings skip what the multi-index lists, which joins do not
maintain (`added`); `predIndex` is never filled, so `resolveVarTripleFromPredicate`
dereferences nil for any value.

Abstractions: a URI and its key are one constant, and `graph` is what the snapshot's
stores hold together (`TripleStore` says when they do). Constant predicates are paths
of one step. Rows are a set, the 32-bit hash of result rows tells all rows apart, and
the positions which a join shifts in the multi-index are left out. A term has no
variable twice (`SimpleAssumption`). `resolveVarTripleAll` ends the model of a query
unless it is the last operation or followed by another (`scrambled`), since it leaves
positions the context does not know.
`resolveObjectFromVarSubjectPred` does nothing and no plan contains it.

### PathQuery

A behaviour is one search over a fixed database, which is chosen at the start with its
edges, the keys that have an index entry, and the edges there were when the entries
were written: `TripleStore` proves the entries sound and shows that they may be old.
`stack`, `traversed` and `reachable` belong to the loop in getObjectFromSubjectPred and
getSubjectFromPredObject, `inner` and `innerTraversed` to followPathFromSubject and
followPathFromObject, which are mirror images: `query.from` says which. `FollowIndex` is the
return at an index entry, `FollowEdges` the two pushes per neighbour. `Meaning` is the
reference: what the patterns mean in terms of `ReachPlus`, segment by segment (`Walks`: the
sets of keys a walk over the path goes through; `WalkedTo`: the one after n segments).
`PathsComplete` is about paths whose predicates all have a hash (`Hashed`): where one has
none the search of its segment ends at once, even for `p?` and `p*`, which match the start.

Abstractions: lists are sets, since a repeated entity is skipped by both loops and the
order of an edge list follows the order of inserts. Errors of reads are left out; that
of a predicate without a hash is there, as the loop ignores it (`Pop`).

### Grammar, LRTables, LRAutomaton

`Grammar` has the 64 productions of `productionstable.go`: left side, right side, and
the call its ReduceFunc makes with the positions of its arguments. `LRTables` has the
non-nil entries of `actiontable.go` and the entries other than -1 of `gototable.go`, a row
per state, in blocks of four states. `LRAutomaton` computes the canonical LR(1) item
sets from the productions (`Closure`, `Advance`; `Rounds` bounds the two fixed points, and
the MC module takes enough of them that another changes nothing) and walks them in step
with the tables: a step per symbol that the parser may push.

### QueryAst and QueryParser

An attribute on the stack carries the name of its Go type; a constructor whose type
assertion fails gives `Panic`. A name is the token it was read from. `QueryParser` has one
action per case of the loop in `parser.Parse`; a pop with its ReduceFunc and the push after
it are two steps, since another goroutine may come between. The text is written while it
is scanned, word by word, from the words of a kind of text, so that a text is cut
short by its first error. Entries also carry, for the properties, the symbol pushed,
the tokens it covers and what the grammar takes them to mean: UNION offers its two
sides, everything else is a conjunction. `QueryAst` needs no recursion over groups: a union
is kept as the lists of terms it expands to, since no constructor changes a group once it
is in another and nothing but its expansion is asked of it.

`TablesAssumption` is what the driver relies on the generated tables for, and all that the proofs
use of them: where they ask for a production to be reduced, every way to that state has
pushed the production's symbols (`After`), and the state below has a goto. TLC evaluates it on
the full tables.

### FrontEnd

`RunQuery`, `runQuery`, `Wait`, `Merge`, `Drain`, `HandleInsert`, `Commit` and `Return` are the steps
of a call, `Snapshot`, `Lookup`, `Fill`, `GetResults` and `Append1` those of the goroutine of a branch
(without UNION there is one branch, and the order of its steps is the code's), `Evict` that of
a database's evictor. A URI is a pair of numbers for namespace and value, compared as `Less`
compares the strings. The B-tree is the sequence of its items; as `Less` is no order, a search
may end at several places, and all of them are taken (`Places`). `prefix` is the namespace that
IterTriples has written into the terms. A failed insert may or may not have been committed on its
database (`InsertFails`), since the text index and saveIndexes come after the commit.

A branch reads as the code does, through the cache that all queries of a database share. An
entry (`Key`) is a node, an index record or a predicate, and its value the facts that can be
read from it: `Reads` says which entries a branch looks up, `Under` which of them a fact is read
from, `Own` which are those of the fact's own triple. `Lookup` takes what the cache has, or the
branch's snapshot, and `Fill` puts the latter into the cache in a step of its own, since the lock
is released between; of an entry the snapshot does not have, a fill may store that too, as
getExtendedIndexByHash does with nil. A fact is found if all entries it is read from show it
(`ArgsShown`), whatever age each has. An insert queues the entries of its own triples
(`Evictions`), and no others, before it commits. `db.cache` is never nil in a database of HodDB
(db.go:130).

`found`, `failed`, `old`, `loaded` and `sure` are history variables. `Settled` are the facts a caller
may count on: those there were at the start, and those of an insert that no query context
overlapped (`NoContext`, and `Snapshot` takes back), whose entries are all evicted (`Covered`) and
are no longer queued (`Evicting`).

### Bosswave and RemoteQuery

A call is its nonce. `waiting`, `replyChan` and `timer` are the client's, `handler`, `checking` and
`databases` those of the goroutine handling a message, `slot` and `signal` what is on the bus.
The bus loses queries and results and delivers results twice; a query published
twice would only add results. allowVK is a relation, `Allowed`, and ResolveLongAlias may
fail for any database. `RemoteQuery` is what a caller may count on; the mapping takes a
call from its publication to its return (`Status`), and as its answer the databases of the
result it returned with (`Answer`).

### Loader

The content of a file, its hash and its triples are one version number. `main` is
the goroutine in NewHodDB with its feeder, `worker[w].at` where each worker is.
`hod.buildings = append(...)` without a lock is a read step and a write step. A
failed start leaves its workers running until the process exits, as in the code.
`asked` and `lost` are history variables: the files at the time of the start, and
whether a start went on past an error in `errchan`.

## 3. Runs

Deadlock is not checked where behaviours are meant to end: the number of
transactions, inserts, starts and failures is bounded, and the planner stops.

| Run | Question | Instance |
|---|---|---|
| `MCTripleStore` | the write path, with crashes and failed commits at any step | 3 nodes, 2 predicates inverse to each other, 5 batches (chain, cycle, loop, inverse declaration), 3 inserts in any order with repetition, 2 failures; about 261 thousand states |
| `MCSnapshotCache` | concurrent inserts, queries and evictions | 2 inserts, 1 query that runs again and again, 2 keys, a channel of one; about 320 thousand states |
| `MCQueryEngine` | planning and running a query | every query of up to 3 terms out of 11, which have each mix of variables and constants; the 24 orders of a triangle with a term to start from; 3 queries of four variables; 7 snapshots with no, one and several solutions, loops and unknown constants; about 60 thousand states |
| `MCPathQuery` | following paths | all graphs of at most 3 edges on 3 entities, each index entry there or not and up to date or an edge behind; 12 paths of up to three segments from both ends, one with a predicate without a hash; about 1.48 million states |
| `MCLRAutomaton` | are the tables those of the grammar | all 151 states, each with its items |
| `MCQueryParser` | parsing | two texts in a row, each of up to 14 words of groups, 7 of a path or 9 of clauses, ended by any error; about 1.37 million states |
| `MCFrontEnd` | queries over databases, branches and caches beside an insert | 2 callers, 3 databases of which one expands prefixes otherwise, 2 branches, rows of two columns that are mostly incomparable, inserts that fail, 2 cache entries of which inserts evict one; about 543 thousand states |
| `MCBosswave` | calls over the bus | 2 calls of one client, 3 databases of which one is not loaded and one not allowed, 2 repeated results; about 36 thousand states |
| `MCLoader` | starting and restarting | 2 buildings, 2 workers, 2 starts, 2 failures, 1 edit of each file; about 540 thousand states |

Why these bounds are enough to be worth something. A wrong rollup needs a chain of two
edges inserted apart, or a cycle, and three inserts give every order of those with a
declaration of inverses before, between and after. A torn insert needs one failure and
its repair another insert; two failures also tear the repair. Deadlock between inserts
needs two of them, a stale fill one query that overlaps one insert, full channels a
capacity of one. The planner looks at the last chosen term and at one other, so three
terms show each choice it can make, and queries of five terms are only needed for the
tree that makes it spin. Running a query, two terms show every join, three a value that
must pass through, and the triangle what a second variable in common does; the snapshots
have values that match on one term only, and constants only some of which exist. A
loader of two workers and two buildings has every pair of racing workers; what a start
leaves for the next takes two starts. A search that drops its list needs a fork with an
index entry on one side and none on the other, or a cycle through one: three entities
and three edges. Three groups with a UNION between two of them, triples before, between
and after, fit into fourteen words. A row lost in the B-tree takes three rows, two of
them less than each other; a hidden error takes two branches. A stale answer takes a
query that fills the cache, an insert and a query after it: in `MCFrontEnd` the insert
is a query too, whose WHERE fills the cache before it evicts, and one of the two entries
is never evicted. What a query that overlaps the insert does to a later one takes three
callers: `MCFrontEndCache.cfg` has them on one database and with a column of two values
(1.5 million states of `MCFrontEnd.tla`), and passes too. Two calls on one object show
an answer that reaches the wrong one.

### Fairness

* `TripleStore!FairSpec`: weak fairness of `Working`, the steps of the one inserting
  goroutine: it is never blocked inside addTriples. Nothing makes anyone insert,
  a commit fail or the process die.
* `SnapshotCache!FairSpec`: weak fairness of the evictor and of each insert; an insert
  waits only inside leveldb's `OpenTransaction` and on the channel. Strong fairness
  is not needed: `InsertsReturn` holds although a lock may be taken by the other
  insert first, since each inserts once.
* `QueryPlan!FairSpec` and `QueryEngine!EngineFairSpec`: weak fairness of planning, and of
  planning and running, both the sequential code of one goroutine.
* `PathQuery!Spec`: weak fairness of the search, sequential code.
* `FrontEnd!Spec`: as long as some call can go on, one does (`Progress`), which is less than
  that every goroutine keeps running: the lock they share is held over assignments only, and an
  insert waits only for another that is in its transaction. Nothing makes anyone call, and the
  evictor needs no fairness: no call waits for it here (that an insert waits for a full
  channel is in `SnapshotCache`).
* `Bosswave!Spec`: weak fairness of the calls, their timers and the receiving goroutines.
  Nothing is assumed of the service and the bus: a call returns by its timer.
* `QueryParser` and `LRAutomaton` state safety only.
* `Loader!FairSpec`: weak fairness of NewHodDB and of each worker. Failures, exits,
  edits and starts are not fair.

## 4. What the documentation says and the code does not do

Three runs end with a counterexample, each to one sentence of the repository;
`PROJECT.json` quotes it.

| Run | What happens |
|---|---|
| `MCPlanningEnds` | a query shaped like a tree makes the planner spin |
| `MCAllTermsHold` | `?x p b . ?x p ?y . ?y q ?z . ?x q ?z` has rows in which the last term overwrote a value that the third had fixed |
| `MCLostError` | an error and the end of the loading are both ready, and the select takes the end |

The modules state eight more of these sentences, which TLC refutes as quickly: put the
name as the one INVARIANT into a copy of the configuration named here, with the
constant replaced where one is given.

| Statement | Configuration | Sentence | What happens |
|---|---|---|---|
| `TripleStore!PlusComplete` | `MCTripleStore` | NOTES.md:67 "`path+` (matches 1 or more `path`)" | `a p b` is inserted and rolled up, then `b p c`: `a`'s entry answers `p+` with `b` alone |
| `SnapshotCache!SnapshotWhole` | `MCSnapshotCache` | NOTES.md:94 "we should not see any intermediate forms of the database" | a query's snapshots lie on both sides of an insert |
| `SnapshotCache!FreshWhenSequential` | `MCSnapshotCache` | NOTES.md:98 "we should see changes reflected in between iterations" | the keys changed by the rollup and the inverse pass are never evicted: a SELECT called after such an insert returned may miss it for good |
| `QueryPlan!NeverPanics` | `MCPlanningEnds` with `Queries <- MCQueries` | db_test.go:340 `INSERT { bldg:abc rdf:type brick:Room2 } WHERE {};` | a query without variables dereferences nil |
| `QueryEngine!TripleAllFirst` | `MCQueryEngine` | operators.go:831 "This should not happen! Tell Gabe" | `?x ?y b . ?x ?z ?w` comes to resolveVarTripleAll with rows, and panics |
| `PathQuery!SequencesFollowed` | `MCPathQuery` with `Queries <- LongQueries` | NOTES.md:65 "`path1/path2` (matches `path1` followed by `path2`)" | reversePath blanks the middle of an odd path, and from the object nothing is found; with neither end known only the first segment counts |
| `QueryParser!TriplesAreAnded` | `MCQueryParser` with `Kinds <- UnionKinds` | NOTES.md:73 "implicitly, all triples in a query are `AND`" | two UNIONs side by side become one with all their alternatives |
| `FrontEnd!VariablesReplaced` | `MCFrontEnd` with `Queries <- VariableQueries` | insert.go:19 "replace all variables with content from query" | the rows of an INSERT are counted and thrown away, so one whose WHERE finds rows inserts nothing, and one that finds none inserts its variables |

Some properties carry a reservation, which stands for code that does less than
one would hope: `BatchDurable` says nothing of the pk store (`addURI` takes a URI
the entity store knows for done, and a crash between the commits of entity and pk
makes it so) nor of the out edge of a triple whose subject is its object (the
object's copy of the entity is stored over it); `InverseClosed` excepts predicates
declared inverse to two others, and its proof batches that declare an inverse of
`owl:inverseOf`; `SavedAlwaysLoaded` assumes that no two buildings
share a file (the second one would find the hash of the first and open an empty
database). And `hod.buildings` may lose a name to an unlocked append.

The models also show, without a property of their own: a query that overlaps an
insert may put an old value back into the cache after the eviction, where it stays
even if every key an insert writes is evicted, so that a SELECT called after the insert
returned misses it (`SeesEarlierInserts` excepts such inserts, and facts read from entries that
are not evicted: without either exception `MCFrontEndCache.cfg` ends with a counterexample); an exit between `os.Create` and
`Encode` leaves a `fileHashes` which no later start can decode; `s ?p o` matches edges from
`o` to `s` as well, as both edge lists of `s` are searched; and a query without a term
to start from (`?a p ?b . ?b q ?c`) has no answer, as resolveSubjectObjectFromPred
defines no values for the next operation. The properties of answers are therefore
stated for `Rooted` queries, those with a first term of one variable, constant
predicates, and perhaps a last term that explores from a known subject. Most queries of
db_test.go are of this kind; those at its lines 44, 48 and 55, `UIQuerySlow1` and `UIQuerySlow2` are not.

Of the query language, the front end and BOSSWAVE they show: `path1|path2` keeps its first alternative (production 39), a
path in parentheses panics (48), a second group inside a group is dropped (63), and a
full stop after the triples of a group that another group follows is a syntax error; two
goroutines that parse at once mix their texts and panic, as there is one stack and no
lock; the prefixes of a query are expanded with the namespaces of whichever
database comes first; COUNT counts a row of two databases once, SELECT returns it
twice; a branch of a UNION without a selected variable shows another variable's
value, and `SELECT *` over a UNION may permute columns; a failed insert stays in the
databases before it; a response that comes before markWaitFor is dropped, a timeout
leaves its entry in `waiting` for good, and an error response of the service is an empty
answer to the client, which does not decode it. `QueryMeansText`, `AnswersWhatWasFound` and
`PathsComplete` are stated of the texts, queries and paths that are free of these.

## 5. Proofs

All of these hold for every value of the constants that satisfies the named
assumptions of the modules; no bound is used except to type the counters.

`ReachEdge`, `ReachTransitive` and `ReachMonotone`, at the head of `TripleStoreProofs` and of
`PathQueryProofs`, are the lemmas about `ReachPlus`. `Ends(edges)` being the carrier, each
follows from instantiating the closed sets.

`TripleStoreProofs`:

* `TypeInvariant`, `TypeCorrect`: `Spec => []TypeOK`, one case per action.
* `CommittedStays`: `Spec => NothingLost`. The invariant `GrowInv` adds to the types
  that `mem` holds at least what `disk` holds: every step before the commit only
  adds to `mem`, a store's commit replaces it by the larger one, and what is dropped
  was never on disk.
* `IndexAlwaysSound`: `Spec => []IndexSound`, which is not inductive by itself.
  `IndexInv` adds that the index of `mem` is sound for the graph of `mem`; that while
  the search runs every key of `stack` is `base` or linked to it by a path, and every
  key of `results` is linked to it (`SearchSound`); and that from the third commit on
  the graph on disk is that of `mem`, so that the index, committed fourth, arrives
  where its paths already are. `ReachTransitive` justifies taking over another key's
  index entry, and `ReachMonotone` that edges are added later.
* `PredicatesInGraph`: `Spec => []PredInGraph`. `PredInv` adds to `IndexInv` that what
  the predicate store lists is in the graph, for `mem` as for `disk`.
* `InsertsAreDurable`: `Spec => []BatchDurable`. `DurableInv` says of every triple of the
  batch that `mem` holds it in all four stores or that it is still in `todo` (`BatchMet`),
  and of every store already committed that it is that of `mem` (`CommitMet`). That
  `addTriple` leaves its triple held whatever the stores knew before (`AddTripleHolds`) is
  what repairs a torn insert.
* `AlwaysInverseClosed`: `PlainDeclarations` implies `Spec => []InverseClosed`. `MirrorInv`
  follows the second pass: the inverse map has declared pairs only, and after the pull an
  entry for every predicate declared to have an inverse (`PairsOK`); a predicate the range
  loop is through with is reflected, triple by triple (`Settled`). What processing `p`
  adds to its inverse `q` after `q`'s turn is reflected already, since `q`'s one inverse
  is `p`. The hypothesis, that no batch declares an inverse of `owl:inverseOf` itself, is
  needed: of `q inverseOf inverseOf . a q p . c a c` the pass derives `p inverseOf a` when it
  no longer looks for declarations, and TLC finds `InverseClosed` violated.
* `AlwaysAtomic`: `PlainDeclarations` and `OneInverse` imply `Spec => InsertsAreAtomic`, that
  is `TripleSet`'s initial states and steps. `AtomicInv` adds that `mem.pred` lies between
  `Target` (the facts on disk and the batch) and `Mirrored(Target)`, with equality when the
  commits begin; the fifth commit is `Insert`, every other step a stutter. `OneInverse`,
  that no predicate is declared inverse to two others, is what a Go map from a predicate
  to its inverse can represent.

`LoaderProofs`:

* `AlwaysClosedWhenQuiet`: the wait group counts the buildings not yet sent and the
  workers not idle; when it is zero and the queue is empty the main goroutine goes
  on, and no worker can start again. By cardinality of finite sets.
* `SavedAlwaysLoaded`: assuming `OwnFile`, that no two buildings share a file,
  `SavedMeansLoaded`. The invariant
  `LoadInv` says of each building that a hash recorded in memory either stands for
  a committed load or belongs to a worker still on its way to load it, or the error
  of that worker is in `errchan` or has failed the start; hence `~lost`.
* `ErrorsAlwaysFit`: `Spec => []ErrorsFit`. `ErrorInv` counts: the errors in `errchan`, the
  buildings in the queue and the workers that may still fail are together no more than the
  buildings, since a worker sends one error at most and then is done.
* `AlwaysLoads`: assuming `OwnFile`, `LoadsUnlessLost`. `FreshInv` adds to `LoadInv` and
  `ErrorInv` that a building is in one hand at a time, that the hash a worker compares is
  not older than the start, and that while loading every building is in the queue, at a
  worker or in its database as asked, or else an error is on its way to the select.

`SnapshotCacheProofs`:

* `TypeCorrect`, with what each place of an insert and a query says of its variables.
* `CacheAlwaysCommitted` and `SnapshotsOrdered` from `CommitInv`: stores are committed in
  order and the predicates last, a snapshot is part of its store, the predicate
  snapshot, taken third, is part of the two taken after it, and what a query is about to put
  into the cache is committed, however long ago it read it, as nothing is taken back.
* `EvictionAlwaysWorks` from `EvictInv`. An insert no query has overlapped runs alone
  (`LonelyAlone`); while it adds and commits, its keys are out of the caches or queued
  (`AddsEvicted`); once it is done every snapshot and every fill has it, and a cached entry
  without it is still queued (`DoneVisible`).

`PathQueryProofs`: `PathsAlwaysSound` from `SoundInv`: the lists hold keys from which the
segment may be followed, `reachable` keys it leads to; an old index entry is sound for
the present edges by `ReachMonotone`. `PathsAlwaysComplete` from `CompleteInv`: where the
segment starts from is listed or traversed, a traversed key's edges have been taken, and
what `p*` and `p+` have reached is listed, traversed or `Covered` by an index entry, which is
why dropping the list at an entry loses nothing. At the end of a segment `reachable` is
closed, so it contains the least closed set `ReachPlus`.

`QueryEngineProofs`, of `EngineSpec`, for queries of any length and any snapshot:

* `AlwaysKeepsTerms`, `AlwaysStartsResolved` from `PlanInv`: terms are counted
  (`KeepsTerms`), and a variable marked in `qp.vars` is one of a term already given an operation
  (`Marked`). For `Rooted` queries the marks are not behind either (`MarkedRooted`), which
  leaves few operations to choose from (`ChosenRooted`).
* `AlwaysRowsAligned`, `AlwaysDefinitionsCoverRows`, `AlwaysNothingMissed`, `AlwaysTreesAnswered` from
  `EngineInv`, one lemma per operation: rows bind the variables of the terms done
  (`RowsBound`) to values of `definitions` (`RowsDefined`), every solution has a row that
  agrees with it (`RowsComplete`), and if each term shares one variable with the terms before
  it (`Treelike`) the rows satisfy the terms done (`RowsSound`): a join then overwrites nothing.
* `RowsAlwaysContinue` and `AlwaysNothingPanics` from the same invariant. Each operation but the
  first meets rows which have a value for a variable of its term, as the planner chose the
  term for one it shares with the one before (`Connected`, part of `PlanInv`), so it joins on it
  and every row it leaves `Continues` one of them; one it would start from is in
  `definitions`, as `RowsDefined` says of every variable the rows have, and a row that reaches
  getResults has all the variables of the query (`AllVariables`), hence its full length.

`QueryParserProofs`, for every set of kinds of text, texts of any length, any number of them.
The theorems assume `OneCaller`: that one goroutine at a time parses, which the code needs and
does not ensure (section 4); for two at once the properties fail.

* `StackAlwaysParsesText`: `Spec => []StackParsesText`, from `TextInv`: each entry of the stack is
  linked to the one below by an edge of the tables, and the entries cover the tokens
  scanned, in order. From an edge into the state on top, `TablesAssumption` gives back, symbol by
  symbol, what lies below; so a reduction finds its production's symbols and a goto.
* `PanicOnlyInParentheses` and `QueriesMeanTheirText`: `Spec => []PanicsOnlyOnParentheses` and
  `Spec => []QueryMeansText`, from `ValueInv`: every entry is `Good`, that is, its value has a
  type that the actions expect of its symbol, unless a path stood in parentheses, and as long as
  none of the `Lossy` productions was used it means what its tokens mean (`Means`). One lemma for
  each kind of row shows that its constructor makes a good entry of good ones, and
  `AllRowsFine` goes through the 63 rows. `Means` of a union says that the lists of terms it
  expands to are the alternatives of its meaning, each holding its triples.

The constructors flatten lists of lists; `FlattenSeq` is a recursive function, about which the
module proves what it needs by induction over a set of naturals (`SetInduction`, from the
library's `WFMin`), since the library's induction theorems cannot be instantiated.

`FrontEndProofs`, for any number of callers, databases and branches:

* `FailuresAlwaysNamed` and `AlwaysSeesEarlierInserts` from `CallInv`: a failure is in the result or
  still with its branch (`FailuresOK`); of each database and branch a call is through with it
  has found all that was settled when it was called, or the database failed (`SeenOK`); and a
  branch on its way has been shown, or has yet to look up, every entry of those facts
  (`ContextOK`). That it is then shown the fact is `CacheOK`: a settled fact is `Kept`, that is, in
  the database, in every open snapshot of it and in every cached entry it is read from, so that
  neither a lookup, nor a late fill from such a snapshot, nor an eviction can lose it. A fact
  becomes `Kept` by way of `Dropped`: from the moment its insert queues the evictions until the
  last of them is done, no query context is open on the database (or the fact is given up,
  `Snapshot`), and every cached entry of the fact is still queued; when the queue has none left,
  the entries are gone and the snapshots to come have the fact. `SureOK` carries this for
  every fact in `sure`, one insert at a time. Nothing uncommitted is found since entries and
  snapshots are parts of what is committed, which only grows.
* `AlwaysAnswersWhatWasFound` and `AlwaysCountsRows` from `RowsInv`: rows with the branches, rows in
  the tree and rows in the result are together the images of what was found (`RowsOK`), and
  as many rows as there are stand for as many finds (`CountsOK`). Inserting into the tree
  at whichever place keeps every other row or puts an equal one in its place.

`BosswaveProofs`: `ResultsHonest`, and from it `CallsAreSafe`: `Spec` implies `RemoteQuery`'s
initial predicate and `[][Next]`, under the refinement mapping of `CallsAreRemoteQueries`.
Publishing is the abstract ask, the reply taken from a channel the answer, a timeout
or failure giving up, everything of the bus and the service a stutter.

Every inductive invariant here was an invariant of a TLC run before it was proved.

Only model-checked. Liveness (`InsertReturns`, `InsertsReturn`, `StarsPlanned`, `StartsEnd`,
`SearchEnds`, `CallsReturn`, `ResultsTaken`, the fairness in `CallsAreRemoteQueries`): out of the
prover's reach. The tables (`RowsFollowGrammar`, `OnlyTheDotIsAmbiguous`): a computation on one
grammar, which TLC does in full; so is `TablesAssumption`.

## 6. Not modelled

* `addURI`'s salted rehash and `hashURI`: a URI and its hash are one key everywhere. The
  rehash is a loop over leveldb reads in one transaction. hashURI writes a 32-bit murmur3 into
  the eight bytes of a key, so that two URIs of a large building may well have the same; then
  addURI salts until it finds a key that pk does not have, and keys and URIs stay one-to-one,
  which is all the models use. The exception is a torn insert that left a URI in the entity store
  without its entry in pk (section 4): a later URI with that hash would get the same key.
* The scanner (`lang/lexer`), a pure function from characters to tokens, and the msgp
  encoders (`*_gen.go`): no state, and the data is abstract in the models. raptor, bleve and
  leveldb's inside: leveldb is modelled by what the code relies on (one open transaction
  a store, atomic durable commits, snapshots).
* HTTP handlers, command line, GraphViz and CSV output, static assets, configuration: no
  state and no concurrency beyond `RunQuery`'s.
* The Turtle reader: one lock around raptor. turtle.Parse ignores raptor's return code
  (raptor.go:44, 70, 98): a missing or ill-formed file is loaded as far as it goes, which may be
  nothing, and its hash is recorded. `Loader!Fail` at "load" is therefore newDB, the transaction or a
  commit, never the parser, and what "loaded" means is what raptor read.
* allowVK's search for a chain of permissions, which follows grants recursively without
  remembering those it has seen.
* Failures to take a snapshot or to open a transaction, which take a closed database.
* The 32-bit hash by which getResults tells rows apart, and its collisions.
* `predIndex` and `relationships`: saved and read, but nothing fills them; `QueryEngine`
  has the one operation that looks into `predIndex`.
* Ontologies, which `newDB` inserts before a building's file in transactions of their
  own, are further batches to `TripleStore` and part of `Load` to `Loader`.

## 7. Plan

Done: the write path and its abstract specification, snapshots and cache, the
planner, query execution, property paths, the query language with its tables, the front
end, BOSSWAVE with its abstract specification, the loader; and every safety property of a
passing run proved for all instances, but for the two about the generated tables, which
have one instance. Next:

1. The queries outside `Rooted`: which part of `RowsAligned` survives.
2. Two inverses of one predicate: the closure that `addTriples` does compute.

Run `tlc -config <run>.cfg <module>` for a run and `tlapm <module>.tla` for proofs.
