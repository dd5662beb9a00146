------------------------------ MODULE FrontEnd ------------------------------
(***************************************************************************)
(* Calls of HodDB.RunQuery (db/hoddb.go) by concurrent goroutines, each    *)
(* over several databases: DB.runQuery (db/db_api.go) expands the prefixes *)
(* of the query, runs every branch of its UNIONs in a goroutine with a     *)
(* snapshot of its own and appends their rows under a lock; RunQuery then  *)
(* merges the rows in a B-tree, lays them out as maps and, for an INSERT,  *)
(* calls handleInsert (db/insert.go) before it goes to the next database.  *)
(*                                                                         *)
(* What a branch finds is abstract: a database holds facts <<pattern,      *)
(* args>>, and branch b looks for the args of the facts with pattern b.    *)
(* It reads through the cache of the database (db/traversal.go): an entry  *)
(* that some branch put there stays until the evictor takes it away, and a *)
(* fact is found if every entry it is read from has it, be the entry from  *)
(* the branch's own snapshot or older.                                     *)
(* Planning and executing a branch are QueryPlan and QueryEngine, the      *)
(* steps of a commit TripleStore, those of a snapshot SnapshotCache, which *)
(* also has the room in pendingEvict.                                      *)
(* A URI is a pair <<namespace, value>> of numbers for its two strings;    *)
(* a variable is a URI without namespace whose value starts with "?".      *)
(* Queries QueryPlan shows to panic or to hang are left out, and so are    *)
(* errors of newQueryContext, which take a closed database.                *)
(***************************************************************************)
EXTENDS Naturals, Sequences, FiniteSets, SequencesExt, FiniteSetsExt

CONSTANTS
    Caller,     \* goroutines that call RunQuery
    DB,         \* the databases that are loaded
    Full,       \* Full[d] is what database d expands the queries' prefix to
    Branch,     \* UNION branches; a query without UNION has one
    VarsOf,     \* VarsOf[b]: the variables of branch b
    URI,        \* the URIs that facts and queries mention
    Variable,   \* those that are variables
    Leftover,   \* what a ResultRow of the pool still holds from its last use
    Contents,   \* functions from DB to sets of facts the databases may hold
    Queries,    \* Queries[c]: what caller c may ask, see QueryType
    Unseen,     \* pairs <<d, b>>: branch b names a URI that d has only in facts of b
    Key,        \* what the cache has entries for: nodes, index records, predicates
    Reads,      \* Reads[b]: the entries branch b looks up
    Under,      \* Under[f]: those it reads fact f from
    Own,        \* Own[f]: those of the subject, predicate and object of f's triple
    FailingDBs  \* the databases on which an insert may fail

Fact == UNION {{<<b, args>> : args \in [VarsOf[b] -> URI]} : b \in Branch}

\* all: SELECT *, where vars is some order of the variables and each branch
\* has an order of its own.  union: the query has a GraphGroup.
QueryType == [insert : BOOLEAN, count : BOOLEAN, all : BOOLEAN, union : BOOLEAN,
              dbs : SUBSET DB, branches : SUBSET Branch \ {{}},
              vars : Seq(Variable), terms : SUBSET Fact]

ASSUME FrontEndSets == IsFiniteSet(DB) /\ IsFiniteSet(Branch)
ASSUME URIAssumption == URI \subseteq Nat \X Nat /\ Variable \subseteq URI
ASSUME FullAssumption == Full \in [DB -> Nat \ {0}]
ASSUME VarsAssumption == VarsOf \in [Branch -> SUBSET Variable]
ASSUME ContentsAssumption ==
    \A f \in Contents : f \in [DB -> SUBSET Fact] /\ \A d \in DB : IsFiniteSet(f[d])
\* A fact may be read from entries that are not its own: that of an edge the inverse pass
\* or the rollup derived from it, or of a path through it.
ASSUME KeysAssumption ==
    /\ Reads \in [Branch -> SUBSET Key]
    /\ \A f \in Fact : Under[f] # {} /\ Under[f] \subseteq Reads[f[1]] /\ Own[f] \subseteq Key
ASSUME FrontEndQueries ==
    \A c \in Caller : \A q \in Queries[c] : q \in QueryType /\ IsFiniteSet(q.terms)

Unexpanded == 0
NoQuery == [insert |-> FALSE, count |-> FALSE, all |-> FALSE, union |-> FALSE,
            dbs |-> {}, branches |-> {}, vars |-> << >>, terms |-> {}]

VARIABLES
    facts,      \* what each database has committed
    cache,      \* db.cache of each database: the facts in the entries it has
    pendingEvict,   \* the entries on their way to the evictor of each, as pairs
                    \* <<caller that inserts, key>>
    pc, query, left, db,    \* of each caller: where it is in RunQuery
    prefix,     \* the namespace in the query's terms
    todo,       \* branches whose goroutine has not taken its snapshot
    open,       \* branches that have a query context
    snap,       \* the snapshot of each of them
    unread,     \* pairs <<branch, key>>: the entries it has not looked up yet
    shown,      \* <<branch, key, fact>>: what the entries it has looked up had
    fill,       \* pairs <<branch, key>>: read from the snapshot, not in the cache yet
    read,       \* branches that hold rows and wait for rowLock
    rows,       \* runQuery's result, as pairs <<branch, row>>
    queryErr,   \* runQuery's error
    tree,       \* unionedRows, in the order of the B-tree
    result,     \* [rows, count, errors] of the QueryResult
    err,        \* RunQuery returned an error
    found,      \* every <<database, branch, args>> a branch has read
    failed,     \* every database a branch failed on
    old,        \* the facts of each database that were settled when RunQuery was called
    loaded,     \* what the databases held at the start
    sure        \* pairs <<database, fact>> the call has inserted, see Settled

cacheVars == <<cache, pendingEvict, open, snap, unread, shown, fill, loaded, sure>>
callVars == <<pc, query, left, db, prefix, todo, read, rows, queryErr, tree,
              result, err, found, failed, old>>
vars == <<facts, cacheVars, callVars>>

EmptyResult == [rows |-> << >>, count |-> 0, errors |-> {}]

Init ==
    /\ facts \in Contents
    /\ loaded = facts
    /\ cache = [d \in DB |-> << >>]
    /\ pendingEvict = [d \in DB |-> {}]
    /\ open = [c \in Caller |-> {}]
    /\ snap = [c \in Caller |-> [b \in Branch |-> {}]]
    /\ unread = [c \in Caller |-> {}]
    /\ shown = [c \in Caller |-> {}]
    /\ fill = [c \in Caller |-> {}]
    /\ sure = [c \in Caller |-> {}]
    /\ pc = [c \in Caller |-> "idle"]
    /\ query = [c \in Caller |-> NoQuery]
    /\ left = [c \in Caller |-> {}]
    /\ db = [c \in Caller |-> CHOOSE d \in DB : TRUE]
    /\ prefix = [c \in Caller |-> Unexpanded]
    /\ todo = [c \in Caller |-> {}]
    /\ read = [c \in Caller |-> {}]
    /\ rows = [c \in Caller |-> {}]
    /\ queryErr = [c \in Caller |-> FALSE]
    /\ tree = [c \in Caller |-> << >>]
    /\ result = [c \in Caller |-> EmptyResult]
    /\ err = [c \in Caller |-> FALSE]
    /\ found = [c \in Caller |-> {}]
    /\ failed = [c \in Caller |-> {}]
    /\ old = [c \in Caller |-> facts]

-----------------------------------------------------------------------------
(* What a call may count on.  An insert evicts its entries before it       *)
(* commits, and a branch that reads its snapshot meanwhile may put an old  *)
(* value back afterwards.                                                  *)

\* The insert of c in d is under way, or entries are still to be evicted for it.
Evicting(c, d) ==
    \/ pc[c] = "commit" /\ db[c] = d
    \/ \E x \in pendingEvict[d] : x[1] = c

NoContext(d) == \A u \in Caller : db[u] = d => open[u] = {}

\* The facts that were there from the start, and those of inserts that no query
\* overlapped and that evicted every entry the fact is read from.
Settled(d) ==
    loaded[d] \cup {x[2] : x \in {y \in UNION {sure[c] : c \in {u \in Caller : ~Evicting(u, d)}} :
                                    y[1] = d}}

-----------------------------------------------------------------------------
(* A call.                                                                 *)

\* RunQuery up to its loop over the databases of the FROM clause.
RunQuery(c) ==
    /\ pc[c] = "idle"
    /\ \E q \in Queries[c] :
        /\ query' = [query EXCEPT ![c] = q]
        /\ left' = [left EXCEPT ![c] = q.dbs]
    /\ old' = [old EXCEPT ![c] = [d \in DB |-> Settled(d)]]
    /\ pc' = [pc EXCEPT ![c] = "databases"]
    /\ UNCHANGED <<facts, cacheVars, db, prefix, todo, read, rows, queryErr, tree, result,
                   err, found, failed>>

\* runQuery on the next database, in the order of a Go map.  IterTriples writes
\* the expanded terms back into the query that the next database gets.
Expanded(p, d) == IF p = Unexpanded THEN Full[d] ELSE p

runQuery(c) ==
    /\ pc[c] = "databases"
    /\ \E d \in left[c] :
        /\ left' = [left EXCEPT ![c] = @ \ {d}]
        /\ db' = [db EXCEPT ![c] = d]
        /\ prefix' = [prefix EXCEPT ![c] = Expanded(@, d)]
    /\ todo' = [todo EXCEPT ![c] = query[c].branches]
    /\ queryErr' = [queryErr EXCEPT ![c] = FALSE]
    /\ rows' = [rows EXCEPT ![c] = {}]
    /\ pc' = [pc EXCEPT ![c] = "branches"]
    /\ UNCHANGED <<facts, cacheVars, query, read, tree, result, err, found, failed, old>>

\* The orders a branch may lay its columns out in: those of the SELECT, or for
\* SELECT * in a UNION the order in which PopulateVars met a Go map again.
ColumnsOf(q, b) ==
    IF q.all /\ q.union THEN SetToSeqs(VarsOf[b]) ELSE {q.vars}

\* A ResultRow: the columns that were filled, and how many; the others of the
\* sixteen are what the pool's row held before.  A branch without a value for a
\* selected variable reads another one's (position 0 of the relation): getResults.
Misread(args) == args[CHOOSE v \in DOMAIN args : TRUE]
RowOf(q, cols, args) ==
    [vals |-> [i \in 1..Max({Len(cols), Len(q.vars)}) |->
                 CASE i > Len(cols) -> Leftover
                   [] cols[i] \in DOMAIN args -> args[cols[i]]
                   [] OTHER -> Misread(args)],
     count |-> Len(cols)]

ArgsOf(d, b, F) == {f[2] : f \in {f \in F[d] : f[1] = b}}

\* The goroutine of a branch takes a snapshot (newQueryContext).
Snapshot(c, b) ==
    /\ b \in todo[c]
    /\ todo' = [todo EXCEPT ![c] = @ \ {b}]
    /\ open' = [open EXCEPT ![c] = @ \cup {b}]
    /\ snap' = [snap EXCEPT ![c][b] = facts[db[c]]]
    /\ unread' = [unread EXCEPT ![c] = @ \cup {<<b, k>> : k \in Reads[b]}]
    /\ sure' = [u \in Caller |->
                   IF Evicting(u, db[c]) THEN {x \in sure[u] : x[1] # db[c]} ELSE sure[u]]
    /\ UNCHANGED <<facts, cache, pendingEvict, shown, fill, loaded, pc, query, left, db, prefix,
                   read, rows, queryErr, tree, result, err, found, failed, old>>

\* The entry of key k in a database that holds F.
EntryOf(F, k) == {f \in F : k \in Under[f]}

\* What traversal.getEntityByHash and the like return.
ValueOf(c, b, k) ==
    IF k \in DOMAIN cache[db[c]] THEN cache[db[c]][k] ELSE EntryOf(snap[c][b], k)

\* It looks up an entry; what the cache does not have is read from the snapshot (where there
\* may be none) ...
Lookup(c, b, k) ==
    /\ <<b, k>> \in unread[c]
    /\ \A j \in Key : <<b, j>> \notin fill[c]
    /\ unread' = [unread EXCEPT ![c] = @ \ {<<b, k>>}]
    /\ shown' = [shown EXCEPT ![c] = @ \cup {<<b, k, f>> : f \in ValueOf(c, b, k)}]
    /\ \/ /\ k \in DOMAIN cache[db[c]] \/ EntryOf(snap[c][b], k) = {}
          /\ UNCHANGED fill
       \/ /\ k \notin DOMAIN cache[db[c]]
          /\ fill' = [fill EXCEPT ![c] = @ \cup {<<b, k>>}]
    /\ UNCHANGED <<facts, cache, pendingEvict, open, snap, loaded, sure, callVars>>

\* ... and then put into the cache, whatever happened since.
WithEntry(m, k, v) == [x \in DOMAIN m \cup {k} |-> IF x = k THEN v ELSE m[x]]

Fill(c, b, k) ==
    /\ <<b, k>> \in fill[c]
    /\ fill' = [fill EXCEPT ![c] = @ \ {<<b, k>>}]
    /\ cache' = [cache EXCEPT ![db[c]] = WithEntry(@, k, EntryOf(snap[c][b], k))]
    /\ UNCHANGED <<facts, pendingEvict, open, snap, unread, shown, loaded, sure, callVars>>

\* All the URIs of a branch have a hash: in the snapshot, or in entityHashCache, which is
\* never evicted and may have it from a later one.
Known(c, b) ==
    /\ prefix[c] = Full[db[c]]
    /\ <<db[c], b>> \in Unseen => ArgsOf(db[c], b, facts) # {}

Unknown(c, b) ==
    \/ prefix[c] # Full[db[c]]
    \/ <<db[c], b>> \in Unseen /\ \A f \in snap[c][b] : f[1] # b

\* A fact is found if every entry it is read from has it.
ArgsShown(c, b) ==
    {x[3][2] : x \in {y \in shown[c] :
        /\ y[1] = b /\ y[3][1] = b
        /\ \A k \in Under[y[3]] : <<b, k, y[3]>> \in shown[c]}}

\* The end of getQueryResults: it has read all it needs, or fails, before or after the first
\* entries, when one of its URIs is not in the database.  The context is closed.
GetResults(c, b) ==
    /\ b \in open[c]
    /\ \A k \in Key : <<b, k>> \notin fill[c]
    /\ open' = [open EXCEPT ![c] = @ \ {b}]
    /\ snap' = [snap EXCEPT ![c][b] = {}]
    /\ unread' = [unread EXCEPT ![c] = {x \in @ : x[1] # b}]
    /\ shown' = [shown EXCEPT ![c] = {x \in @ : x[1] # b}]
    /\ LET d == db[c]
           A == ArgsShown(c, b)
       IN  \/ /\ Known(c, b)
              /\ \A k \in Key : <<b, k>> \notin unread[c]
              /\ \E cols \in ColumnsOf(query[c], b) :
                   read' = [read EXCEPT ![c] = @ \cup
                     {[branch |-> b, ok |-> TRUE,
                       rows |-> {RowOf(query[c], cols, a) : a \in A}]}]
              /\ found' = [found EXCEPT ![c] = @ \cup {<<d, b, a>> : a \in A}]
              /\ UNCHANGED failed
           \/ /\ Unknown(c, b)
              /\ read' = [read EXCEPT ![c] = @ \cup
                   {[branch |-> b, ok |-> FALSE, rows |-> {}]}]
              /\ failed' = [failed EXCEPT ![c] = @ \cup {d}]
              /\ UNCHANGED found
    /\ UNCHANGED <<facts, cache, pendingEvict, fill, loaded, sure, pc, query, left, db, prefix,
                   todo, rows, queryErr, tree, result, err, old>>

\* Slips: what a plausible bug would make of the definition after it.  No
\* specification uses them; they show that the properties can fail.
SlipAppend(c, b) ==
    /\ \E r \in read[c] :
        /\ r.branch = b
        /\ read' = [read EXCEPT ![c] = @ \ {r}]
        /\ rows' = [rows EXCEPT ![c] = @ \cup {<<b, x>> : x \in r.rows}]
        /\ queryErr' = [queryErr EXCEPT ![c] = ~r.ok]
    /\ UNCHANGED <<facts, cacheVars, pc, query, left, db, prefix, todo, tree, result, err,
                   found, failed, old>>

SlipNoDone(c, b) ==
    /\ \E r \in read[c] :
        /\ r.branch = b /\ r.ok
        /\ read' = [read EXCEPT ![c] = @ \ {r}]
        /\ rows' = [rows EXCEPT ![c] = @ \cup {<<b, x>> : x \in r.rows}]
    /\ UNCHANGED <<facts, cacheVars, pc, query, left, db, prefix, todo, queryErr, tree, result,
                   err, found, failed, old>>

\* It takes rowLock and appends its rows, or leaves its error.
Append1(c, b) ==
    /\ \E r \in read[c] :
        /\ r.branch = b
        /\ read' = [read EXCEPT ![c] = @ \ {r}]
        /\ rows' = [rows EXCEPT ![c] = @ \cup {<<b, x>> : x \in r.rows}]
        /\ queryErr' = [queryErr EXCEPT ![c] = @ \/ ~r.ok]
    /\ UNCHANGED <<facts, cacheVars, pc, query, left, db, prefix, todo, tree, result, err,
                   found, failed, old>>

\* wg.Wait, and RunQuery notes the error.  The rows are used all the same.
Wait(c) ==
    /\ pc[c] = "branches"
    /\ todo[c] = {} /\ open[c] = {} /\ read[c] = {}
    /\ result' = [result EXCEPT ![c].errors =
                    @ \cup (IF queryErr[c] THEN {db[c]} ELSE {})]
    /\ pc' = [pc EXCEPT ![c] = "merge"]
    /\ UNCHANGED <<facts, cacheVars, query, left, db, prefix, todo, read, rows, queryErr,
                   tree, err, found, failed, old>>

\* ResultRow.Less: some column of the row has a smaller value or a smaller
\* namespace.  Two rows may each be less than the other.
Less(r, s) ==
    \E i \in 1..r.count :
        \/ r.vals[i][2] < s.vals[i][2]
        \/ r.vals[i][1] < s.vals[i][1]

\* ReplaceOrInsert of the B-tree: a binary search for the first item the row is
\* less than.  As Less is no order there may be several places where an item it
\* is not less than is followed by one it is less than; the search ends at one
\* of them, and replaces the item before it if that is not less than the row.
Places(t, r) ==
    {i \in 0..Len(t) : /\ i > 0 => ~Less(r, t[i])
                       /\ i < Len(t) => Less(r, t[i + 1])}

SlipReplaceOrInsert(t, r, i) ==
    IF i > 0 THEN [t EXCEPT ![i] = r] ELSE InsertAt(t, i + 1, r)

ReplaceOrInsert(t, r, i) ==
    IF i > 0 /\ ~Less(t[i], r) THEN [t EXCEPT ![i] = r] ELSE InsertAt(t, i + 1, r)

Merge(c) ==
    /\ pc[c] = "merge"
    /\ \E x \in rows[c] :
        /\ \E i \in Places(tree[c], x[2]) :
             tree' = [tree EXCEPT ![c] = ReplaceOrInsert(@, x[2], i)]
        /\ rows' = [rows EXCEPT ![c] = @ \ {x}]
    /\ UNCHANGED <<facts, cacheVars, pc, query, left, db, prefix, todo, read, queryErr,
                   result, err, found, failed, old>>

\* A row as the map of the QueryResult: column by column of the outer query.
MapOf(q, r) ==
    [v \in Range(q.vars) |->
        r.vals[CHOOSE i \in 1..Len(q.vars) : q.vars[i] = v]]

\* The tree is drained into the result, or only counted; the rows of an INSERT
\* are counted and thrown away.
Drain(c) ==
    /\ pc[c] = "merge"
    /\ rows[c] = {}
    /\ LET q == query[c]
           t == tree[c]
           drained == [i \in 1..Len(t) |-> MapOf(q, t[Len(t) + 1 - i])]
       IN  IF q.count
           THEN /\ result' = [result EXCEPT ![c].count = Len(t)]
                /\ UNCHANGED tree
           ELSE /\ result' = [result EXCEPT
                     ![c].rows = IF q.insert THEN @ ELSE @ \o drained,
                     ![c].count = @ + Len(t)]
                /\ tree' = [tree EXCEPT ![c] = << >>]
    /\ pc' = [pc EXCEPT ![c] = IF query[c].insert THEN "insert" ELSE "databases"]
    /\ UNCHANGED <<facts, cacheVars, query, left, db, prefix, todo, read, rows, queryErr,
                   err, found, failed, old>>

\* handleInsert: the terms as they stand when no row was found, else one copy
\* for each row of the result with its variables replaced.
Replaced(term, row) ==
    <<term[1], [v \in DOMAIN term[2] |->
        LET u == term[2][v] IN IF u \in DOMAIN row THEN row[u] ELSE u]>>
Additions(q, r) ==
    IF r.count = 0 THEN q.terms
    ELSE {Replaced(t, row) : t \in q.terms, row \in Range(r.rows)}

\* The entries addTriple evicts, a triple's as soon as it has added it.
Added(c) == Additions(query[c], result[c])
SlipEvictions(c) == {}
Evictions(c) == {<<c, k>> : k \in UNION {Own[f] : f \in Added(c)}}

\* The facts all of whose entries are among them.
Covered(c) == {f \in Added(c) : Under[f] \subseteq UNION {Own[g] : g \in Added(c)}}

\* handleInsert opens its transaction, which waits for those of others on the database, and
\* adds its triples.
HandleInsert(c) ==
    /\ pc[c] = "insert"
    /\ \A u \in Caller : ~(pc[u] = "commit" /\ db[u] = db[c])
    /\ pendingEvict' = [pendingEvict EXCEPT ![db[c]] = @ \cup Evictions(c)]
    /\ sure' = [sure EXCEPT ![c] =
                   IF NoContext(db[c]) THEN @ \cup {<<db[c], f>> : f \in Covered(c)} ELSE @]
    /\ pc' = [pc EXCEPT ![c] = "commit"]
    /\ UNCHANGED <<facts, cache, open, snap, unread, shown, fill, loaded, query, left, db, prefix,
                   todo, read, rows, queryErr, tree, result, err, found, failed, old>>

Commit(c) ==
    /\ pc[c] = "commit"
    /\ facts' = [facts EXCEPT ![db[c]] = @ \cup Added(c)]
    /\ pc' = [pc EXCEPT ![c] = "databases"]
    /\ UNCHANGED <<cacheVars, query, left, db, prefix, todo, read, rows, queryErr, tree,
                   result, err, found, failed, old>>

\* The transaction fails, or the text index or saveIndexes after the commit: RunQuery
\* returns at once, and what it did to the databases before stays.
InsertFails(c) ==
    /\ db[c] \in FailingDBs
    /\ \/ /\ pc[c] = "insert"
          /\ UNCHANGED <<facts, sure>>
       \/ /\ pc[c] = "commit"
          /\ sure' = [sure EXCEPT ![c] = {x \in @ : x[1] # db[c]}]
          /\ UNCHANGED facts
       \/ /\ pc[c] = "commit"
          /\ facts' = [facts EXCEPT ![db[c]] = @ \cup Added(c)]
          /\ UNCHANGED sure
    /\ err' = [err EXCEPT ![c] = TRUE]
    /\ pc' = [pc EXCEPT ![c] = "returned"]
    /\ UNCHANGED <<cache, pendingEvict, open, snap, unread, shown, fill, loaded, query, left, db,
                   prefix, todo, read, rows, queryErr, tree, result, found, failed, old>>

\* The evictor goroutine of a database drops an entry.  (The order of the queue does not matter
\* here, and of several evictions of one entry the set keeps the last.)
Evict(d) ==
    /\ \E x \in pendingEvict[d] :
        /\ pendingEvict' = [pendingEvict EXCEPT ![d] = @ \ {x}]
        /\ cache' = [cache EXCEPT ![d] = Restrict(@, DOMAIN @ \ {x[2]})]
    /\ UNCHANGED <<facts, open, snap, unread, shown, fill, loaded, sure, callVars>>

Return(c) ==
    /\ pc[c] = "databases"
    /\ left[c] = {}
    /\ pc' = [pc EXCEPT ![c] = "returned"]
    /\ UNCHANGED <<facts, cacheVars, query, left, db, prefix, todo, read, rows, queryErr,
                   tree, result, err, found, failed, old>>

Step(c) ==
    \/ RunQuery(c) \/ runQuery(c) \/ Wait(c) \/ Merge(c) \/ Drain(c)
    \/ HandleInsert(c) \/ Commit(c) \/ InsertFails(c) \/ Return(c)
BranchStep(c, b) ==
    \/ Snapshot(c, b) \/ GetResults(c, b) \/ Append1(c, b)
    \/ \E k \in Key : Lookup(c, b, k) \/ Fill(c, b, k)

Next ==
    \/ \E c \in Caller : Step(c) \/ \E b \in Branch : BranchStep(c, b)
    \/ \E d \in DB : Evict(d)

\* As long as a call can go on, in its own goroutine or in those of its branches, some call
\* does.  Nothing makes anyone call, or the evictor run.
Progress ==
    \E c \in Caller : pc[c] # "idle" /\ (Step(c) \/ \E b \in Branch : BranchStep(c, b))

Spec == Init /\ [][Next]_vars /\ WF_vars(Progress)

-----------------------------------------------------------------------------
\* Properties

Returned(c) == pc[c] = "returned" /\ ~err[c]

\* The rows of the result lie in the columns of the outer query: not a SELECT *
\* of a UNION, and every branch has all the variables that are selected.
Aligned(q) ==
    /\ q.all => ~q.union
    /\ \A b \in q.branches : Range(q.vars) \subseteq VarsOf[b]

Selected(q, args) == [v \in Range(q.vars) |-> args[v]]

\* Although ResultRow.Less is no order, the B-tree loses no row: whatever a
\* branch found on whatever database is in the result of a SELECT, and nothing
\* else, each value under its own variable.
AnswersWhatWasFound ==
    \A c \in Caller :
        LET q == query[c]
        IN  Returned(c) /\ ~q.insert /\ ~q.count /\ Aligned(q)
                => Range(result[c].rows) = {Selected(q, x[3]) : x \in found[c]}

\* A COUNT lies between the distinct rows and the rows that were found.
CountsRows ==
    \A c \in Caller :
        LET q == query[c]
        IN  Returned(c) /\ Aligned(q)
              => /\ result[c].count >= Cardinality({Selected(q, x[3]) : x \in found[c]})
                 /\ result[c].count <= Cardinality(found[c])
                 /\ ~q.count /\ ~q.insert => result[c].count = Len(result[c].rows)

\* What a SELECT can count on although it reads through the cache: one without errors has
\* seen, on every database, every fact that was settled when it was called, and nothing that
\* was never committed, however the snapshots, lookups and fills of its branches interleave
\* with inserts and evictions.  (A fact with an entry that is not evicted, or whose insert
\* some query overlapped, it may miss for ever.)
SeesEarlierInserts ==
    \A c \in Caller :
        Returned(c) /\ result[c].errors = {} =>
            \A d \in query[c].dbs, b \in query[c].branches :
                LET seen == {x[3] : x \in {x \in found[c] : x[1] = d /\ x[2] = b}}
                IN  /\ ArgsOf(d, b, old[c]) \subseteq seen
                    /\ seen \subseteq ArgsOf(d, b, facts)

\* A call names in its result exactly the databases one of its branches failed
\* on: the error of a branch is not covered up by another branch's success.
FailuresNamed ==
    \A c \in Caller : Returned(c) => result[c].errors = failed[c]

\* Every call comes back: as each caller calls once at most, it is enough that there is
\* always another moment at which nobody waits for a call, whatever its branches, the
\* lock of the rows, the transactions of others and the failures are at.
CallsReturn == []<>(\A c \in Caller : pc[c] \in {"idle", "returned"})

\* insert.go: "replace all variables with content from query": a database never
\* comes to hold a triple with a variable in it.
VariablesReplaced ==
    \A d \in DB : \A f \in facts[d] : \A v \in DOMAIN f[2] : f[2][v] \notin Variable
=============================================================================
