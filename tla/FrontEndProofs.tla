--------------------------- MODULE FrontEndProofs ---------------------------
(***************************************************************************)
(* Proofs about FrontEnd, for every number of callers, databases and       *)
(* branches, all contents of the databases and all queries.                *)
(***************************************************************************)
EXTENDS FrontEnd, FiniteSetTheorems, SequenceTheorems, TLAPS

USE FrontEndSets, URIAssumption, FullAssumption, VarsAssumption, ContentsAssumption,
    FrontEndQueries

-----------------------------------------------------------------------------
(* Where a call is.                                                        *)

Pcs == {"idle", "databases", "branches", "merge", "insert", "commit", "returned"}

\* The types that do not depend on what the queries select.
TypeInv ==
    /\ facts \in [DB -> SUBSET Fact] /\ \A d \in DB : IsFiniteSet(facts[d])
    /\ pc \in [Caller -> Pcs]
    /\ query \in [Caller -> QueryType \cup {NoQuery}]
    /\ \A c \in Caller : IsFiniteSet(query[c].terms)
    /\ left \in [Caller -> SUBSET DB]
    /\ todo \in [Caller -> SUBSET Branch]
    /\ queryErr \in [Caller -> BOOLEAN] /\ err \in [Caller -> BOOLEAN]
    /\ old \in [Caller -> [DB -> SUBSET Fact]]
    /\ found \in [Caller -> SUBSET (DB \X Branch \X UNION {[VarsOf[b] -> URI] : b \in Branch})]
    /\ failed \in [Caller -> SUBSET DB]
    /\ sure \in [Caller -> SUBSET (DB \X Fact)]
    /\ DOMAIN cache = DB /\ DOMAIN pendingEvict = DB
    /\ DOMAIN open = Caller /\ DOMAIN unread = Caller /\ DOMAIN shown = Caller
    /\ fill \in [Caller -> SUBSET (Branch \X Key)]
    /\ DOMAIN snap = Caller /\ \A c \in Caller : DOMAIN snap[c] = Branch
    /\ DOMAIN db = Caller /\ DOMAIN prefix = Caller /\ DOMAIN read = Caller
    /\ DOMAIN rows = Caller /\ DOMAIN tree = Caller /\ DOMAIN result = Caller
    /\ \A c \in Caller : DOMAIN result[c] = {"rows", "count", "errors"}

\* What is left of a call at each place of RunQuery.
ControlOK(c) ==
    /\ pc[c] = "idle" => /\ found[c] = {} /\ failed[c] = {} /\ tree[c] = << >>
                         /\ result[c] = EmptyResult /\ query[c] = NoQuery
    /\ pc[c] # "branches" => todo[c] = {} /\ open[c] = {} /\ read[c] = {}
    /\ pc[c] \notin {"branches", "merge"} => rows[c] = {}
    /\ pc[c] \in {"branches", "merge", "insert", "commit"} => db[c] \in DB \ left[c]
    /\ Returned(c) => left[c] = {}
    /\ todo[c] \subseteq query[c].branches
    /\ open[c] \subseteq query[c].branches \ todo[c]
    /\ \A r \in read[c] : r.branch \in query[c].branches
    /\ pc[c] \in {"insert", "commit"} => query[c].insert
    /\ query[c].insert => result[c].rows = << >>
    /\ ~ query[c].count /\ pc[c] # "merge" => tree[c] = << >>

\* The failures of branches: noted in the result, or still on their way to it.
Failing(c) == pc[c] = "branches" /\ (queryErr[c] \/ \E r \in read[c] : ~ r.ok)

FailuresOK(c) == failed[c] = result[c].errors \cup {d \in {db[c]} : Failing(c)}

\* What a call has read was committed before or since, and it has read, of the
\* databases it is through with, all that was settled when it was called.
SeenOK(c) ==
    /\ \A x \in found[c] :
          /\ x[1] \notin left[c] /\ <<x[2], x[3]>> \in facts[x[1]]
          /\ pc[c] = "branches" /\ x[1] = db[c] => x[2] \notin todo[c] \cup open[c]
    /\ \A d \in query[c].dbs \ left[c], b \in query[c].branches :
          \/ d \in failed[c]
          \/ pc[c] = "branches" /\ d = db[c] /\ b \in todo[c] \cup open[c]
          \/ \A a \in ArgsOf(d, b, old[c]) : <<d, b, a>> \in found[c]

\* Where a branch is with its entries: what it was shown is committed, and it was shown, or
\* still has to look up, every entry of the facts that were settled.
ContextOK(c) ==
    /\ \A b \in open[c] : snap[c][b] \subseteq facts[db[c]]
    /\ \A x \in unread[c] \cup fill[c] : x[1] \in open[c]
    /\ \A x \in shown[c] : x[1] \in open[c] /\ x[3] \in facts[db[c]]
    /\ \A b \in open[c] : \A f \in old[c][db[c]] : f[1] = b =>
          \A k \in Under[f] : <<b, k>> \in unread[c] \/ <<b, k, f>> \in shown[c]

CallOK(c) == ControlOK(c) /\ FailuresOK(c) /\ SeenOK(c) /\ ContextOK(c)

\* A fact no query can miss: the database has it, and so have the snapshots and the entries
\* it could be read from.
Kept(d, f) ==
    /\ f \in facts[d]
    /\ \A u \in Caller : db[u] = d => \A b \in open[u] : f \in snap[u][b]
    /\ \A k \in Under[f] : k \in DOMAIN cache[d] => f \in cache[d][k]

\* One that will be, once the insert of c has committed and its entries are evicted.
Dropped(c, d, f) ==
    /\ NoContext(d)
    /\ IF pc[c] = "commit" /\ db[c] = d THEN f \in Added(c) ELSE f \in facts[d]
    /\ \A k \in Under[f] : k \in DOMAIN cache[d] => <<c, k>> \in pendingEvict[d]

\* A call inserts into a database once.
OnceOK(c, d) ==
    /\ pc[c] # "idle" /\ d \notin left[c]
    /\ pc[c] \in {"branches", "merge", "insert"} => d # db[c]
SettlesOK(c, d, f) ==
    /\ Evicting(c, d) => Dropped(c, d, f)
    /\ ~ Evicting(c, d) => Kept(d, f)
SureOK(c) == \A x \in sure[c] : OnceOK(c, x[1]) /\ SettlesOK(c, x[1], x[2])

\* No entry has what was never committed, and what is settled is in every entry.
CacheOK ==
    /\ \A d \in DB : \A k \in DOMAIN cache[d] : cache[d][k] \subseteq facts[d]
    /\ \A d \in DB : \A f \in loaded[d] : Kept(d, f)
    /\ \A c \in Caller : SureOK(c)
    /\ \A c \in Caller : \A d \in DB : \A f \in old[c][d] : Kept(d, f)

CallInv == TypeInv /\ CacheOK /\ \A c \in Caller : CallOK(c)

Args == UNION {[VarsOf[b] -> URI] : b \in Branch}

\* A fact is a branch of a query with values for the branch's variables.
LEMMA FactParts ==
    ASSUME NEW f \in Fact
    PROVE  f[1] \in Branch /\ f[2] \in [VarsOf[f[1]] -> URI] /\ f = <<f[1], f[2]>>
<1>1. PICK b \in Branch : f \in {<<b, args>> : args \in [VarsOf[b] -> URI]}
  BY DEF Fact
<1> QED
  BY <1>1

\* The fields of a query a caller has, or of the absent one.
LEMMA QueryFields ==
    ASSUME NEW q \in QueryType \cup {NoQuery}
    PROVE  /\ q.dbs \subseteq DB /\ q.branches \subseteq Branch /\ q.terms \subseteq Fact
           /\ q.vars \in Seq(Variable)
           /\ q.insert \in BOOLEAN /\ q.count \in BOOLEAN
<1>1. CASE q \in QueryType
  BY <1>1 DEF QueryType
<1>2. CASE q = NoQuery
  BY <1>2 DEF NoQuery
<1> QED
  BY <1>1, <1>2

\* What a branch finds in a database.
LEMMA ArgsFound ==
    ASSUME NEW F \in [DB -> SUBSET Fact], NEW d \in DB, NEW b
    PROVE  /\ \A a : a \in ArgsOf(d, b, F) <=> <<b, a>> \in F[d]
           /\ \A a \in ArgsOf(d, b, F) : b \in Branch /\ a \in [VarsOf[b] -> URI] /\ a \in Args
<1>1. ASSUME NEW a, a \in ArgsOf(d, b, F)
      PROVE  <<b, a>> \in F[d] /\ b \in Branch /\ a \in [VarsOf[b] -> URI] /\ a \in Args
  <2>1. PICK f \in F[d] : f[1] = b /\ f[2] = a
    BY <1>1 DEF ArgsOf
  <2>2. f[1] \in Branch /\ f[2] \in [VarsOf[f[1]] -> URI] /\ f = <<f[1], f[2]>>
    BY FactParts
  <2> QED
    BY <2>1, <2>2 DEF Args
<1>2. ASSUME NEW a, <<b, a>> \in F[d]
      PROVE  a \in ArgsOf(d, b, F)
  <2>1. <<b, a>>[1] = b /\ <<b, a>>[2] = a
    OBVIOUS
  <2> QED
    BY <1>2, <2>1 DEF ArgsOf
<1> QED
  BY <1>1, <1>2

\* An insert adds its own terms or nothing: the rows its query found are thrown
\* away before they could be put in place of its variables.
LEMMA AddsTerms ==
    ASSUME TypeInv, NEW c \in Caller, ControlOK(c), pc[c] \in {"insert", "commit"}
    PROVE  Added(c) \subseteq Fact /\ IsFiniteSet(Added(c))
<1>1. result[c].rows = << >>
  BY DEF ControlOK
<1>2. Range(<<>>) = {}
  BY DEF Range
<1>3. Added(c) \in {query[c].terms, {}}
  BY <1>1, <1>2 DEF Additions, Added
<1>4. query[c].terms \subseteq Fact /\ IsFiniteSet(query[c].terms)
  BY QueryFields DEF TypeInv
<1>5. CASE Added(c) = {}
  BY <1>5, FS_EmptySet
<1>6. CASE Added(c) = query[c].terms
  BY <1>4, <1>6
<1> QED
  BY <1>3, <1>5, <1>6

CStep(c) == Step(c) \/ \E b \in Branch : BranchStep(c, b)

\* Databases only grow.
LEMMA FactsGrow ==
    ASSUME TypeInv, NEW c \in Caller, ControlOK(c), CStep(c)
    PROVE  /\ facts' \in [DB -> SUBSET Fact] /\ \A d \in DB : IsFiniteSet(facts'[d])
           /\ \A d \in DB : facts[d] \subseteq facts'[d]
<1>1. CASE Commit(c) \/ InsertFails(c)
  <2>1. \/ facts' = facts
        \/ pc[c] = "commit" /\ facts' = [facts EXCEPT ![db[c]] = @ \cup Added(c)]
    BY <1>1 DEF Commit, InsertFails
  <2>2. CASE facts' = facts
    BY <2>2 DEF TypeInv
  <2>3. CASE pc[c] = "commit" /\ facts' = [facts EXCEPT ![db[c]] = @ \cup Added(c)]
    <3>1. db[c] \in DB
      BY <2>3 DEF ControlOK
    <3>2. Added(c) \subseteq Fact /\ IsFiniteSet(Added(c))
      BY <2>3, AddsTerms
    <3>3. IsFiniteSet(facts[db[c]] \cup Added(c))
      BY <3>1, <3>2, FS_Union DEF TypeInv
    <3>4. \A d \in DB : facts'[d] = IF d = db[c] THEN facts[d] \cup Added(c) ELSE facts[d]
      BY <2>3, <3>1 DEF TypeInv
    <3>5. facts' \in [DB -> SUBSET Fact]
      BY <2>3, <3>1, <3>2 DEF TypeInv
    <3> QED
      BY <3>3, <3>4, <3>5 DEF TypeInv
  <2> QED
    BY <2>1, <2>2, <2>3
<1>2. CASE ~ Commit(c) /\ ~ InsertFails(c)
  <2>1. facts' = facts
    BY <1>2 DEF CStep, Step, BranchStep, RunQuery, runQuery, Snapshot, Lookup, Fill, GetResults,
                Append1, Wait, Merge, Drain, HandleInsert, Return
  <2> QED
    BY <2>1 DEF TypeInv
<1> QED
  BY <1>1, <1>2

\* What is settled is kept.
LEMMA SettledKept ==
    ASSUME CacheOK, NEW d \in DB, NEW f \in Settled(d)
    PROVE  Kept(d, f)
<1>1. CASE f \in loaded[d]
  BY <1>1 DEF CacheOK
<1>2. CASE f \notin loaded[d]
  <2>1. PICK c \in Caller : ~ Evicting(c, d) /\ \E x \in sure[c] : x[1] = d /\ x[2] = f
    BY <1>2 DEF Settled
  <2> QED
    BY <2>1 DEF CacheOK, SureOK, SettlesOK
<1> QED
  BY <1>1, <1>2

\* A branch finds what is committed, and once it has looked up all its entries, all the facts
\* that were settled.
LEMMA ShownArgs ==
    ASSUME TypeInv, NEW c \in Caller, ControlOK(c), ContextOK(c), NEW b \in open[c]
    PROVE  /\ pc[c] = "branches" /\ db[c] \in DB \ left[c] /\ b \in Branch
           /\ \A a \in ArgsShown(c, b) : <<b, a>> \in facts[db[c]] /\ a \in [VarsOf[b] -> URI]
           /\ (\A k \in Key : <<b, k>> \notin unread[c]) =>
                 ArgsOf(db[c], b, old[c]) \subseteq ArgsShown(c, b)
<1>1. pc[c] = "branches" /\ db[c] \in DB \ left[c] /\ b \in Branch
  BY QueryFields DEF ControlOK, TypeInv
<1>2. ASSUME NEW a \in ArgsShown(c, b)
      PROVE  <<b, a>> \in facts[db[c]] /\ a \in [VarsOf[b] -> URI]
  <2>1. PICK y \in shown[c] : y[3][1] = b /\ y[3][2] = a
    BY <1>2 DEF ArgsShown
  <2>2. y[3] \in facts[db[c]] /\ y[3] \in Fact
    BY <1>1 DEF ContextOK, TypeInv
  <2> QED
    BY <2>1, <2>2, FactParts
<1>3. ASSUME \A k \in Key : <<b, k>> \notin unread[c], NEW a \in ArgsOf(db[c], b, old[c])
      PROVE  a \in ArgsShown(c, b)
  <2>1. PICK f \in old[c][db[c]] : f[1] = b /\ f[2] = a
    BY <1>3 DEF ArgsOf
  <2>2. f \in Fact /\ Under[f] # {} /\ Under[f] \subseteq Key
    BY <1>1, <2>1, KeysAssumption DEF TypeInv
  <2>3. \A k \in Under[f] : <<b, k, f>> \in shown[c]
    BY <1>3, <2>1, <2>2 DEF ContextOK
  <2>4. PICK k \in Under[f] : <<b, k, f>> \in shown[c]
    BY <2>2, <2>3
  <2>5. /\ <<b, k, f>>[1] = b /\ <<b, k, f>>[3] = f
    OBVIOUS
  <2> QED
    BY <2>1, <2>3, <2>4, <2>5 DEF ArgsShown
<1> QED
  BY <1>1, <1>2, <1>3

\* A branch ends with all its entries looked up, or with an error.
LEMMA GetResultsStep ==
    ASSUME NEW c, NEW b, GetResults(c, b)
    PROVE  \/ /\ \A k \in Key : <<b, k>> \notin unread[c]
              /\ failed' = failed
              /\ found' = [found EXCEPT ![c] = @ \cup {<<db[c], b, a>> : a \in ArgsShown(c, b)}]
              /\ \E cols \in ColumnsOf(query[c], b) :
                   read' = [read EXCEPT ![c] = @ \cup
                     {[branch |-> b, ok |-> TRUE,
                       rows |-> {RowOf(query[c], cols, a) : a \in ArgsShown(c, b)}]}]
           \/ /\ failed' = [failed EXCEPT ![c] = @ \cup {db[c]}]
              /\ found' = found
              /\ read' = [read EXCEPT ![c] = @ \cup
                   {[branch |-> b, ok |-> FALSE, rows |-> {}]}]
BY Zenon DEF GetResults

\* The steps of a call keep the types.
LEMMA TypeNext ==
    ASSUME TypeInv, CacheOK, NEW c \in Caller, ControlOK(c), ContextOK(c), CStep(c)
    PROVE  TypeInv'
<1>1. facts' \in [DB -> SUBSET Fact] /\ \A d \in DB : IsFiniteSet(facts'[d])
  BY FactsGrow
<1>2. CASE RunQuery(c)
  <2>1. PICK q \in Queries[c] : query' = [query EXCEPT ![c] = q] /\ left' = [left EXCEPT ![c] = q.dbs]
    BY <1>2 DEF RunQuery
  <2>2. q \in QueryType /\ IsFiniteSet(q.terms) /\ q.dbs \subseteq DB
    BY DEF QueryType
  <2>3. old' \in [Caller -> [DB -> SUBSET Fact]] /\ pc' \in [Caller -> Pcs]
    <3>1. \A d \in DB : Settled(d) \subseteq Fact
      BY SettledKept DEF Kept, TypeInv
    <3>2. [d \in DB |-> Settled(d)] \in [DB -> SUBSET Fact]
      BY <3>1
    <3> QED
      BY <1>2, <3>2 DEF RunQuery, TypeInv, Pcs
  <2>4. query' \in [Caller -> QueryType \cup {NoQuery}] /\ left' \in [Caller -> SUBSET DB]
        /\ \A u \in Caller : IsFiniteSet(query'[u].terms)
    BY <2>1, <2>2 DEF TypeInv
  <2> QED
    BY <1>1, <1>2, <2>3, <2>4 DEF RunQuery, TypeInv, cacheVars
<1>3. CASE runQuery(c)
  <2>1. PICK d \in left[c] : /\ left' = [left EXCEPT ![c] = @ \ {d}]
                             /\ db' = [db EXCEPT ![c] = d]
                             /\ prefix' = [prefix EXCEPT ![c] = Expanded(@, d)]
    BY <1>3 DEF runQuery
  <2>2. query[c].branches \subseteq Branch
    BY QueryFields DEF TypeInv
  <2>3. left' \in [Caller -> SUBSET DB] /\ DOMAIN db' = Caller /\ DOMAIN prefix' = Caller
    BY <2>1 DEF TypeInv
  <2>4. /\ todo' \in [Caller -> SUBSET Branch] /\ queryErr' \in [Caller -> BOOLEAN]
        /\ DOMAIN rows' = Caller /\ pc' \in [Caller -> Pcs]
    BY <1>3, <2>2 DEF runQuery, TypeInv, Pcs
  <2> QED
    BY <1>1, <1>3, <2>3, <2>4 DEF runQuery, TypeInv, cacheVars
<1>4. CASE \E b \in Branch : Snapshot(c, b)
  <2>1. PICK b \in Branch : Snapshot(c, b)
    BY <1>4
  <2>2. /\ todo' \in [Caller -> SUBSET Branch] /\ DOMAIN open' = Caller /\ DOMAIN unread' = Caller
        /\ DOMAIN snap' = Caller /\ \A u \in Caller : DOMAIN snap'[u] = Branch
    BY <2>1 DEF Snapshot, TypeInv
  <2>3. sure' \in [Caller -> SUBSET (DB \X Fact)]
    BY <2>1 DEF Snapshot, TypeInv
  <2> QED
    BY <1>1, <2>1, <2>2, <2>3 DEF Snapshot, TypeInv
<1>10. CASE \E b \in Branch : \E k \in Key : Lookup(c, b, k)
  <2>1. DOMAIN unread' = Caller /\ DOMAIN shown' = Caller
        /\ fill' \in [Caller -> SUBSET (Branch \X Key)]
    <3>1. PICK b \in Branch, k \in Key : Lookup(c, b, k)
      BY <1>10
    <3>2. fill' = fill \/ fill' = [fill EXCEPT ![c] = @ \cup {<<b, k>>}]
      BY <3>1 DEF Lookup
    <3>3. fill' \in [Caller -> SUBSET (Branch \X Key)]
      <4>1. fill[c] \cup {<<b, k>>} \in SUBSET (Branch \X Key)
        BY DEF TypeInv
      <4>2. fill \in [Caller -> SUBSET (Branch \X Key)]
        BY DEF TypeInv
      <4> QED
        BY <3>2, <4>1, <4>2
    <3> QED
      BY <3>1, <3>3 DEF Lookup, TypeInv
  <2> QED
    BY <1>1, <1>10, <2>1 DEF Lookup, TypeInv, callVars
<1>11. CASE \E b \in Branch : \E k \in Key : Fill(c, b, k)
  <2>1. fill' \in [Caller -> SUBSET (Branch \X Key)] /\ DOMAIN cache' = DB
    BY <1>11 DEF Fill, TypeInv
  <2> QED
    BY <1>1, <1>11, <2>1 DEF Fill, TypeInv, callVars
<1>12. CASE \E b \in Branch : GetResults(c, b)
  <2>1. PICK b \in Branch : GetResults(c, b)
    BY <1>12
  <2>2. b \in open[c] /\ db[c] \in DB
    BY <2>1, ShownArgs DEF GetResults
  <2>3. \A a \in ArgsShown(c, b) : a \in Args
    <3>1. \A a \in ArgsShown(c, b) : a \in [VarsOf[b] -> URI]
      BY <2>2, ShownArgs
    <3> QED
      BY <3>1 DEF Args
  <2>4. /\ \/ found' = found
           \/ found' = [found EXCEPT ![c] = @ \cup {<<db[c], b, a>> : a \in ArgsShown(c, b)}]
        /\ failed' = failed \/ failed' = [failed EXCEPT ![c] = @ \cup {db[c]}]
    BY <2>1, GetResultsStep
  <2>5. found' \in [Caller -> SUBSET (DB \X Branch \X Args)]
    <3>1. {<<db[c], b, a>> : a \in ArgsShown(c, b)} \subseteq DB \X Branch \X Args
      BY <2>2, <2>3
    <3>2. found \in [Caller -> SUBSET (DB \X Branch \X Args)]
      BY DEF TypeInv, Args
    <3> QED
      BY <2>4, <3>1, <3>2
  <2>6. failed' \in [Caller -> SUBSET DB]
    <3>1. CASE failed' = failed
      BY <3>1 DEF TypeInv
    <3>2. CASE failed' = [failed EXCEPT ![c] = @ \cup {db[c]}]
      <4>1. failed[c] \cup {db[c]} \in SUBSET DB
        BY <2>2 DEF TypeInv
      <4> QED
        BY <3>2, <4>1 DEF TypeInv
    <3> QED
      BY <2>4, <3>1, <3>2
  <2>7. DOMAIN read' = Caller
    BY <2>1 DEF GetResults, TypeInv
  <2>8. /\ DOMAIN open' = Caller /\ DOMAIN unread' = Caller /\ DOMAIN shown' = Caller
        /\ DOMAIN snap' = Caller /\ \A u \in Caller : DOMAIN snap'[u] = Branch
    BY <2>1 DEF GetResults, TypeInv
  <2> QED
    BY <1>1, <2>1, <2>5, <2>6, <2>7, <2>8 DEF GetResults, TypeInv, Args
<1>5. CASE \E b \in Branch : Append1(c, b)
  <2>1. PICK b \in Branch : Append1(c, b)
    BY <1>5
  <2>2. PICK r \in read[c] : /\ read' = [read EXCEPT ![c] = @ \ {r}]
                             /\ rows' = [rows EXCEPT ![c] = @ \cup {<<b, x>> : x \in r.rows}]
                             /\ queryErr' = [queryErr EXCEPT ![c] = @ \/ ~r.ok]
    BY <2>1 DEF Append1
  <2>3. DOMAIN read' = Caller /\ DOMAIN rows' = Caller /\ queryErr' \in [Caller -> BOOLEAN]
    BY <2>2 DEF TypeInv
  <2> QED
    BY <1>1, <2>1, <2>3 DEF Append1, TypeInv, cacheVars
<1>6. CASE Wait(c)
  <2>1. DOMAIN result' = Caller /\ \A u \in Caller : DOMAIN result'[u] = DOMAIN result[u]
    BY <1>6 DEF Wait, TypeInv
  <2>2. pc' \in [Caller -> Pcs]
    BY <1>6 DEF Wait, TypeInv, Pcs
  <2> QED
    BY <1>1, <1>6, <2>1, <2>2 DEF Wait, TypeInv, cacheVars
<1>7. CASE Merge(c)
  <2>1. DOMAIN tree' = Caller /\ DOMAIN rows' = Caller
    BY <1>7 DEF Merge, TypeInv
  <2> QED
    BY <1>1, <1>7, <2>1 DEF Merge, TypeInv, cacheVars
<1>8. CASE Drain(c)
  <2>1. DOMAIN result' = Caller /\ DOMAIN tree' = Caller
    BY <1>8 DEF Drain, TypeInv
  <2>2. \A u \in Caller : DOMAIN result'[u] = DOMAIN result[u]
    BY ZenonT(60), <1>8 DEF Drain, TypeInv
  <2>3. pc' \in [Caller -> Pcs]
    BY <1>8 DEF Drain, TypeInv, Pcs
  <2> QED
    BY <1>1, <1>8, <2>1, <2>2, <2>3 DEF Drain, TypeInv, cacheVars
<1>9. CASE HandleInsert(c)
  <2>1. pc' \in [Caller -> Pcs] /\ DOMAIN pendingEvict' = DB
    BY <1>9 DEF HandleInsert, TypeInv, Pcs
  <2>2. sure' \in [Caller -> SUBSET (DB \X Fact)]
    <3>1. Covered(c) \subseteq Fact /\ db[c] \in DB
      BY <1>9, AddsTerms DEF HandleInsert, Covered, ControlOK
    <3>2. {<<db[c], f>> : f \in Covered(c)} \subseteq DB \X Fact
      BY <3>1
    <3>3. PICK S \in SUBSET (DB \X Fact) : sure' = [sure EXCEPT ![c] = @ \cup S]
      <4>1. CASE NoContext(db[c])
        BY <1>9, <3>2, <4>1 DEF HandleInsert
      <4>2. CASE ~ NoContext(db[c])
        <5>1. sure' = [sure EXCEPT ![c] = @ \cup {}]
          BY <1>9, <4>2 DEF HandleInsert
        <5> QED
          BY <5>1
      <4> QED
        BY <4>1, <4>2
    <3> QED
      BY <3>3 DEF TypeInv
  <2> QED
    BY <1>1, <1>9, <2>1, <2>2 DEF HandleInsert, TypeInv
<1>13. CASE Commit(c) \/ Return(c)
  <2>1. pc' \in [Caller -> Pcs]
    <3>1. pc' = [pc EXCEPT ![c] = "databases"] \/ pc' = [pc EXCEPT ![c] = "returned"]
      BY <1>13 DEF Commit, Return
    <3> QED
      BY <3>1 DEF TypeInv, Pcs
  <2> QED
    BY <1>1, <1>13, <2>1 DEF Commit, Return, TypeInv, cacheVars
<1>14. CASE InsertFails(c)
  <2>1. pc' \in [Caller -> Pcs] /\ err' \in [Caller -> BOOLEAN]
    BY <1>14 DEF InsertFails, TypeInv, Pcs
  <2>2. sure' \in [Caller -> SUBSET (DB \X Fact)]
    <3>1. sure' = sure \/ sure' = [sure EXCEPT ![c] = {x \in @ : x[1] # db[c]}]
      BY <1>14 DEF InsertFails
    <3>2. sure \in [Caller -> SUBSET (DB \X Fact)]
      BY DEF TypeInv
    <3>3. {x \in sure[c] : x[1] # db[c]} \in SUBSET (DB \X Fact)
      BY <3>2
    <3> QED
      BY <3>1, <3>2, <3>3
  <2> QED
    BY <1>1, <1>14, <2>1, <2>2 DEF InsertFails, TypeInv
<1> QED
  BY <1>2, <1>3, <1>4, <1>5, <1>6, <1>7, <1>8, <1>9, <1>10, <1>11, <1>12, <1>13, <1>14
  DEF CStep, Step, BranchStep

\* The state of one call.
Call(c) == <<pc[c], query[c], left[c], db[c], prefix[c], todo[c], read[c], rows[c], queryErr[c],
             tree[c], result[c], err[c], found[c], failed[c], old[c]>>
Context(c) == <<open[c], snap[c], unread[c], shown[c], fill[c]>>

\* A call's steps do nothing to another's.
LEMMA OthersStay ==
    ASSUME TypeInv, NEW c \in Caller, CStep(c), NEW u \in Caller, u # c
    PROVE  Call(u)' = Call(u) /\ Context(u)' = Context(u)
<1>1. CASE RunQuery(c) \/ runQuery(c)
  BY <1>1 DEF RunQuery, runQuery, Call, Context, TypeInv, cacheVars
<1>2. CASE \E b \in Branch : GetResults(c, b)
  BY <1>2 DEF GetResults, Call, Context, TypeInv
<1>3. CASE \E b \in Branch : Append1(c, b)
  BY <1>3 DEF Append1, Call, Context, TypeInv, cacheVars
<1>4. CASE Wait(c) \/ Merge(c)
  BY <1>4 DEF Wait, Merge, Call, Context, TypeInv, cacheVars
<1>5. CASE Drain(c)
  BY <1>5 DEF Drain, Call, Context, TypeInv, cacheVars
<1>6. CASE HandleInsert(c)
  BY <1>6 DEF HandleInsert, Call, Context, TypeInv, cacheVars
<1>7. CASE InsertFails(c)
  BY <1>7 DEF InsertFails, Call, Context, TypeInv, cacheVars
<1>8. CASE Commit(c) \/ Return(c)
  BY <1>8 DEF Commit, Return, Call, Context, TypeInv, cacheVars
<1>9. CASE \E b \in Branch : Snapshot(c, b)
  BY <1>9 DEF Snapshot, Call, Context, TypeInv
<1>10. CASE \E b \in Branch : \E k \in Key : Lookup(c, b, k) \/ Fill(c, b, k)
  BY <1>10 DEF Lookup, Fill, Call, Context, TypeInv, callVars
<1> QED
  BY <1>1, <1>2, <1>3, <1>4, <1>5, <1>6, <1>7, <1>8, <1>9, <1>10 DEF CStep, Step, BranchStep

\* A call that does not move sees nothing of another's but a database that grows.
LEMMA StillCall ==
    ASSUME TypeInv, NEW u \in Caller, Call(u)' = Call(u), Context(u)' = Context(u), CallOK(u),
           \A d \in DB : facts[d] \subseteq facts'[d]
    PROVE  CallOK(u)'
<1>1. ControlOK(u)'
  BY DEF Call, Context, CallOK, ControlOK, Returned
<1>2. FailuresOK(u)'
  BY DEF Call, CallOK, FailuresOK, Failing
<1>3. SeenOK(u)'
  <2>1. \A x \in found[u] : x[1] \in DB
    BY DEF TypeInv
  <2> QED
    BY <2>1 DEF Call, Context, CallOK, SeenOK, ArgsOf
<1>4. ContextOK(u)'
  <2>1. open[u] # {} => db[u] \in DB
    BY DEF CallOK, ControlOK
  <2> QED
    BY <2>1 DEF Call, Context, CallOK, ContextOK
<1> QED
  BY <1>1, <1>2, <1>3, <1>4 DEF CallOK

\* A call without contexts, and one whose contexts stay, has nothing amiss in them.
LEMMA SameContext ==
    ASSUME NEW c \in Caller, ContextOK(c), Context(c)' = Context(c),
           open[c] = {} \/ (db'[c] = db[c] /\ old'[c] = old[c] /\ facts' = facts)
    PROVE  ContextOK(c)'
BY DEF ContextOK, Context

\* RunQuery: the call starts with no failure and no database looked at.
LEMMA RunQueryCall ==
    ASSUME TypeInv, NEW c \in Caller, CallOK(c), RunQuery(c)
    PROVE  CallOK(c)'
<1>1. PICK q \in Queries[c] : query'[c] = q /\ left'[c] = q.dbs
  BY DEF RunQuery, TypeInv
<1>2. /\ pc[c] = "idle" /\ pc'[c] = "databases" /\ facts' = facts
      /\ UNCHANGED <<db, prefix, todo, read, rows, queryErr, tree, result, err, found, failed>>
      /\ UNCHANGED <<open, snap, unread, shown, fill>>
  BY DEF RunQuery, TypeInv, cacheVars
<1>3. todo[c] = {} /\ open[c] = {} /\ read[c] = {} /\ rows[c] = {} /\ tree[c] = <<>>
      /\ result[c] = EmptyResult /\ found[c] = {}
  BY <1>2 DEF CallOK, ControlOK
<1>4. ControlOK(c)'
  BY <1>1, <1>2, <1>3 DEF CallOK, ControlOK, Returned, EmptyResult
<1>5. FailuresOK(c)'
  BY <1>2, <1>3 DEF CallOK, FailuresOK, Failing
<1>6. SeenOK(c)'
  BY <1>1, <1>2, <1>3 DEF CallOK, SeenOK
<1>7. ContextOK(c)'
  BY <1>2, <1>3, SameContext DEF CallOK, Context
<1> QED
  BY <1>4, <1>5, <1>6, <1>7 DEF CallOK

\* runQuery: the goroutines of the branches start in the next database.
LEMMA NextDatabaseCall ==
    ASSUME TypeInv, NEW c \in Caller, CallOK(c), runQuery(c)
    PROVE  CallOK(c)'
<1>1. PICK d \in left[c] : left'[c] = left[c] \ {d} /\ db'[c] = d
  BY DEF runQuery, TypeInv
<1>2. /\ pc[c] = "databases" /\ pc'[c] = "branches" /\ todo'[c] = query[c].branches
      /\ queryErr'[c] = FALSE /\ rows'[c] = {}
      /\ UNCHANGED <<facts, query, read, tree, result, err, found, failed, old>>
      /\ UNCHANGED <<open, snap, unread, shown, fill>>
  BY DEF runQuery, TypeInv, cacheVars
<1>3. todo[c] = {} /\ open[c] = {} /\ read[c] = {} /\ d \in DB
  BY <1>2 DEF CallOK, ControlOK, TypeInv
<1>4. ControlOK(c)'
  BY <1>1, <1>2, <1>3 DEF CallOK, ControlOK, Returned
<1>5. FailuresOK(c)'
  BY <1>2, <1>3 DEF CallOK, FailuresOK, Failing
<1>6. SeenOK(c)'
  <2>1. \A x \in found[c] : x[1] # d
    BY <1>1 DEF CallOK, SeenOK
  <2>2. \A e \in query[c].dbs \ left'[c], b \in query[c].branches :
          \/ e \in failed[c]
          \/ e = d /\ b \in todo'[c]
          \/ \A a \in ArgsOf(e, b, old[c]) : <<e, b, a>> \in found[c]
    BY <1>1, <1>2, <1>3 DEF CallOK, SeenOK
  <2>3. \A x \in found[c] :
          /\ x[1] \notin left'[c] /\ <<x[2], x[3]>> \in facts[x[1]]
          /\ x[1] # db'[c]
    BY <1>1, <2>1 DEF CallOK, SeenOK
  <2> QED
    BY <1>1, <1>2, <2>2, <2>3 DEF SeenOK
<1>7. ContextOK(c)'
  BY <1>2, <1>3, SameContext DEF CallOK, Context
<1> QED
  BY <1>4, <1>5, <1>6, <1>7 DEF CallOK

\* A branch takes its snapshot, and has all its entries to look up.
LEMMA SnapshotCall ==
    ASSUME TypeInv, NEW c \in Caller, CallOK(c), NEW b \in Branch, Snapshot(c, b)
    PROVE  CallOK(c)'
<1>1. /\ b \in todo[c] /\ todo'[c] = todo[c] \ {b} /\ open'[c] = open[c] \cup {b}
      /\ unread'[c] = unread[c] \cup {<<b, k>> : k \in Reads[b]}
      /\ UNCHANGED <<facts, shown, fill, pc, query, left, db, read, rows, queryErr, tree, result,
                     err, found, failed, old>>
  BY DEF Snapshot, TypeInv
<1>2. \A j \in Branch : snap'[c][j] = IF j = b THEN facts[db[c]] ELSE snap[c][j]
  BY DEF Snapshot, TypeInv
<1>3. pc[c] = "branches" /\ db[c] \in DB /\ b \in query[c].branches
  BY <1>1 DEF CallOK, ControlOK
<1>4. ControlOK(c)'
  BY <1>1, <1>3 DEF CallOK, ControlOK, Returned
<1>5. FailuresOK(c)'
  BY <1>1 DEF CallOK, FailuresOK, Failing
<1>6. SeenOK(c)'
  <2>1. todo'[c] \cup open'[c] = todo[c] \cup open[c]
    BY <1>1
  <2> QED
    BY <1>1, <2>1 DEF CallOK, SeenOK
<1>7. ContextOK(c)'
  <2>1. open[c] \subseteq Branch
    BY QueryFields DEF CallOK, ControlOK, TypeInv
  <2>2. \A j \in open'[c] : snap'[c][j] \subseteq facts'[db'[c]]
    BY <1>1, <1>2, <2>1 DEF CallOK, ContextOK
  <2>3. \A x \in unread'[c] \cup fill'[c] : x[1] \in open'[c]
    BY <1>1 DEF CallOK, ContextOK
  <2>4. \A x \in shown'[c] : x[1] \in open'[c] /\ x[3] \in facts'[db'[c]]
    BY <1>1 DEF CallOK, ContextOK
  <2>5. ASSUME NEW j \in open'[c], NEW f \in old'[c][db'[c]], f[1] = j, NEW k \in Under[f]
        PROVE  <<j, k>> \in unread'[c] \/ <<j, k, f>> \in shown'[c]
    <3>1. f \in Fact
      BY <1>1, <1>3, <2>5 DEF TypeInv
    <3>2. k \in Reads[f[1]]
      BY <2>5, <3>1, KeysAssumption
    <3>3. CASE j = b
      BY <1>1, <2>5, <3>2, <3>3
    <3>4. CASE j # b
      BY <1>1, <2>5, <3>4 DEF CallOK, ContextOK
    <3> QED
      BY <3>3, <3>4
  <2> QED
    BY <2>2, <2>3, <2>4, <2>5 DEF ContextOK
<1> QED
  BY <1>4, <1>5, <1>6, <1>7 DEF CallOK

\* An entry is read: it has what was settled, and nothing that was never committed.
LEMMA LookupCall ==
    ASSUME TypeInv, CacheOK, NEW c \in Caller, CallOK(c), NEW b \in Branch, NEW k \in Key,
           Lookup(c, b, k)
    PROVE  CallOK(c)'
<1>1. /\ <<b, k>> \in unread[c] /\ unread'[c] = unread[c] \ {<<b, k>>}
      /\ shown'[c] = shown[c] \cup {<<b, k, f>> : f \in ValueOf(c, b, k)}
      /\ fill'[c] \subseteq fill[c] \cup {<<b, k>>}
      /\ UNCHANGED <<facts, open, snap, callVars>>
  BY DEF Lookup, TypeInv
<1>2. b \in open[c] /\ pc[c] = "branches" /\ db[c] \in DB
  <2>1. <<b, k>>[1] = b
    OBVIOUS
  <2> QED
    BY <1>1, <2>1 DEF CallOK, ContextOK, ControlOK
<1>3. ControlOK(c)'
  BY <1>1 DEF CallOK, ControlOK, Returned, callVars
<1>4. FailuresOK(c)'
  BY <1>1 DEF CallOK, FailuresOK, Failing, callVars
<1>5. SeenOK(c)'
  BY <1>1 DEF CallOK, SeenOK, callVars
<1>6. ContextOK(c)'
  <2>1. \A j \in open[c] : snap[c][j] \subseteq facts[db[c]]
    BY DEF CallOK, ContextOK
  <2>2. \A x \in unread'[c] \cup fill'[c] : x[1] \in open[c]
    BY <1>1, <1>2 DEF CallOK, ContextOK
  <2>3. ValueOf(c, b, k) \subseteq facts[db[c]]
    BY <1>2, <2>1 DEF ValueOf, EntryOf, CacheOK
  <2>4. \A x \in shown'[c] : x[1] \in open[c] /\ x[3] \in facts[db[c]]
    <3> SUFFICES ASSUME NEW x \in shown'[c]
                 PROVE  x[1] \in open[c] /\ x[3] \in facts[db[c]]
      OBVIOUS
    <3>1. CASE x \in shown[c]
      BY <3>1 DEF CallOK, ContextOK
    <3>2. CASE x \notin shown[c]
      <4>1. PICK f \in ValueOf(c, b, k) : x = <<b, k, f>>
        BY <1>1, <3>2
      <4> QED
        BY <1>2, <2>3, <4>1
    <3> QED
      BY <3>1, <3>2
  <2>5. ASSUME NEW j \in open[c], NEW f \in old[c][db[c]], f[1] = j, NEW i \in Under[f]
        PROVE  <<j, i>> \in unread'[c] \/ <<j, i, f>> \in shown'[c]
    <3>1. <<j, i>> \in unread[c] \/ <<j, i, f>> \in shown[c]
      BY <2>5 DEF CallOK, ContextOK
    <3>2. CASE j = b /\ i = k
      <4>1. Kept(db[c], f)
        BY <1>2, <2>5 DEF CacheOK
      <4>2. f \in ValueOf(c, b, k)
        BY <1>2, <2>5, <3>2, <4>1 DEF Kept, ValueOf, EntryOf
      <4> QED
        BY <1>1, <3>2, <4>2
    <3>3. CASE ~ (j = b /\ i = k)
      BY <1>1, <3>1, <3>3
    <3> QED
      BY <3>2, <3>3
  <2> QED
    BY <1>1, <2>1, <2>2, <2>4, <2>5 DEF ContextOK, callVars
<1> QED
  BY <1>3, <1>4, <1>5, <1>6 DEF CallOK

\* A branch puts what it read into the cache.
LEMMA FillCall ==
    ASSUME TypeInv, NEW c \in Caller, CallOK(c), NEW b \in Branch, NEW k \in Key, Fill(c, b, k)
    PROVE  CallOK(c)'
<1>1. /\ fill'[c] \subseteq fill[c]
      /\ UNCHANGED <<facts, open, snap, unread, shown, callVars>>
  BY DEF Fill, TypeInv
<1>2. ControlOK(c)'
  BY <1>1 DEF CallOK, ControlOK, Returned, callVars
<1>3. FailuresOK(c)'
  BY <1>1 DEF CallOK, FailuresOK, Failing, callVars
<1>4. SeenOK(c)'
  BY <1>1 DEF CallOK, SeenOK, callVars
<1>5. ContextOK(c)'
  BY <1>1 DEF CallOK, ContextOK, callVars
<1> QED
  BY <1>2, <1>3, <1>4, <1>5 DEF CallOK

\* A branch's goroutine finishes: what it found was in the database.
LEMMA GetResultsCall ==
    ASSUME TypeInv, NEW c \in Caller, CallOK(c), NEW b \in Branch, GetResults(c, b)
    PROVE  CallOK(c)'
<1> DEFINE d == db[c]
           A == ArgsShown(c, b)
<1>1. /\ b \in open[c] /\ open'[c] = open[c] \ {b}
      /\ snap' = [snap EXCEPT ![c][b] = {}]
      /\ unread'[c] = {x \in unread[c] : x[1] # b}
      /\ shown'[c] = {x \in shown[c] : x[1] # b}
      /\ \A k \in Key : <<b, k>> \notin fill[c]
      /\ UNCHANGED <<facts, fill, pc, query, left, db, todo, rows, queryErr, tree, result, err, old>>
  BY DEF GetResults, TypeInv
<1>2. pc[c] = "branches" /\ d \in DB \ left[c]
  BY <1>1, ShownArgs DEF CallOK
<1>3. PICK r : /\ read'[c] = read[c] \cup {r} /\ r.branch = b
               /\ \/ /\ r.ok = TRUE /\ failed' = failed
                     /\ found'[c] = found[c] \cup {<<d, b, a>> : a \in A}
                     /\ \A k \in Key : <<b, k>> \notin unread[c]
                  \/ r.ok = FALSE /\ failed'[c] = failed[c] \cup {d} /\ found' = found
  <2>1. CASE /\ \A k \in Key : <<b, k>> \notin unread[c]
             /\ failed' = failed
             /\ found' = [found EXCEPT ![c] = @ \cup {<<d, b, a>> : a \in A}]
             /\ \E cols \in ColumnsOf(query[c], b) :
                  read' = [read EXCEPT ![c] = @ \cup
                    {[branch |-> b, ok |-> TRUE, rows |-> {RowOf(query[c], cols, a) : a \in A}]}]
    <3>1. PICK cols \in ColumnsOf(query[c], b) :
             read' = [read EXCEPT ![c] = @ \cup
                     {[branch |-> b, ok |-> TRUE, rows |-> {RowOf(query[c], cols, a) : a \in A}]}]
      BY <2>1
    <3>2. found'[c] = found[c] \cup {<<d, b, a>> : a \in A}
      BY <2>1 DEF TypeInv
    <3> DEFINE s == [branch |-> b, ok |-> TRUE, rows |-> {RowOf(query[c], cols, a) : a \in A}]
    <3>3. s.branch = b /\ s.ok = TRUE
      OBVIOUS
    <3> HIDE DEF s
    <3>4. read'[c] = read[c] \cup {s}
      BY <3>1 DEF TypeInv, s
    <3> QED
      BY <2>1, <3>2, <3>3, <3>4
  <2>2. CASE /\ failed' = [failed EXCEPT ![c] = @ \cup {d}]
             /\ found' = found
             /\ read' = [read EXCEPT ![c] = @ \cup {[branch |-> b, ok |-> FALSE, rows |-> {}]}]
    <3> DEFINE s == [branch |-> b, ok |-> FALSE, rows |-> {}]
    <3>1. read'[c] = read[c] \cup {s} /\ failed'[c] = failed[c] \cup {d}
      BY <2>2 DEF TypeInv
    <3>2. s.branch = b /\ s.ok = FALSE
      OBVIOUS
    <3> HIDE DEF s
    <3> QED
      BY <2>2, <3>1, <3>2
  <2> QED
    BY <2>1, <2>2, GetResultsStep
<1>0. \A a : a \in A => <<b, a>> \in facts[d]
  BY <1>1, ShownArgs DEF CallOK
<1>8. (\A k \in Key : <<b, k>> \notin unread[c]) => ArgsOf(d, b, old[c]) \subseteq A
  BY <1>1, ShownArgs DEF CallOK
<1>9. b \in query[c].branches \ todo[c]
  BY <1>1 DEF CallOK, ControlOK
<1> HIDE DEF A
<1>4. ControlOK(c)'
  BY <1>1, <1>2, <1>3, <1>9 DEF CallOK, ControlOK, Returned
<1>5. FailuresOK(c)'
  BY <1>1, <1>2, <1>3 DEF CallOK, FailuresOK, Failing
<1>6. SeenOK(c)'
  <2>2. \A x \in found'[c] :
          /\ x[1] \notin left'[c] /\ <<x[2], x[3]>> \in facts'[x[1]]
          /\ x[1] = db'[c] => x[2] \notin todo'[c] \cup open'[c]
    <3> SUFFICES ASSUME NEW x \in found'[c]
                 PROVE  /\ x[1] \notin left[c] /\ <<x[2], x[3]>> \in facts[x[1]]
                        /\ x[1] = d => x[2] \notin todo[c] \cup open'[c]
      BY <1>1
    <3>1. CASE x \in found[c]
      BY <1>1, <1>2, <3>1 DEF CallOK, SeenOK
    <3>2. CASE x \notin found[c]
      <4>1. PICK a \in A : x = <<d, b, a>>
        BY <1>3, <3>2
      <4> QED
        BY <1>1, <1>2, <1>0, <1>9, <4>1
    <3> QED
      BY <3>1, <3>2
  <2>3. \A e \in query[c].dbs \ left[c], k \in query[c].branches :
          \/ e \in failed'[c]
          \/ e = d /\ k \in todo[c] \cup open'[c]
          \/ \A a \in ArgsOf(e, k, old[c]) : <<e, k, a>> \in found'[c]
    <3> SUFFICES ASSUME NEW e \in query[c].dbs \ left[c], NEW k \in query[c].branches,
                        e \notin failed'[c], ~ (e = d /\ k \in todo[c] \cup open'[c]),
                        NEW a \in ArgsOf(e, k, old[c])
                 PROVE  <<e, k, a>> \in found'[c]
      OBVIOUS
    <3>1. found[c] \subseteq found'[c] /\ failed[c] \subseteq failed'[c]
      BY <1>3
    <3>2. CASE e = d /\ k = b
      <4>1. found'[c] = found[c] \cup {<<d, b, x>> : x \in A} /\ a \in A
        BY <1>3, <1>8, <3>2
      <4> QED
        BY <3>2, <4>1
    <3>3. CASE ~ (e = d /\ k = b)
      BY <1>1, <1>2, <3>1, <3>3 DEF CallOK, SeenOK
    <3> QED
      BY <3>2, <3>3
  <2> QED
    BY <1>1, <1>2, <2>2, <2>3 DEF SeenOK
<1>7. ContextOK(c)'
  <2>1. \A j \in open'[c] : snap'[c][j] = snap[c][j]
    BY <1>1 DEF TypeInv
  <2>2. \A j \in open'[c] : snap'[c][j] \subseteq facts'[db'[c]]
    BY <1>1, <2>1 DEF CallOK, ContextOK
  <2>3. \A x \in unread'[c] : x[1] \in open'[c]
    BY <1>1 DEF CallOK, ContextOK
  <2>4. \A x \in shown'[c] : x[1] \in open'[c] /\ x[3] \in facts'[db'[c]]
    BY <1>1 DEF CallOK, ContextOK
  <2>5. ASSUME NEW j \in open'[c], NEW f \in old'[c][db'[c]], f[1] = j, NEW k \in Under[f]
        PROVE  <<j, k>> \in unread'[c] \/ <<j, k, f>> \in shown'[c]
    <3>1. <<j, k>> \in unread[c] \/ <<j, k, f>> \in shown[c]
      BY <1>1, <2>5 DEF CallOK, ContextOK
    <3>2. j # b /\ <<j, k>>[1] = j /\ <<j, k, f>>[1] = j
      BY <1>1
    <3> QED
      BY <1>1, <3>1, <3>2
  <2>6. \A x \in fill'[c] : x[1] \in open'[c]
    <3> SUFFICES ASSUME NEW x \in fill[c] PROVE x[1] \in open'[c]
      BY <1>1
    <3>1. x \in Branch \X Key
      BY DEF TypeInv
    <3>2. x[1] # b
      BY <1>1, <3>1
    <3> QED
      BY <1>1, <3>2 DEF CallOK, ContextOK
  <2> QED
    BY <2>2, <2>3, <2>4, <2>5, <2>6 DEF ContextOK
<1> QED
  BY <1>4, <1>5, <1>6, <1>7 DEF CallOK

\* The rows of a finished branch go to the call's results.
LEMMA AppendCall ==
    ASSUME TypeInv, NEW c \in Caller, CallOK(c), NEW b \in Branch, Append1(c, b)
    PROVE  CallOK(c)'
<1>1. PICK r \in read[c] : read'[c] = read[c] \ {r} /\ queryErr'[c] = (queryErr[c] \/ ~ r.ok)
  BY DEF Append1, TypeInv
<1>2. /\ UNCHANGED <<facts, pc, query, left, db, todo, tree, result, err, found, failed, old>>
      /\ UNCHANGED <<open, snap, unread, shown, fill>>
  BY DEF Append1, cacheVars
<1>3. pc[c] = "branches"
  BY <1>1 DEF CallOK, ControlOK
<1>4. ControlOK(c)'
  BY <1>1, <1>2, <1>3 DEF CallOK, ControlOK, Returned
<1>5. FailuresOK(c)'
  <2>1. Failing(c)' <=> Failing(c)
    BY <1>1, <1>2, <1>3 DEF Failing
  <2> QED
    BY <1>2, <2>1 DEF CallOK, FailuresOK
<1>6. SeenOK(c)'
  BY <1>2 DEF CallOK, SeenOK
<1>7. ContextOK(c)'
  BY <1>2, SameContext DEF CallOK, Context
<1> QED
  BY <1>4, <1>5, <1>6, <1>7 DEF CallOK

\* wg.Wait: the call goes on when all branches of the database are done.
LEMMA WaitCall ==
    ASSUME TypeInv, NEW c \in Caller, CallOK(c), Wait(c)
    PROVE  CallOK(c)'
<1>1. /\ pc[c] = "branches" /\ pc'[c] = "merge" /\ todo[c] = {} /\ open[c] = {} /\ read[c] = {}
      /\ UNCHANGED <<facts, query, left, db, todo, read, rows, queryErr, tree, err, found, failed,
                     old>>
      /\ UNCHANGED <<open, snap, unread, shown, fill>>
  BY DEF Wait, TypeInv, cacheVars
<1>2. /\ result'[c].errors = result[c].errors \cup (IF queryErr[c] THEN {db[c]} ELSE {})
      /\ result'[c].rows = result[c].rows
  BY DEF Wait, TypeInv
<1>3. ControlOK(c)'
  BY <1>1, <1>2 DEF CallOK, ControlOK, Returned
<1>4. FailuresOK(c)'
  BY <1>1, <1>2 DEF CallOK, FailuresOK, Failing
<1>5. SeenOK(c)'
  BY <1>1 DEF CallOK, SeenOK
<1>6. ContextOK(c)'
  BY <1>1, SameContext DEF CallOK, Context
<1> QED
  BY <1>3, <1>4, <1>5, <1>6 DEF CallOK

\* One row goes into the tree of rows, which drops it if it is there.
LEMMA MergeCall ==
    ASSUME TypeInv, NEW c \in Caller, CallOK(c), Merge(c)
    PROVE  CallOK(c)'
<1>1. /\ pc[c] = "merge"
      /\ UNCHANGED <<facts, pc, query, left, db, todo, read, queryErr, result, err, found, failed,
                     old>>
      /\ UNCHANGED <<open, snap, unread, shown, fill>>
  BY DEF Merge, cacheVars
<1>2. ControlOK(c)'
  BY <1>1 DEF CallOK, ControlOK, Returned
<1>3. FailuresOK(c)'
  BY <1>1 DEF CallOK, FailuresOK, Failing
<1>4. SeenOK(c)'
  BY <1>1 DEF CallOK, SeenOK
<1>5. ContextOK(c)'
  BY <1>1, SameContext DEF CallOK, Context
<1> QED
  BY <1>2, <1>3, <1>4, <1>5 DEF CallOK

\* The tree of rows is emptied into the result.
LEMMA DrainCall ==
    ASSUME TypeInv, NEW c \in Caller, CallOK(c), Drain(c)
    PROVE  CallOK(c)'
<1>1. /\ pc[c] = "merge" /\ pc'[c] = IF query[c].insert THEN "insert" ELSE "databases"
      /\ rows[c] = {}
      /\ UNCHANGED <<facts, query, left, db, todo, read, rows, queryErr, err, found, failed, old>>
      /\ UNCHANGED <<open, snap, unread, shown, fill>>
  BY DEF Drain, TypeInv, cacheVars
<1>2. /\ result'[c].errors = result[c].errors
      /\ query[c].insert => result'[c].rows = result[c].rows
      /\ ~ query[c].count => tree'[c] = << >>
  <2>1. CASE query[c].count
    BY <2>1 DEF Drain, TypeInv
  <2>2. CASE ~ query[c].count
    <3> DEFINE drained == [i \in 1..Len(tree[c]) |-> MapOf(query[c], tree[c][Len(tree[c]) + 1 - i])]
    <3>1. result' = [result EXCEPT
                       ![c].rows = IF query[c].insert THEN @ ELSE @ \o drained,
                       ![c].count = @ + Len(tree[c])]
      BY <2>2 DEF Drain
    <3>2. tree' = [tree EXCEPT ![c] = << >>]
      BY <2>2 DEF Drain
    <3> HIDE DEF drained
    <3>3. result'[c].errors = result[c].errors
      BY <3>1 DEF TypeInv
    <3>4. query[c].insert => result'[c].rows = result[c].rows
      BY <3>1 DEF TypeInv
    <3> QED
      BY <2>2, <3>2, <3>3, <3>4 DEF TypeInv
  <2> QED
    BY <2>1, <2>2
<1>3. ControlOK(c)'
  BY <1>1, <1>2 DEF CallOK, ControlOK, Returned
<1>4. FailuresOK(c)'
  BY <1>1, <1>2 DEF CallOK, FailuresOK, Failing
<1>5. SeenOK(c)'
  BY <1>1 DEF CallOK, SeenOK
<1>6. ContextOK(c)'
  BY <1>1, SameContext DEF CallOK, Context
<1> QED
  BY <1>3, <1>4, <1>5, <1>6 DEF CallOK

\* The end of a turn of the loop over the databases, or of the loop.
LEMMA InsertCall ==
    ASSUME TypeInv, NEW c \in Caller, CallOK(c),
           HandleInsert(c) \/ Commit(c) \/ InsertFails(c) \/ Return(c)
    PROVE  CallOK(c)'
<1>1. /\ pc[c] \in {"insert", "commit", "databases"}
      /\ \/ pc'[c] = "commit" /\ pc[c] = "insert"
         \/ pc'[c] = "databases"
         \/ pc'[c] = "returned" /\ (err'[c] = TRUE \/ left[c] = {})
      /\ UNCHANGED <<query, left, db, todo, read, rows, queryErr, tree, result, found, failed, old>>
      /\ UNCHANGED <<open, snap, unread, shown, fill>>
  <2>1. CASE HandleInsert(c)
    BY <2>1 DEF HandleInsert, TypeInv
  <2>2. CASE Commit(c)
    BY <2>2 DEF Commit, TypeInv, cacheVars
  <2>3. CASE InsertFails(c)
    BY <2>3 DEF InsertFails, TypeInv
  <2>4. CASE Return(c)
    BY <2>4 DEF Return, TypeInv, cacheVars
  <2> QED
    BY <2>1, <2>2, <2>3, <2>4
<1>2. \A d \in DB : facts[d] \subseteq facts'[d]
  BY FactsGrow DEF CallOK, CStep, Step
<1>3. ControlOK(c)'
  BY <1>1 DEF CallOK, ControlOK, Returned
<1>4. FailuresOK(c)'
  BY <1>1 DEF CallOK, FailuresOK, Failing
<1>5. SeenOK(c)'
  <2>1. \A x \in found[c] : x[1] \in DB
    BY DEF TypeInv
  <2> QED
    BY <1>1, <1>2, <2>1 DEF CallOK, SeenOK
<1>6. ContextOK(c)'
  <2>1. open[c] = {}
    BY <1>1 DEF CallOK, ControlOK
  <2> QED
    BY <1>1, <2>1, SameContext DEF CallOK, Context
<1> QED
  BY <1>3, <1>4, <1>5, <1>6 DEF CallOK

\* What is kept stays so: later snapshots have it, and entries are filled from snapshots.
LEMMA KeptStays ==
    ASSUME NEW d, NEW f, Kept(d, f), facts[d] \subseteq facts'[d],
           \A u \in Caller : db'[u] = d => \A b \in open'[u] :
              \/ db[u] = d /\ b \in open[u] /\ snap'[u][b] = snap[u][b]
              \/ snap'[u][b] = facts[d],
           \A k \in DOMAIN cache'[d] :
              \/ k \in DOMAIN cache[d] /\ cache'[d][k] = cache[d][k]
              \/ \E u \in Caller : db[u] = d /\ \E b \in open[u] :
                    cache'[d][k] = EntryOf(snap[u][b], k)
    PROVE  Kept(d, f)'
<1>1. f \in facts[d] /\ f \in facts'[d]
  BY DEF Kept
<1>2. ASSUME NEW u \in Caller, db'[u] = d, NEW b \in open'[u]
      PROVE  f \in snap'[u][b]
  <2>1. CASE snap'[u][b] = facts[d]
    BY <1>1, <2>1
  <2>2. CASE db[u] = d /\ b \in open[u] /\ snap'[u][b] = snap[u][b]
    BY <2>2 DEF Kept
  <2> QED
    BY <1>2, <2>1, <2>2
<1>3. ASSUME NEW k \in Under[f], k \in DOMAIN cache'[d]
      PROVE  f \in cache'[d][k]
  <2>1. CASE k \in DOMAIN cache[d] /\ cache'[d][k] = cache[d][k]
    BY <2>1 DEF Kept
  <2>2. ASSUME NEW u \in Caller, db[u] = d, NEW b \in open[u],
               cache'[d][k] = EntryOf(snap[u][b], k)
        PROVE  f \in cache'[d][k]
    BY <2>2 DEF Kept, EntryOf
  <2> QED
    BY <1>3, <2>1, <2>2
<1> QED
  BY <1>1, <1>2, <1>3 DEF Kept

\* Steps that leave entries and contexts alone, but for the contexts they close.
LEMMA KeptQuiet ==
    ASSUME NEW d, NEW f, Kept(d, f), facts[d] \subseteq facts'[d], cache' = cache,
           \A u \in Caller :
              /\ open'[u] \subseteq open[u]
              /\ open'[u] # {} => db'[u] = db[u]
              /\ \A b \in open'[u] : snap'[u][b] = snap[u][b]
    PROVE  Kept(d, f)'
<1>1. f \in facts'[d]
  BY DEF Kept
<1>2. \A u \in Caller : db'[u] = d => \A b \in open'[u] : f \in snap'[u][b]
  BY DEF Kept
<1>3. \A k \in Under[f] : k \in DOMAIN cache'[d] => f \in cache'[d][k]
  BY DEF Kept
<1> QED
  BY <1>1, <1>2, <1>3 DEF Kept

LEMMA KeptNext ==
    ASSUME TypeInv, NEW c \in Caller, CallOK(c), CStep(c), NEW d \in DB, NEW f, Kept(d, f)
    PROVE  Kept(d, f)'
<1>1. facts[d] \subseteq facts'[d]
  BY FactsGrow DEF CallOK
<1>2. CASE UNCHANGED <<cache, open, snap, db>>
  BY <1>1, <1>2, KeptQuiet
<1>3. CASE runQuery(c)
  <2>1. open[c] = {} /\ \A u \in Caller : u # c => db'[u] = db[u]
    BY <1>3 DEF runQuery, CallOK, ControlOK, TypeInv
  <2>2. UNCHANGED <<cache, open, snap>>
    BY <1>3 DEF runQuery, cacheVars
  <2> QED
    BY <1>1, <2>1, <2>2, KeptQuiet
<1>4. ASSUME NEW b \in Branch, Snapshot(c, b)
      PROVE  Kept(d, f)'
  <2>1. cache' = cache /\ db' = db /\ facts' = facts
    BY <1>4 DEF Snapshot
  <2>2. open' = [open EXCEPT ![c] = @ \cup {b}] /\ snap' = [snap EXCEPT ![c][b] = facts[db[c]]]
    BY <1>4 DEF Snapshot
  <2>3. open'[c] = open[c] \cup {b} /\ \A u \in Caller : u # c => open'[u] = open[u]
    BY <2>2 DEF TypeInv
  <2>4. /\ snap'[c][b] = facts[db[c]]
        /\ \A j : j # b => snap'[c][j] = snap[c][j]
        /\ \A u \in Caller : u # c => snap'[u] = snap[u]
    BY <2>2 DEF TypeInv
  <2>5. \A u \in Caller : db'[u] = d => \A j \in open'[u] :
              \/ db[u] = d /\ j \in open[u] /\ snap'[u][j] = snap[u][j]
              \/ snap'[u][j] = facts[d]
    BY <2>1, <2>3, <2>4
  <2> QED
    BY <1>1, <2>1, <2>5, KeptStays
<1>5. ASSUME NEW b \in Branch, NEW k \in Key, Fill(c, b, k)
      PROVE  Kept(d, f)'
  <2>1. UNCHANGED <<facts, open, snap, db>>
    BY <1>5 DEF Fill, callVars
  <2>2. b \in open[c]
    <3>1. <<b, k>>[1] = b
      OBVIOUS
    <3> QED
      BY <1>5, <3>1 DEF Fill, CallOK, ContextOK
  <2>3. cache' = [cache EXCEPT ![db[c]] = WithEntry(@, k, EntryOf(snap[c][b], k))]
    BY <1>5 DEF Fill
  <2>4. CASE d = db[c]
    <3>1. cache'[d] = WithEntry(cache[d], k, EntryOf(snap[c][b], k))
      BY <2>3, <2>4 DEF TypeInv
    <3>2. \A j \in DOMAIN cache'[d] :
             \/ j \in DOMAIN cache[d] /\ cache'[d][j] = cache[d][j]
             \/ cache'[d][j] = EntryOf(snap[c][b], j)
      BY <3>1 DEF WithEntry
    <3> QED
      BY <1>1, <2>1, <2>2, <2>4, <3>2, KeptStays
  <2>5. CASE d # db[c]
    <3>1. cache'[d] = cache[d]
      BY <2>3, <2>5 DEF TypeInv
    <3> QED
      BY <1>1, <2>1, <3>1, KeptStays
  <2> QED
    BY <2>4, <2>5
<1>6. ASSUME NEW b \in Branch, GetResults(c, b)
      PROVE  Kept(d, f)'
  <2>1. cache' = cache /\ db' = db
    BY <1>6 DEF GetResults
  <2>2. open' = [open EXCEPT ![c] = @ \ {b}] /\ snap' = [snap EXCEPT ![c][b] = {}]
    BY <1>6 DEF GetResults
  <2>3. open'[c] = open[c] \ {b} /\ \A u \in Caller : u # c => open'[u] = open[u]
    BY <2>2 DEF TypeInv
  <2>4. /\ \A j : j # b => snap'[c][j] = snap[c][j]
        /\ \A u \in Caller : u # c => snap'[u] = snap[u]
    BY <2>2 DEF TypeInv
  <2> QED
    BY <1>1, <2>1, <2>3, <2>4, KeptQuiet
<1>7. ASSUME NEW b \in Branch, NEW k \in Key, Lookup(c, b, k)
      PROVE  UNCHANGED <<cache, open, snap, db>>
  BY <1>7 DEF Lookup, callVars
<1>8. ASSUME \/ RunQuery(c) \/ Wait(c) \/ Merge(c) \/ Drain(c) \/ HandleInsert(c) \/ Commit(c)
             \/ InsertFails(c) \/ Return(c) \/ \E b \in Branch : Append1(c, b)
      PROVE  UNCHANGED <<cache, open, snap, db>>
  BY <1>8 DEF RunQuery, Wait, Merge, Drain, HandleInsert, Commit, InsertFails, Return, Append1, cacheVars
<1> QED
  BY <1>2, <1>3, <1>4, <1>5, <1>6, <1>7, <1>8 DEF CStep, Step, BranchStep

\* The evictor takes entries away.
LEMMA KeptEvict ==
    ASSUME TypeInv, NEW e \in DB, Evict(e), NEW d \in DB, NEW f, Kept(d, f)
    PROVE  Kept(d, f)'
<1>1. UNCHANGED <<facts, open, snap, db>>
  BY DEF Evict, callVars
<1>2. PICK x \in pendingEvict[e] : cache' = [cache EXCEPT ![e] = Restrict(@, DOMAIN @ \ {x[2]})]
  BY DEF Evict
<1>3. \A k \in DOMAIN cache'[d] : k \in DOMAIN cache[d] /\ cache'[d][k] = cache[d][k]
  BY <1>2 DEF TypeInv, Restrict
<1> QED
  BY <1>1, <1>3, KeptStays

\* Where an insert is does not change with what others do.
SameEvicting(u) == \A d \in DB : Evicting(u, d)' = Evicting(u, d)

\* What a call is sure of, when nothing that matters to it moves.
LEMMA SureStays ==
    ASSUME TypeInv, NEW u \in Caller, SureOK(u), SameEvicting(u), sure'[u] \subseteq sure[u],
           \A d \in DB, f \in Fact : Kept(d, f) => Kept(d, f)',
           \A d \in DB : facts[d] \subseteq facts'[d],
           \A d \in DB : pendingEvict[d] \subseteq pendingEvict'[d],
           \A x \in sure'[u] : OnceOK(u, x[1])',
           pc'[u] = "commit" => UNCHANGED <<pc[u], db[u], query[u], result[u]>>,
           pc[u] = "commit" => \A x \in sure'[u] : x[1] = db[u] => pc'[u] = "commit",
           \A x \in sure'[u] : Evicting(u, x[1]) /\ NoContext(x[1]) =>
              NoContext(x[1])' /\ DOMAIN cache'[x[1]] \subseteq DOMAIN cache[x[1]]
    PROVE  SureOK(u)'
<1> SUFFICES ASSUME NEW x \in sure'[u]
             PROVE  SettlesOK(u, x[1], x[2])'
  BY DEF SureOK
<1>1. x \in sure[u] /\ x[1] \in DB /\ x[2] \in Fact
  BY DEF TypeInv
<1>2. CASE Evicting(u, x[1])
  <2>1. Dropped(u, x[1], x[2])
    BY <1>1, <1>2 DEF SureOK, SettlesOK
  <2>2. NoContext(x[1])' /\ DOMAIN cache'[x[1]] \subseteq DOMAIN cache[x[1]]
    BY <1>2, <2>1 DEF Dropped
  <2>3. IF pc'[u] = "commit" /\ db'[u] = x[1] THEN x[2] \in Added(u)' ELSE x[2] \in facts'[x[1]]
    <3>1. CASE pc[u] = "commit" /\ db[u] = x[1]
      BY <2>1, <3>1 DEF Dropped, Added
    <3>2. CASE ~ (pc[u] = "commit" /\ db[u] = x[1])
      BY <1>1, <2>1, <3>2 DEF Dropped
    <3> QED
      BY <3>1, <3>2
  <2>4. \A k \in Under[x[2]] : k \in DOMAIN cache'[x[1]] => <<u, k>> \in pendingEvict'[x[1]]
    BY <1>1, <2>1, <2>2 DEF Dropped
  <2>5. Evicting(u, x[1])' /\ Dropped(u, x[1], x[2])'
    BY <1>1, <1>2, <2>2, <2>3, <2>4 DEF Dropped, SameEvicting
  <2> QED
    BY <2>5 DEF SettlesOK
<1>3. CASE ~ Evicting(u, x[1])
  BY <1>1, <1>3 DEF SureOK, SettlesOK, SameEvicting
<1> QED
  BY <1>2, <1>3

\* Contexts are opened by Snapshot alone, and entries are added by those who have one.
LEMMA NoContextNext ==
    ASSUME TypeInv, NEW c \in Caller, CallOK(c), CStep(c), NEW d \in DB, NoContext(d)
    PROVE  /\ NoContext(d)' \/ (d = db[c] /\ \E b \in Branch : Snapshot(c, b))
           /\ DOMAIN cache'[d] \subseteq DOMAIN cache[d]
<1>1. CASE UNCHANGED <<cache, open, db>>
  BY <1>1 DEF NoContext
<1>2. CASE runQuery(c)
  <2>1. open[c] = {} /\ \A u \in Caller : u # c => db'[u] = db[u]
    BY <1>2 DEF runQuery, CallOK, ControlOK, TypeInv
  <2>2. UNCHANGED <<cache, open>>
    BY <1>2 DEF runQuery, cacheVars
  <2> QED
    BY <2>1, <2>2 DEF NoContext
<1>3. ASSUME NEW b \in Branch, Snapshot(c, b)
      PROVE  /\ cache' = cache /\ db' = db
             /\ \A u \in Caller : u # c => open'[u] = open[u]
  BY <1>3 DEF Snapshot, TypeInv
<1>4. CASE \E b \in Branch : Snapshot(c, b)
  BY <1>3, <1>4 DEF NoContext
<1>5. ASSUME NEW b \in Branch, NEW k \in Key, Fill(c, b, k)
      PROVE  NoContext(d)' /\ DOMAIN cache'[d] \subseteq DOMAIN cache[d]
  <2>1. b \in open[c]
    <3>1. <<b, k>>[1] = b
      OBVIOUS
    <3> QED
      BY <1>5, <3>1 DEF Fill, CallOK, ContextOK
  <2>2. d # db[c]
    BY <2>1 DEF NoContext
  <2>3. UNCHANGED <<open, db>> /\ cache'[d] = cache[d]
    BY <1>5, <2>2 DEF Fill, TypeInv, callVars
  <2> QED
    BY <2>3 DEF NoContext
<1>6. ASSUME NEW b \in Branch, GetResults(c, b)
      PROVE  NoContext(d)' /\ cache' = cache
  <2>1. /\ db' = db /\ cache' = cache
        /\ open'[c] = open[c] \ {b} /\ \A u \in Caller : u # c => open'[u] = open[u]
    BY <1>6 DEF GetResults, TypeInv
  <2> QED
    BY <2>1 DEF NoContext
<1>7. ASSUME NEW b \in Branch, NEW k \in Key, Lookup(c, b, k)
      PROVE  UNCHANGED <<cache, open, db>>
  BY <1>7 DEF Lookup, callVars
<1>8. ASSUME \/ RunQuery(c) \/ Wait(c) \/ Merge(c) \/ Drain(c) \/ HandleInsert(c) \/ Commit(c)
             \/ InsertFails(c) \/ Return(c) \/ \E b \in Branch : Append1(c, b)
      PROVE  UNCHANGED <<cache, open, db>>
  BY <1>8 DEF RunQuery, Wait, Merge, Drain, HandleInsert, Commit, InsertFails, Return, Append1, cacheVars
<1> QED
  BY <1>1, <1>2, <1>4, <1>5, <1>6, <1>7, <1>8 DEF CStep, Step, BranchStep

\* A call comes to a database once.
LEMMA OnceNext ==
    ASSUME TypeInv, NEW c \in Caller, CallOK(c), CStep(c), NEW d, OnceOK(c, d)
    PROVE  OnceOK(c, d)'
<1>1. pc[c] # "idle" /\ d \notin left[c] /\ ~ RunQuery(c)
  BY DEF OnceOK, RunQuery
<1>2. CASE runQuery(c)
  <2>1. PICK e \in left[c] : left'[c] = left[c] \ {e} /\ db'[c] = e /\ pc'[c] = "branches"
    BY <1>2 DEF runQuery, TypeInv
  <2> QED
    BY <1>1, <2>1 DEF OnceOK
<1>3. ASSUME \E b \in Branch : \/ Snapshot(c, b) \/ GetResults(c, b) \/ Append1(c, b)
                                \/ \E k \in Key : Lookup(c, b, k) \/ Fill(c, b, k)
      PROVE  UNCHANGED <<pc, left, db>>
  BY <1>3 DEF Snapshot, Lookup, Fill, GetResults, Append1, callVars
<1>4. ASSUME Wait(c) \/ Merge(c) \/ Drain(c)
      PROVE  /\ UNCHANGED <<left, db>> /\ pc[c] \in {"branches", "merge"}
             /\ pc'[c] \in {"merge", "insert", "databases"}
  BY <1>4 DEF Wait, Merge, Drain, TypeInv
<1>5. ASSUME HandleInsert(c) \/ Commit(c) \/ InsertFails(c) \/ Return(c)
      PROVE  UNCHANGED <<left, db>> /\ pc'[c] \in {"commit", "databases", "returned"}
  BY <1>5 DEF HandleInsert, Commit, InsertFails, Return, TypeInv
<1>6. CASE Wait(c) \/ Merge(c) \/ Drain(c)
  BY <1>1, <1>4, <1>6 DEF OnceOK
<1>7. CASE HandleInsert(c) \/ Commit(c) \/ InsertFails(c) \/ Return(c)
  BY <1>1, <1>5, <1>7 DEF OnceOK
<1>8. CASE UNCHANGED <<pc, left, db>>
  BY <1>8 DEF OnceOK
<1> QED
  BY <1>1, <1>2, <1>3, <1>6, <1>7, <1>8 DEF CStep, Step, BranchStep

\* The entries others have on their way to the evictor, and what they are sure of, do not change
\* with a call's step, but for what a snapshot makes unsure.
LEMMA OthersSure ==
    ASSUME TypeInv, NEW c \in Caller, CStep(c), NEW u \in Caller, u # c
    PROVE  /\ SameEvicting(u)
           /\ sure'[u] \subseteq sure[u]
           /\ \A b \in Branch : Snapshot(c, b) =>
                \A x \in sure'[u] : Evicting(u, x[1]) => x[1] # db[c]
<1>1. UNCHANGED <<pc[u], db[u]>>
  BY OthersStay DEF Call
<1>2. CASE UNCHANGED <<pendingEvict, sure>> /\ \A b \in Branch : ~ Snapshot(c, b)
  BY <1>1, <1>2 DEF SameEvicting, Evicting
<1>3. ASSUME NEW b \in Branch, Snapshot(c, b)
      PROVE  /\ pendingEvict' = pendingEvict
             /\ sure'[u] \subseteq sure[u]
             /\ \A x \in sure'[u] : Evicting(u, x[1]) => x[1] # db[c]
  <2>1. pendingEvict' = pendingEvict
        /\ sure'[u] = IF Evicting(u, db[c]) THEN {x \in sure[u] : x[1] # db[c]} ELSE sure[u]
    BY <1>3 DEF Snapshot
  <2> QED
    BY <2>1
<1>4. CASE \E b \in Branch : Snapshot(c, b)
  BY <1>1, <1>3, <1>4 DEF SameEvicting, Evicting
<1>5. CASE HandleInsert(c) /\ \A b \in Branch : ~ Snapshot(c, b)
  <2>1. sure'[u] = sure[u]
    BY <1>5 DEF HandleInsert, TypeInv
  <2>2. \A d \in DB : \A x : x \in pendingEvict'[d] /\ x \notin pendingEvict[d] => x[1] = c
    BY <1>5 DEF HandleInsert, Evictions, TypeInv
  <2>3. \A d \in DB : pendingEvict[d] \subseteq pendingEvict'[d]
    BY <1>5 DEF HandleInsert, TypeInv
  <2> QED
    BY <1>1, <1>5, <2>1, <2>2, <2>3 DEF SameEvicting, Evicting
<1>6. CASE InsertFails(c) /\ \A b \in Branch : ~ Snapshot(c, b)
  <2>1. pendingEvict' = pendingEvict /\ sure'[u] = sure[u]
    BY <1>6 DEF InsertFails, TypeInv
  <2> QED
    BY <1>1, <1>6, <2>1 DEF SameEvicting, Evicting
<1>7. ASSUME NEW b \in Branch, \/ GetResults(c, b) \/ Append1(c, b)
                              \/ \E k \in Key : Lookup(c, b, k) \/ Fill(c, b, k)
      PROVE  UNCHANGED <<pendingEvict, sure>>
  BY <1>7 DEF GetResults, Append1, Lookup, Fill, cacheVars
<1>8. ASSUME RunQuery(c) \/ runQuery(c) \/ Wait(c) \/ Merge(c) \/ Drain(c) \/ Commit(c) \/ Return(c)
      PROVE  UNCHANGED <<pendingEvict, sure>>
  BY <1>8 DEF RunQuery, runQuery, Wait, Merge, Drain, Commit, Return, cacheVars
<1> QED
  BY <1>2, <1>4, <1>5, <1>6, <1>7, <1>8 DEF CStep, Step, BranchStep

\* So what the others are sure of stays.
LEMMA OthersSureNext ==
    ASSUME TypeInv, NEW c \in Caller, CallOK(c), CStep(c), NEW u \in Caller, u # c, SureOK(u)
    PROVE  SureOK(u)'
<1>1. /\ \A d \in DB, f \in Fact : Kept(d, f) => Kept(d, f)'
      /\ \A d \in DB : facts[d] \subseteq facts'[d]
  BY KeptNext, FactsGrow DEF CallOK
<1>2. /\ SameEvicting(u) /\ sure'[u] \subseteq sure[u]
      /\ UNCHANGED <<pc[u], left[u], db[u], query[u], result[u]>>
  BY OthersSure, OthersStay DEF Call
<1>3. \A x \in sure'[u] : OnceOK(u, x[1])'
  BY <1>2 DEF SureOK, OnceOK
<1>4. \A d \in DB : pendingEvict[d] \subseteq pendingEvict'[d]
  <2>1. CASE HandleInsert(c)
    BY <2>1 DEF HandleInsert, TypeInv
  <2>2. CASE ~ HandleInsert(c)
    BY <2>2 DEF CStep, Step, BranchStep, RunQuery, runQuery, Wait, Merge, Drain, Commit, InsertFails,
                Return, Snapshot, Lookup, Fill, GetResults, Append1, cacheVars
  <2> QED
    BY <2>1, <2>2
<1>5. ASSUME NEW x \in sure'[u], Evicting(u, x[1]), NoContext(x[1])
      PROVE  NoContext(x[1])' /\ DOMAIN cache'[x[1]] \subseteq DOMAIN cache[x[1]]
  <2>1. x[1] \in DB
    BY <1>2 DEF TypeInv
  <2> QED
    BY <1>5, <2>1, NoContextNext, OthersSure
<1> QED
  BY <1>1, <1>2, <1>3, <1>4, <1>5, SureStays

\* What a call is sure of stays while it does not insert.
LEMMA OwnSureNext ==
    ASSUME TypeInv, NEW c \in Caller, CallOK(c), CStep(c), SureOK(c),
           ~ HandleInsert(c), ~ Commit(c), ~ InsertFails(c)
    PROVE  SureOK(c)'
<1>1. /\ \A d \in DB, f \in Fact : Kept(d, f) => Kept(d, f)'
      /\ \A d \in DB : facts[d] \subseteq facts'[d]
  BY KeptNext, FactsGrow DEF CallOK
<1>2. /\ pendingEvict' = pendingEvict /\ pc[c] # "commit" /\ pc'[c] # "commit"
      /\ sure'[c] \subseteq sure[c]
      /\ \A b \in Branch : Snapshot(c, b) =>
           \A x \in sure'[c] : Evicting(c, x[1]) => x[1] # db[c]
  <2>1. ASSUME NEW b \in Branch, Snapshot(c, b)
        PROVE  <1>2
    <3>1. pendingEvict' = pendingEvict /\ pc[c] = "branches" /\ pc' = pc
      BY <2>1 DEF Snapshot, CallOK, ControlOK
    <3>2. sure'[c] = IF Evicting(c, db[c]) THEN {x \in sure[c] : x[1] # db[c]} ELSE sure[c]
      BY <2>1 DEF Snapshot
    <3> QED
      BY <3>1, <3>2
  <2>2. ASSUME \E b \in Branch : \/ GetResults(c, b) \/ Append1(c, b)
                                \/ \E k \in Key : Lookup(c, b, k) \/ Fill(c, b, k)
        PROVE  UNCHANGED <<pendingEvict, sure, pc>> /\ pc[c] = "branches"
    <3>1. UNCHANGED <<pendingEvict, sure, pc>>
      BY <2>2 DEF GetResults, Append1, Lookup, Fill, cacheVars, callVars
    <3>2. ASSUME NEW b \in Branch, GetResults(c, b) \/ Append1(c, b)
          PROVE  pc[c] = "branches"
      BY <3>2 DEF GetResults, Append1, CallOK, ControlOK
    <3>3. ASSUME NEW b \in Branch, NEW k \in Key, Lookup(c, b, k) \/ Fill(c, b, k)
          PROVE  pc[c] = "branches"
      <4>1. <<b, k>>[1] = b
        OBVIOUS
      <4>2. b \in open[c]
        BY <3>3, <4>1 DEF Lookup, Fill, CallOK, ContextOK
      <4> QED
        BY <4>2 DEF CallOK, ControlOK
    <3> QED
      BY <2>2, <3>1, <3>2, <3>3
  <2>3. ASSUME RunQuery(c) \/ runQuery(c) \/ Wait(c) \/ Merge(c) \/ Drain(c) \/ Return(c)
        PROVE  UNCHANGED <<pendingEvict, sure>> /\ pc[c] # "commit" /\ pc'[c] # "commit"
    BY <2>3 DEF RunQuery, runQuery, Wait, Merge, Drain, Return, TypeInv, cacheVars
  <2>4. CASE \E b \in Branch : Snapshot(c, b)
    BY <2>1, <2>4
  <2>5. CASE ~ \E b \in Branch : Snapshot(c, b)
    BY <2>2, <2>3, <2>5 DEF CStep, Step, BranchStep
  <2> QED
    BY <2>4, <2>5
<1>3. SameEvicting(c)
  BY <1>2 DEF SameEvicting, Evicting
<1>4. \A x \in sure'[c] : OnceOK(c, x[1])'
  BY <1>2, OnceNext DEF SureOK
<1>5. ASSUME NEW x \in sure'[c], Evicting(c, x[1]), NoContext(x[1])
      PROVE  NoContext(x[1])' /\ DOMAIN cache'[x[1]] \subseteq DOMAIN cache[x[1]]
  <2>1. x[1] \in DB
    BY <1>2 DEF TypeInv
  <2> QED
    BY <1>2, <1>5, <2>1, NoContextNext
<1> QED
  BY <1>1, <1>2, <1>3, <1>4, <1>5, SureStays

\* An insert opens its transaction: no query has a context, and every entry of its facts is on
\* its way to the evictor.
LEMMA HandleInsertSure ==
    ASSUME TypeInv, NEW c \in Caller, CallOK(c), HandleInsert(c), SureOK(c)
    PROVE  SureOK(c)'
<1> DEFINE d == db[c]
<1>1. /\ pc[c] = "insert" /\ pc'[c] = "commit" /\ d \in DB
      /\ UNCHANGED <<facts, cache, open, snap, left, db, query, result>>
  BY DEF HandleInsert, TypeInv, CallOK, ControlOK
<1>2. /\ pendingEvict'[d] = pendingEvict[d] \cup Evictions(c)
      /\ \A e : e # d => pendingEvict'[e] = pendingEvict[e]
  BY <1>1 DEF HandleInsert, TypeInv
<1>3. \A x \in sure'[c] : x \in sure[c] \/ (NoContext(d) /\ x \in {<<d, f>> : f \in Covered(c)})
  BY DEF HandleInsert, TypeInv
<1>4. ASSUME NEW x \in sure[c]
      PROVE  OnceOK(c, x[1])' /\ SettlesOK(c, x[1], x[2])'
  <2>1. OnceOK(c, x[1])'
    BY OnceNext DEF SureOK, CStep, Step
  <2>2. x[1] # d
    BY <1>1 DEF SureOK, OnceOK
  <2>3. Evicting(c, x[1])' <=> Evicting(c, x[1])
    BY <1>1, <1>2, <2>2 DEF Evicting
  <2>4. Dropped(c, x[1], x[2]) => Dropped(c, x[1], x[2])'
    BY <1>1, <1>2, <2>2 DEF Dropped, NoContext
  <2>5. Kept(x[1], x[2]) => Kept(x[1], x[2])'
    BY <1>1 DEF Kept
  <2> QED
    BY <2>1, <2>3, <2>4, <2>5 DEF SureOK, SettlesOK
<1>5. ASSUME NoContext(d), NEW e, e = d, NEW f, f \in Covered(c)
      PROVE  OnceOK(c, e)' /\ SettlesOK(c, e, f)'
  <2>1. f \in Added(c) /\ Under[f] \subseteq UNION {Own[g] : g \in Added(c)}
    BY <1>5 DEF Covered
  <2>2. \A k \in Under[f] : <<c, k>> \in pendingEvict'[e]
    BY <1>2, <1>5, <2>1 DEF Evictions
  <2>3. Evicting(c, e)'
    BY <1>1, <1>5 DEF Evicting
  <2>4. Added(c)' = Added(c)
    BY <1>1 DEF Added
  <2>5. Dropped(c, e, f)'
    BY <1>1, <1>5, <2>1, <2>2, <2>4 DEF Dropped, NoContext
  <2>6. OnceOK(c, e)'
    BY <1>1, <1>5 DEF OnceOK, CallOK, ControlOK
  <2> QED
    BY <2>3, <2>5, <2>6 DEF SettlesOK
<1>6. ASSUME NEW x \in sure'[c]
      PROVE  OnceOK(c, x[1])' /\ SettlesOK(c, x[1], x[2])'
  <2>1. CASE x \in sure[c]
    BY <1>4, <2>1
  <2>2. CASE x \notin sure[c]
    <3>1. NoContext(d) /\ x \in {<<d, f>> : f \in Covered(c)}
      BY <1>3, <1>6, <2>2
    <3>2. x[1] = d /\ x[2] \in Covered(c)
      BY <3>1
    <3> QED
      BY <1>5, <3>1, <3>2
  <2> QED
    BY <2>1, <2>2
<1> QED
  BY <1>6 DEF SureOK

\* The insert commits, or fails: its facts are kept, once its entries are evicted.
LEMMA CommitSure ==
    ASSUME TypeInv, NEW c \in Caller, CallOK(c), Commit(c) \/ InsertFails(c), SureOK(c)
    PROVE  SureOK(c)'
<1> DEFINE d == db[c]
<1>1. /\ pc[c] \in {"insert", "commit"} /\ pc'[c] \in {"databases", "returned"} /\ d \in DB
      /\ UNCHANGED <<cache, pendingEvict, open, snap, left, db, query, result>>
  BY DEF Commit, InsertFails, TypeInv, CallOK, ControlOK, cacheVars
<1>2. \/ sure' = sure /\ facts' = [facts EXCEPT ![d] = @ \cup Added(c)]
      \/ sure'[c] = {x \in sure[c] : x[1] # d} /\ facts' = facts
      \/ pc[c] = "insert" /\ sure' = sure /\ facts' = facts
  BY DEF Commit, InsertFails, TypeInv, cacheVars
<1>3. sure'[c] \subseteq sure[c] /\ \A e \in DB : facts[e] \subseteq facts'[e]
  BY <1>1, <1>2 DEF TypeInv
<1>4. ASSUME NEW x \in sure'[c]
      PROVE  OnceOK(c, x[1])' /\ SettlesOK(c, x[1], x[2])'
  <2>1. x \in sure[c] /\ x[1] \in DB
    BY <1>3 DEF TypeInv
  <2>2. OnceOK(c, x[1])'
    BY <2>1, OnceNext DEF SureOK, CStep, Step
  <2>3. Evicting(c, x[1])' <=> \E y \in pendingEvict[x[1]] : y[1] = c
    BY <1>1 DEF Evicting
  <2>4. CASE Evicting(c, x[1])
    <3>1. Dropped(c, x[1], x[2])
      BY <2>1, <2>4 DEF SureOK, SettlesOK
    <3>2. x[2] \in facts'[x[1]]
      <4>1. CASE pc[c] = "commit" /\ x[1] = d
        <5>1. x[2] \in Added(c)
          BY <3>1, <4>1 DEF Dropped
        <5>2. facts' = [facts EXCEPT ![d] = @ \cup Added(c)]
          BY <1>2, <4>1
        <5> QED
          BY <1>1, <4>1, <5>1, <5>2 DEF TypeInv
      <4>2. CASE ~ (pc[c] = "commit" /\ x[1] = d)
        BY <1>3, <2>1, <3>1, <4>2 DEF Dropped
      <4> QED
        BY <4>1, <4>2
    <3>3. NoContext(x[1]) /\ NoContext(x[1])'
      BY <1>1, <3>1 DEF Dropped, NoContext
    <3>4. Dropped(c, x[1], x[2])'
      BY <1>1, <3>1, <3>2, <3>3 DEF Dropped
    <3>5. CASE ~ Evicting(c, x[1])'
      <4>1. \A k \in Under[x[2]] : k \notin DOMAIN cache[x[1]]
        <5> SUFFICES ASSUME NEW k \in Under[x[2]], k \in DOMAIN cache[x[1]] PROVE FALSE
          OBVIOUS
        <5>1. <<c, k>> \in pendingEvict[x[1]] /\ <<c, k>>[1] = c
          BY <3>1 DEF Dropped
        <5> QED
          BY <2>3, <3>5, <5>1
      <4>2. Kept(x[1], x[2])'
        BY <1>1, <3>2, <3>3, <4>1 DEF Kept, NoContext
      <4> QED
        BY <2>2, <3>5, <4>2 DEF SettlesOK
    <3> QED
      BY <2>2, <3>4, <3>5 DEF SettlesOK
  <2>5. CASE ~ Evicting(c, x[1])
    <3>1. Kept(x[1], x[2]) /\ ~ Evicting(c, x[1])'
      BY <2>1, <2>3, <2>5 DEF SureOK, SettlesOK, Evicting
    <3>2. Kept(x[1], x[2])'
      BY <1>1, <1>3, <2>1, <3>1 DEF Kept
    <3> QED
      BY <2>2, <3>1, <3>2 DEF SettlesOK
  <2> QED
    BY <2>4, <2>5
<1> QED
  BY <1>4 DEF SureOK

\* The evictor takes an entry away: of an insert that has committed the facts are then kept.
LEMMA EvictSure ==
    ASSUME TypeInv, NEW d \in DB, Evict(d), NEW c \in Caller, SureOK(c)
    PROVE  SureOK(c)'
<1>1. UNCHANGED <<facts, open, snap, sure, pc, left, db, query, result>>
  BY DEF Evict, callVars
<1>2. PICK y \in pendingEvict[d] :
         /\ pendingEvict' = [pendingEvict EXCEPT ![d] = @ \ {y}]
         /\ cache' = [cache EXCEPT ![d] = Restrict(@, DOMAIN @ \ {y[2]})]
  BY DEF Evict
<1>3. /\ pendingEvict'[d] = pendingEvict[d] \ {y} /\ DOMAIN cache'[d] = DOMAIN cache[d] \ {y[2]}
      /\ \A e \in DB : e # d => pendingEvict'[e] = pendingEvict[e] /\ cache'[e] = cache[e]
  BY <1>2 DEF TypeInv, Restrict
<1>4. ASSUME NEW x \in sure[c]
      PROVE  OnceOK(c, x[1])' /\ SettlesOK(c, x[1], x[2])'
  <2>1. x[1] \in DB
    BY DEF TypeInv
  <2>2. OnceOK(c, x[1])'
    BY <1>1 DEF SureOK, OnceOK
  <2>3. CASE Evicting(c, x[1])
    <3>1. Dropped(c, x[1], x[2])
      BY <2>3 DEF SureOK, SettlesOK
    <3>2. ASSUME NEW k \in Under[x[2]], k \in DOMAIN cache'[x[1]]
          PROVE  <<c, k>> \in pendingEvict'[x[1]]
      <4>1. CASE x[1] = d
        <5>1. k # y[2] /\ <<c, k>>[2] = k /\ <<c, k>> \in pendingEvict[d]
          BY <1>3, <3>1, <3>2, <4>1 DEF Dropped
        <5> QED
          BY <1>3, <4>1, <5>1
      <4>2. CASE x[1] # d
        BY <1>3, <2>1, <3>1, <3>2, <4>2 DEF Dropped
      <4> QED
        BY <4>1, <4>2
    <3>3. NoContext(x[1])'
      BY <1>1, <3>1 DEF Dropped, NoContext
    <3>4. Dropped(c, x[1], x[2])'
      <4>1. IF pc'[c] = "commit" /\ db'[c] = x[1] THEN x[2] \in Added(c)'
            ELSE x[2] \in facts'[x[1]]
        BY <1>1, <3>1 DEF Dropped, Added
      <4> QED
        BY <3>2, <3>3, <4>1 DEF Dropped
    <3>5. CASE ~ Evicting(c, x[1])'
      <4>1. x[2] \in facts'[x[1]]
        BY <3>4, <3>5 DEF Dropped, Evicting
      <4>2. \A k \in Under[x[2]] : k \notin DOMAIN cache'[x[1]]
        <5> SUFFICES ASSUME NEW k \in Under[x[2]], k \in DOMAIN cache'[x[1]] PROVE FALSE
          OBVIOUS
        <5>1. <<c, k>> \in pendingEvict'[x[1]] /\ <<c, k>>[1] = c
          BY <3>2
        <5> QED
          BY <3>5, <5>1 DEF Evicting
      <4>3. Kept(x[1], x[2])'
        BY <3>3, <4>1, <4>2 DEF Kept, NoContext
      <4> QED
        BY <2>2, <3>5, <4>3 DEF SettlesOK
    <3> QED
      BY <2>2, <3>4, <3>5 DEF SettlesOK
  <2>4. CASE ~ Evicting(c, x[1])
    <3>1. ~ Evicting(c, x[1])'
      <4>1. pendingEvict'[x[1]] \subseteq pendingEvict[x[1]]
        BY <1>3, <2>1
      <4> QED
        BY <1>1, <2>4, <4>1 DEF Evicting
    <3>2. Kept(x[1], x[2])'
      BY <2>1, <2>4, KeptEvict DEF SureOK, SettlesOK
    <3> QED
      BY <2>2, <3>1, <3>2 DEF SettlesOK
  <2> QED
    BY <2>3, <2>4
<1> QED
  BY <1>1, <1>4 DEF SureOK

\* No entry has what was never committed.
LEMMA EntriesNext ==
    ASSUME TypeInv, CacheOK, NEW c \in Caller, CallOK(c), CStep(c), NEW d \in DB,
           NEW k \in DOMAIN cache'[d]
    PROVE  cache'[d][k] \subseteq facts'[d]
<1>1. facts[d] \subseteq facts'[d]
  BY FactsGrow DEF CallOK
<1>2. CASE cache' = cache
  BY <1>1, <1>2 DEF CacheOK
<1>3. ASSUME NEW b \in Branch, NEW j \in Key, Fill(c, b, j)
      PROVE  cache'[d][k] \subseteq facts'[d]
  <2>1. cache' = [cache EXCEPT ![db[c]] = WithEntry(@, j, EntryOf(snap[c][b], j))]
    BY <1>3 DEF Fill
  <2>2. EntryOf(snap[c][b], j) \subseteq facts[db[c]]
    <3>1. <<b, j>>[1] = b
      OBVIOUS
    <3>2. b \in open[c]
      BY <1>3, <3>1 DEF Fill, CallOK, ContextOK
    <3> QED
      BY <3>2 DEF CallOK, ContextOK, EntryOf
  <2>3. CASE d = db[c]
    <3>1. cache'[d] = WithEntry(cache[d], j, EntryOf(snap[c][b], j))
      BY <2>1, <2>3 DEF TypeInv
    <3>2. \/ cache'[d][k] = EntryOf(snap[c][b], j)
          \/ k \in DOMAIN cache[d] /\ cache'[d][k] = cache[d][k]
      BY <3>1 DEF WithEntry
    <3> QED
      BY <1>1, <2>2, <2>3, <3>2 DEF CacheOK
  <2>4. CASE d # db[c]
    <3>1. cache'[d] = cache[d]
      BY <2>1, <2>4 DEF TypeInv
    <3> QED
      BY <1>1, <3>1 DEF CacheOK
  <2> QED
    BY <2>3, <2>4
<1>4. CASE ~ \E b \in Branch, j \in Key : Fill(c, b, j)
  <2>1. cache' = cache
    BY <1>4 DEF CStep, Step, BranchStep, RunQuery, runQuery, Snapshot, Lookup, GetResults, Append1,
                Wait, Merge, Drain, HandleInsert, Commit, InsertFails, Return, cacheVars
  <2> QED
    BY <1>2, <2>1
<1> QED
  BY <1>3, <1>4

\* What was settled stays settled.
LEMMA CacheNext ==
    ASSUME CallInv, NEW c \in Caller, CStep(c)
    PROVE  CacheOK'
<1>1. \A d \in DB : \A k \in DOMAIN cache'[d] : cache'[d][k] \subseteq facts'[d]
  BY EntriesNext DEF CallInv
<1>2. \A d \in DB : \A f : Kept(d, f) => Kept(d, f)'
  BY KeptNext DEF CallInv
<1>3. \A d \in DB : \A f \in loaded'[d] : Kept(d, f)'
  <2>1. loaded' = loaded
    BY DEF CStep, Step, BranchStep, RunQuery, runQuery, Snapshot, Lookup, Fill, GetResults, Append1,
           Wait, Merge, Drain, HandleInsert, Commit, InsertFails, Return, cacheVars
  <2> QED
    BY <1>2, <2>1 DEF CallInv, CacheOK
<1>4. ASSUME NEW u \in Caller
      PROVE  SureOK(u)'
  <2>1. CASE u # c
    BY <2>1, OthersSureNext DEF CallInv, CacheOK
  <2>2. CASE u = c
    BY <2>2, OwnSureNext, HandleInsertSure, CommitSure DEF CallInv, CacheOK
  <2> QED
    BY <2>1, <2>2
<1>5. ASSUME NEW u \in Caller, NEW d \in DB, NEW f \in old'[u][d]
      PROVE  Kept(d, f)'
  <2>1. CASE RunQuery(c) /\ u = c
    <3>1. f \in Settled(d)
      BY <2>1 DEF RunQuery, CallInv, TypeInv
    <3> QED
      BY <1>2, <3>1, SettledKept DEF CallInv
  <2>2. CASE ~ (RunQuery(c) /\ u = c)
    <3>1. CASE u # c
      <4>1. old'[u] = old[u]
        BY <3>1, OthersStay DEF CallInv, Call
      <4> QED
        BY <1>2, <4>1 DEF CallInv, CacheOK
    <3>2. CASE ~ RunQuery(c)
      <4>1. old' = old
        BY <3>2 DEF CStep, Step, BranchStep, runQuery, Snapshot, Lookup, Fill, GetResults, Append1,
                    Wait, Merge, Drain, HandleInsert, Commit, InsertFails, Return, callVars
      <4> QED
        BY <1>2, <4>1 DEF CallInv, CacheOK
    <3> QED
      BY <2>2, <3>1, <3>2
  <2> QED
    BY <2>1, <2>2
<1> QED
  BY <1>1, <1>3, <1>4, <1>5 DEF CacheOK

\* The evictor changes nothing of a call.
LEMMA EvictNext ==
    ASSUME CallInv, NEW d \in DB, Evict(d)
    PROVE  CallInv'
<1>1. UNCHANGED <<facts, open, snap, unread, shown, fill, loaded, sure, callVars>>
  BY DEF Evict
<1>2. TypeInv'
  <2>1. DOMAIN pendingEvict' = DB /\ DOMAIN cache' = DB
    BY DEF Evict, CallInv, TypeInv
  <2> QED
    BY <1>1, <2>1 DEF CallInv, TypeInv, callVars
<1>3. ASSUME NEW u \in Caller
      PROVE  CallOK(u)'
  <2>1. Call(u)' = Call(u) /\ Context(u)' = Context(u)
    BY <1>1 DEF Call, Context, callVars
  <2> QED
    BY <1>1, <2>1, StillCall DEF CallInv
<1>4. CacheOK'
  <2>1. \A e \in DB : \A f : Kept(e, f) => Kept(e, f)'
    BY KeptEvict DEF CallInv
  <2>2. \A e \in DB : \A k \in DOMAIN cache'[e] : k \in DOMAIN cache[e] /\ cache'[e][k] = cache[e][k]
    <3>1. PICK y \in pendingEvict[d] :
             cache' = [cache EXCEPT ![d] = Restrict(@, DOMAIN @ \ {y[2]})]
      BY DEF Evict
    <3> QED
      BY <3>1 DEF CallInv, TypeInv, Restrict
  <2>3. \A e \in DB : \A k \in DOMAIN cache'[e] : cache'[e][k] \subseteq facts'[e]
    BY <1>1, <2>2 DEF CallInv, CacheOK
  <2>4. \A e \in DB : \A f \in loaded'[e] : Kept(e, f)'
    BY <1>1, <2>1 DEF CallInv, CacheOK
  <2>5. \A u \in Caller : SureOK(u)'
    BY EvictSure DEF CallInv, CacheOK
  <2>6. \A u \in Caller : \A e \in DB : \A f \in old'[u][e] : Kept(e, f)'
    BY <1>1, <2>1 DEF CallInv, CacheOK, callVars
  <2> QED
    BY <2>3, <2>4, <2>5, <2>6 DEF CacheOK
<1> QED
  BY <1>2, <1>3, <1>4 DEF CallInv

\* No call is running at the start, and the caches are empty.
LEMMA CallInit == Init => CallInv
<1> SUFFICES ASSUME Init PROVE CallInv
  OBVIOUS
<1>1. TypeInv
  <2>1. facts \in [DB -> SUBSET Fact] /\ \A d \in DB : IsFiniteSet(facts[d])
    BY DEF Init
  <2>2. \A c \in Caller : query[c] = NoQuery /\ IsFiniteSet(query[c].terms)
    BY FS_EmptySet DEF Init, NoQuery
  <2>3. \A c \in Caller : DOMAIN result[c] = {"rows", "count", "errors"}
    BY DEF Init, EmptyResult
  <2> QED
    BY <2>1, <2>2, <2>3 DEF Init, TypeInv, Pcs
<1>2. ASSUME NEW c \in Caller
      PROVE  CallOK(c)
  <2>1. ControlOK(c)
    BY DEF Init, ControlOK, Returned, NoQuery, EmptyResult
  <2>2. FailuresOK(c)
    BY DEF Init, FailuresOK, Failing, EmptyResult
  <2>3. SeenOK(c)
    BY DEF Init, SeenOK, NoQuery
  <2>4. ContextOK(c)
    BY DEF Init, ContextOK
  <2> QED
    BY <2>1, <2>2, <2>3, <2>4 DEF CallOK
<1>3. CacheOK
  <2>1. \A d \in DB : DOMAIN cache[d] = {}
    BY DEF Init
  <2>2. \A d \in DB : \A f \in facts[d] : Kept(d, f)
    BY <2>1 DEF Init, Kept
  <2>3. \A c \in Caller : SureOK(c)
    BY DEF Init, SureOK
  <2> QED
    BY <2>1, <2>2, <2>3 DEF Init, CacheOK
<1> QED
  BY <1>1, <1>2, <1>3 DEF CallInv

\* What is known of each call's course is kept by every step of every call and evictor.
LEMMA CallNext == CallInv /\ [Next]_vars => CallInv'
<1> SUFFICES ASSUME CallInv, [Next]_vars PROVE CallInv'
  OBVIOUS
<1>1. ASSUME NEW c \in Caller, CStep(c)
      PROVE  CallInv'
  <2>1. TypeInv' /\ CacheOK'
    BY <1>1, TypeNext, CacheNext DEF CallInv, CallOK
  <2>2. CallOK(c)'
    BY <1>1, RunQueryCall, NextDatabaseCall, SnapshotCall, LookupCall, FillCall, GetResultsCall,
       AppendCall, WaitCall, MergeCall, DrainCall, InsertCall DEF CallInv, CStep, Step, BranchStep
  <2>3. ASSUME NEW u \in Caller, u # c
        PROVE  CallOK(u)'
    <3>1. Call(u)' = Call(u) /\ Context(u)' = Context(u)
      BY <1>1, <2>3, OthersStay DEF CallInv
    <3>2. \A d \in DB : facts[d] \subseteq facts'[d]
      BY <1>1, FactsGrow DEF CallInv, CallOK
    <3> QED
      BY <3>1, <3>2, StillCall DEF CallInv
  <2> QED
    BY <2>1, <2>2, <2>3 DEF CallInv
<1>2. CASE \E d \in DB : Evict(d)
  BY <1>2, EvictNext
<1>3. CASE UNCHANGED vars
  <2>1. TypeInv'
    BY <1>3 DEF vars, cacheVars, callVars, CallInv, TypeInv
  <2>2. CacheOK'
    <3>1. UNCHANGED <<facts, cache, pendingEvict, open, snap, loaded, sure, pc, query, left, db,
                      result, old>>
      BY <1>3 DEF vars, cacheVars, callVars
    <3>2. \A d, f : Kept(d, f)' <=> Kept(d, f)
      BY <3>1 DEF Kept
    <3>3. ASSUME NEW u, SureOK(u)
          PROVE  SureOK(u)'
      <4>1. ASSUME NEW x \in sure'[u]
            PROVE  OnceOK(u, x[1])' /\ SettlesOK(u, x[1], x[2])'
        <5>1. OnceOK(u, x[1]) /\ SettlesOK(u, x[1], x[2])
          BY <3>1, <3>3 DEF SureOK
        <5>2. OnceOK(u, x[1])'
          BY <3>1, <5>1 DEF OnceOK
        <5>3. SettlesOK(u, x[1], x[2])'
          <6>1. /\ Evicting(u, x[1])' <=> Evicting(u, x[1])
                /\ Dropped(u, x[1], x[2])' <=> Dropped(u, x[1], x[2])
            BY <3>1 DEF Evicting, Dropped, NoContext, Added
          <6>2. Kept(x[1], x[2])' <=> Kept(x[1], x[2])
            BY <3>1 DEF Kept
          <6> QED
            BY <5>1, <6>1, <6>2 DEF SettlesOK
        <5> QED
          BY <5>2, <5>3
      <4> QED
        BY <4>1 DEF SureOK
    <3> QED
      BY <3>1, <3>2, <3>3 DEF CallInv, CacheOK
  <2>3. ASSUME NEW u \in Caller
        PROVE  Call(u)' = Call(u) /\ Context(u)' = Context(u)
               /\ \A d \in DB : facts[d] \subseteq facts'[d]
    BY <1>3 DEF vars, cacheVars, callVars, Call, Context
  <2> QED
    BY <2>1, <2>2, <2>3, StillCall DEF CallInv
<1> QED
  BY <1>1, <1>2, <1>3 DEF Next, CStep

\* What a call of RunQuery has read, and which failures it still has to name.
THEOREM CallInvariant == Spec => []CallInv
<1> QED
  BY CallInit, CallNext, PTL DEF Spec

\* A call of RunQuery that returns names in its result exactly the databases one of its
\* branches failed on.
THEOREM FailuresAlwaysNamed == Spec => []FailuresNamed
<1>1. CallInv => FailuresNamed
  BY DEF CallInv, CallOK, FailuresOK, Failing, FailuresNamed, Returned
<1> QED
  BY <1>1, CallInvariant, PTL

\* A call without errors has read, through whatever the cache of each database held, every
\* fact that was settled there when it was called, and nothing that is not committed.
THEOREM AlwaysSeesEarlierInserts == Spec => []SeesEarlierInserts
<1>1. CallInv => SeesEarlierInserts
  <2> SUFFICES ASSUME CallInv, NEW c \in Caller, Returned(c), result[c].errors = {},
                      NEW d \in query[c].dbs, NEW b \in query[c].branches
               PROVE  LET seen == {x[3] : x \in {x \in found[c] : x[1] = d /\ x[2] = b}}
                      IN  /\ ArgsOf(d, b, old[c]) \subseteq seen
                          /\ seen \subseteq ArgsOf(d, b, facts)
    BY DEF SeesEarlierInserts
  <2> DEFINE seen == {x[3] : x \in {x \in found[c] : x[1] = d /\ x[2] = b}}
  <2>1. pc[c] = "returned" /\ left[c] = {} /\ failed[c] = {}
    BY DEF CallInv, CallOK, ControlOK, FailuresOK, Failing, Returned
  <2>2. d \in DB
    BY QueryFields DEF CallInv, TypeInv
  <2>3. ASSUME NEW a \in ArgsOf(d, b, old[c])
        PROVE  a \in seen
    <3>1. <<d, b, a>> \in found[c]
      BY <2>1, <2>3 DEF CallInv, CallOK, SeenOK
    <3>2. <<d, b, a>>[1] = d /\ <<d, b, a>>[2] = b /\ <<d, b, a>>[3] = a
      OBVIOUS
    <3> QED
      BY <3>1, <3>2
  <2>4. ASSUME NEW a \in seen
        PROVE  a \in ArgsOf(d, b, facts)
    <3>1. PICK x \in found[c] : x[1] = d /\ x[2] = b /\ x[3] = a
      BY <2>4
    <3>2. <<b, a>> \in facts[d]
      BY <3>1 DEF CallInv, CallOK, SeenOK
    <3> QED
      BY <2>2, <3>2, ArgsFound DEF CallInv, TypeInv
  <2> QED
    BY <2>3, <2>4
<1> QED
  BY <1>1, CallInvariant, PTL

-----------------------------------------------------------------------------
(* The rows of a call whose columns are aligned.                           *)

\* The rows such a query may find.
RowSet(q) == {RowOf(q, q.vars, a) : a \in UNION {[VarsOf[b] -> URI] : b \in q.branches}}

\* The rows branches have found and the B-tree does not have yet, by branch.
Waiting(c) == rows[c] \cup UNION {{<<r.branch, x>> : x \in r.rows} : r \in read[c]}

\* The answers that are not in the result yet, and those that should be in the end.
Images(c) == {MapOf(query[c], r) : r \in Range(tree[c]) \cup {x[2] : x \in Waiting(c)}}
Wanted(c) == {Selected(query[c], x[3]) : x \in found[c]}

RowsOK(c) ==
    Aligned(query[c]) =>
        /\ \A x \in Waiting(c) : x \in query[c].branches \X RowSet(query[c])
        /\ tree[c] \in Seq(RowSet(query[c]))
        /\ result[c].rows \in Seq([Range(query[c].vars) -> URI])
        /\ result[c].count \in Nat
        /\ ~ query[c].insert /\ ~ query[c].count =>
              Range(result[c].rows) \cup Images(c) = Wanted(c)

\* How many rows have left the B-tree.
Gone(c) == IF query[c].count THEN 0 ELSE result[c].count

\* Each row stands for something that was found, and each answer for a row.
CountsOK(c) ==
    Aligned(query[c]) =>
        /\ IsFiniteSet(found[c]) /\ IsFiniteSet(Waiting(c))
        /\ Gone(c) + Len(tree[c]) + Cardinality(Waiting(c)) <= Cardinality(found[c])
        /\ Cardinality(Wanted(c) \ Images(c)) <= Gone(c)
        /\ query[c].count /\ pc[c] # "merge" => result[c].count = Len(tree[c])
        /\ ~ query[c].count /\ ~ query[c].insert => result[c].count = Len(result[c].rows)

RowsInv == CallInv /\ \A c \in Caller : RowsOK(c) /\ CountsOK(c)

\* A row of such a query has its variables' values in the order of the SELECT.
LEMMA RowShape ==
    ASSUME NEW q \in QueryType \cup {NoQuery}, Aligned(q),
           NEW b \in q.branches, NEW a \in [VarsOf[b] -> URI]
    PROVE  LET r == RowOf(q, q.vars, a)
           IN  /\ r = [vals |-> [i \in 1 .. Len(q.vars) |-> a[q.vars[i]]], count |-> Len(q.vars)]
               /\ r.vals \in [1 .. Len(q.vars) -> URI]
               /\ MapOf(q, r) = Selected(q, a)
               /\ Selected(q, a) \in [Range(q.vars) -> URI]
<1> DEFINE n == Len(q.vars)
           r == RowOf(q, q.vars, a)
<1>1. q.vars \in Seq(Variable) /\ n \in Nat /\ DOMAIN q.vars = 1 .. n
  BY QueryFields
<1>2. Max({n, n}) = n
  BY <1>1 DEF Max
<1>3. \A i \in 1 .. n : q.vars[i] \in Range(q.vars) /\ q.vars[i] \in VarsOf[b]
  BY <1>1 DEF Aligned, Range
<1>4. DOMAIN a = VarsOf[b]
  OBVIOUS
<1>5. r = [vals |-> [i \in 1 .. n |-> a[q.vars[i]]], count |-> n]
  <2>1. [i \in 1 .. Max({n, n}) |->
            CASE i > n -> Leftover
              [] q.vars[i] \in DOMAIN a -> a[q.vars[i]]
              [] OTHER -> Misread(a)]
        = [i \in 1 .. n |-> a[q.vars[i]]]
    <3>1. \A i \in 1 .. n :
             (CASE i > n -> Leftover
                [] q.vars[i] \in DOMAIN a -> a[q.vars[i]]
                [] OTHER -> Misread(a)) = a[q.vars[i]]
      BY <1>1, <1>3, <1>4
    <3> QED
      BY <1>2, <3>1
  <2> QED
    BY <2>1 DEF RowOf
<1>6. r.vals = [i \in 1 .. n |-> a[q.vars[i]]]
  BY <1>5
<1> HIDE DEF r
<1>7. r.vals \in [1 .. n -> URI]
  BY <1>3, <1>6
<1> DEFINE pos(v) == CHOOSE i \in 1 .. n : q.vars[i] = v
<1>8. \A v \in Range(q.vars) : r.vals[pos(v)] = a[v]
  <2> SUFFICES ASSUME NEW v \in Range(q.vars)
               PROVE  r.vals[pos(v)] = a[v]
    OBVIOUS
  <2>1. \E i \in 1 .. n : q.vars[i] = v
    BY <1>1 DEF Range
  <2>2. pos(v) \in 1 .. n /\ q.vars[pos(v)] = v
    BY <2>1
  <2> QED
    BY <1>6, <2>2
<1>9. MapOf(q, r) = Selected(q, a)
  <2>1. MapOf(q, r) = [v \in Range(q.vars) |-> r.vals[pos(v)]]
    BY DEF MapOf
  <2> HIDE DEF pos
  <2> QED
    BY <1>8, <2>1 DEF Selected
<1>10. Selected(q, a) \in [Range(q.vars) -> URI]
  BY DEF Aligned, Selected
<1> QED
  BY <1>5, <1>7, <1>9, <1>10 DEF r

\* A row of an aligned query has a value for each variable of the SELECT.
LEMMA RowParts ==
    ASSUME NEW q \in QueryType \cup {NoQuery}, Aligned(q), NEW r \in RowSet(q)
    PROVE  /\ r = [vals |-> r.vals, count |-> Len(q.vars)]
           /\ r.vals \in [1 .. Len(q.vars) -> URI]
           /\ MapOf(q, r) \in [Range(q.vars) -> URI]
<1>1. PICK b \in q.branches : \E a \in [VarsOf[b] -> URI] : r = RowOf(q, q.vars, a)
  BY DEF RowSet
<1>2. PICK a \in [VarsOf[b] -> URI] : r = RowOf(q, q.vars, a)
  BY <1>1
<1>3. /\ r = [vals |-> [i \in 1 .. Len(q.vars) |-> a[q.vars[i]]], count |-> Len(q.vars)]
      /\ r.vals \in [1 .. Len(q.vars) -> URI]
      /\ MapOf(q, r) \in [Range(q.vars) -> URI]
  <2>1. LET s == RowOf(q, q.vars, a)
        IN  /\ s = [vals |-> [i \in 1 .. Len(q.vars) |-> a[q.vars[i]]], count |-> Len(q.vars)]
            /\ s.vals \in [1 .. Len(q.vars) -> URI]
            /\ MapOf(q, s) = Selected(q, a)
            /\ Selected(q, a) \in [Range(q.vars) -> URI]
    BY RowShape, Zenon
  <2> QED
    BY <1>2, <2>1, Zenon
<1> QED
  BY <1>3

\* Less is no order, but rows of which neither is less than the other are equal.
LEMMA NotLessIsEqual ==
    ASSUME NEW q \in QueryType \cup {NoQuery}, Aligned(q), NEW r \in RowSet(q), NEW s \in RowSet(q),
           ~ Less(r, s), ~ Less(s, r)
    PROVE  r = s
<1> DEFINE n == Len(q.vars)
<1>1. r = [vals |-> r.vals, count |-> n] /\ s = [vals |-> s.vals, count |-> n]
      /\ r.vals \in [1 .. n -> URI] /\ s.vals \in [1 .. n -> URI]
  BY RowParts
<1>2. r.count = n /\ s.count = n
  BY <1>1
<1>3. ASSUME NEW i \in 1 .. n
      PROVE  r.vals[i] = s.vals[i]
  <2>1. r.vals[i] \in Nat \X Nat /\ s.vals[i] \in Nat \X Nat
    BY <1>1
  <2>2. ~ (r.vals[i][1] < s.vals[i][1]) /\ ~ (s.vals[i][1] < r.vals[i][1])
        /\ ~ (r.vals[i][2] < s.vals[i][2]) /\ ~ (s.vals[i][2] < r.vals[i][2])
    BY <1>2 DEF Less
  <2>3. r.vals[i][1] = s.vals[i][1] /\ r.vals[i][2] = s.vals[i][2]
    BY SMTT(30), <2>1, <2>2
  <2> QED
    BY SMTT(30), <2>1, <2>3
<1>4. r.vals = s.vals
  BY <1>1, <1>3
<1> QED
  BY <1>1, <1>4

\* Inserting an element (the tree's ordered insert) adds it and nothing else.
LEMMA InsertedAt ==
    ASSUME NEW S, NEW t \in Seq(S), NEW e \in S, NEW i \in 0 .. Len(t)
    PROVE  /\ InsertAt(t, i + 1, e) \in Seq(S)
           /\ Len(InsertAt(t, i + 1, e)) = Len(t) + 1
           /\ Range(InsertAt(t, i + 1, e)) = Range(t) \cup {e}
<1> DEFINE front == SubSeq(t, 1, i)
           back == SubSeq(t, i + 1, Len(t))
           u == front \o <<e>> \o back
<1>0. InsertAt(t, i + 1, e) = u
  <2>1. (i + 1) - 1 = i
    OBVIOUS
  <2> QED
    BY <2>1 DEF InsertAt
<1>1. /\ front \in Seq(S) /\ Len(front) = i /\ \A j \in 1 .. i : front[j] = t[j]
  BY SubSeqProperties
<1>2. /\ back \in Seq(S) /\ Len(back) = Len(t) - i
      /\ \A j \in 1 .. Len(t) - i : back[j] = t[i + j]
  BY SubSeqProperties
<1> HIDE DEF front, back
<1>3. /\ front \o <<e>> \in Seq(S) /\ Len(front \o <<e>>) = i + 1
      /\ \A j \in 1 .. i : (front \o <<e>>)[j] = t[j]
      /\ (front \o <<e>>)[i + 1] = e
  BY <1>1
<1>4. /\ u \in Seq(S) /\ Len(u) = Len(t) + 1
      /\ \A j \in 1 .. i : u[j] = t[j]
      /\ u[i + 1] = e
      /\ \A j \in i + 1 .. Len(t) : u[j + 1] = t[j]
  <2>1. u \in Seq(S) /\ Len(u) = Len(t) + 1
        /\ \A j \in 1 .. Len(t) + 1 : u[j] = IF j <= i + 1 THEN (front \o <<e>>)[j] ELSE back[j - (i + 1)]
    BY <1>2, <1>3, ConcatProperties
  <2>2. \A j \in i + 1 .. Len(t) : back[j - i] = t[j]
    BY <1>2
  <2> HIDE DEF u
  <2> QED
    BY <1>3, <2>1, <2>2
<1> HIDE DEF u
<1>5. DOMAIN u = 1 .. Len(t) + 1 /\ DOMAIN t = 1 .. Len(t)
  BY <1>4
<1>6. ASSUME NEW x \in Range(u)
      PROVE  x \in Range(t) \cup {e}
  <2>1. PICK j \in 1 .. Len(t) + 1 : x = u[j]
    BY <1>5 DEF Range
  <2>2. CASE j <= i
    BY <1>4, <1>5, <2>1, <2>2 DEF Range
  <2>3. CASE j = i + 1
    BY <1>4, <2>1, <2>3
  <2>4. CASE j > i + 1
    <3>1. j - 1 \in i + 1 .. Len(t) /\ (j - 1) + 1 = j /\ j - 1 \in 1 .. Len(t)
      BY <2>4
    <3>2. x = t[j - 1]
      BY <1>4, <2>1, <3>1
    <3> QED
      BY <1>5, <3>1, <3>2 DEF Range
  <2> QED
    BY <2>2, <2>3, <2>4
<1>7. ASSUME NEW x \in Range(t) \cup {e}
      PROVE  x \in Range(u)
  <2>1. CASE x = e
    BY <1>4, <1>5, <2>1 DEF Range
  <2>2. CASE x \in Range(t)
    <3>1. PICK j \in 1 .. Len(t) : x = t[j]
      BY <1>5, <2>2 DEF Range
    <3>2. x = u[j] \/ x = u[j + 1]
      BY <1>4, <3>1
    <3> QED
      BY <1>5, <3>2 DEF Range
  <2> QED
    BY <2>1, <2>2
<1> QED
  BY <1>0, <1>4, <1>6, <1>7

\* Whatever place the B-tree's search ends at, every row stays and the new one
\* comes in.
LEMMA TreeKeepsRows ==
    ASSUME NEW q \in QueryType \cup {NoQuery}, Aligned(q),
           NEW t \in Seq(RowSet(q)), NEW r \in RowSet(q),
           NEW i \in 0 .. Len(t), i \in Places(t, r)
    PROVE  /\ ReplaceOrInsert(t, r, i) \in Seq(RowSet(q))
           /\ Len(ReplaceOrInsert(t, r, i)) <= Len(t) + 1
           /\ Range(ReplaceOrInsert(t, r, i)) = Range(t) \cup {r}
<1>0. i \in 0 .. Len(t) /\ DOMAIN t = 1 .. Len(t) /\ Len(t) \in Nat
  BY DEF Places
<1>1. CASE i > 0 /\ ~ Less(t[i], r)
  <2>1. t[i] \in RowSet(q) /\ ~ Less(r, t[i])
    BY <1>0, <1>1 DEF Places
  <2>2. t[i] = r
    BY <1>1, <2>1, NotLessIsEqual
  <2>3. [t EXCEPT ![i] = r] = t
    BY <1>0, <2>2
  <2>4. r \in Range(t)
    BY <1>0, <1>1, <2>2 DEF Range
  <2>5. ReplaceOrInsert(t, r, i) = t
    BY <1>1, <2>3 DEF ReplaceOrInsert
  <2> QED
    BY <1>0, <2>4, <2>5
<1>2. CASE ~ (i > 0 /\ ~ Less(t[i], r))
  <2>1. ReplaceOrInsert(t, r, i) = InsertAt(t, i + 1, r)
    BY <1>2 DEF ReplaceOrInsert
  <2>2. InsertAt(t, i + 1, r) \in Seq(RowSet(q))
    BY InsertedAt
  <2>3. Len(InsertAt(t, i + 1, r)) = Len(t) + 1
    BY InsertedAt
  <2>4. Range(InsertAt(t, i + 1, r)) = Range(t) \cup {r}
    BY InsertedAt
  <2> QED
    BY <1>0, <2>1, <2>2, <2>3, <2>4
<1> QED
  BY <1>1, <1>2

\* A sequence has no more answers than elements.
LEMMA TreeImages ==
    ASSUME NEW q, NEW S, NEW t \in Seq(S), NEW I,
           \A y : y \in I <=> \E r \in Range(t) : y = MapOf(q, r)
    PROVE  IsFiniteSet(I) /\ Cardinality(I) <= Len(t)
<1> DEFINE f == [j \in 1 .. Len(t) |-> MapOf(q, t[j])]
<1>1. Len(t) \in Nat /\ DOMAIN t = 1 .. Len(t)
  OBVIOUS
<1>2. f \in Surjection(1 .. Len(t), I)
  BY <1>1 DEF Surjection, Range
<1>3. IsFiniteSet(1 .. Len(t)) /\ Cardinality(1 .. Len(t)) = Len(t)
  <2>1. /\ IsFiniteSet(1 .. Len(t))
        /\ Cardinality(1 .. Len(t)) = IF 1 > Len(t) THEN 0 ELSE Len(t) - 1 + 1
    BY SMTT(30), <1>1, FS_Interval
  <2> QED
    BY <1>1, <2>1
<1> HIDE DEF f
<1>4. IsFiniteSet(I) /\ Cardinality(I) <= Cardinality(1 .. Len(t))
  BY <1>2, <1>3, FS_Surjection
<1> QED
  BY <1>3, <1>4

\* Finitely many facts have finitely many rows.
LEMMA WantedFinite ==
    ASSUME NEW q, NEW S, IsFiniteSet(S)
    PROVE  IsFiniteSet({Selected(q, x[3]) : x \in S})
<1> DEFINE T == {Selected(q, x[3]) : x \in S}
           f == [x \in S |-> Selected(q, x[3])]
<1>1. f \in Surjection(S, T)
  BY DEF Surjection
<1> HIDE DEF f, T
<1>2. IsFiniteSet(T)
  BY <1>1, FS_Surjection
<1> QED
  BY <1>2 DEF T

\* Nothing has been found yet, or the call has not begun.
LEMMA NothingFound ==
    ASSUME NEW c \in Caller, query[c].vars \in Seq(Variable),
           found[c] = {}, rows[c] = {}, read[c] = {}, tree[c] = << >>, result[c] = EmptyResult
    PROVE  RowsOK(c) /\ CountsOK(c)
<1>1. Waiting(c) = {} /\ Wanted(c) = {} /\ Range(tree[c]) = {} /\ Len(tree[c]) = 0
  BY DEF Waiting, Wanted, Range
<1>2. Images(c) = {}
  BY <1>1 DEF Images
<1>3. result[c].rows = << >> /\ result[c].count = 0 /\ Range(result[c].rows) = {}
  BY DEF EmptyResult, Range
<1>4. RowsOK(c)
  BY <1>1, <1>2, <1>3 DEF RowsOK
<1>5. CountsOK(c)
  BY <1>1, <1>2, <1>3, FS_EmptySet DEF CountsOK, Gone
<1> QED
  BY <1>4, <1>5

\* What the rows' invariants speak of stays as it is.
LEMMA RowsStay ==
    ASSUME NEW c \in Caller, RowsOK(c), CountsOK(c),
           query'[c] = query[c], tree'[c] = tree[c], found'[c] = found[c],
           result'[c].rows = result[c].rows, result'[c].count = result[c].count,
           Waiting(c)' = Waiting(c),
           (pc[c] = "merge" => pc'[c] = "merge")
    PROVE  RowsOK(c)' /\ CountsOK(c)'
<1>1. Images(c)' = Images(c) /\ Wanted(c)' = Wanted(c) /\ Gone(c)' = Gone(c)
  BY DEF Images, Wanted, Gone
<1>2. RowsOK(c)'
  BY <1>1 DEF RowsOK
<1>3. CountsOK(c)'
  BY <1>1 DEF CountsOK
<1> QED
  BY <1>2, <1>3

\* A branch's goroutine finds the rows of its branch.
LEMMA GetResultsRows ==
    ASSUME TypeInv, NEW c \in Caller, ControlOK(c), ContextOK(c), SeenOK(c), RowsOK(c),
           CountsOK(c), NEW b \in Branch, GetResults(c, b)
    PROVE  RowsOK(c)' /\ CountsOK(c)'
<1> DEFINE d == db[c]
           A == ArgsShown(c, b)
           q == query[c]
<1>1. /\ b \in open[c]
      /\ UNCHANGED <<facts, pc, query, left, db, rows, tree, result>>
  BY DEF GetResults
<1>2. /\ pc[c] = "branches" /\ d \in DB /\ b \in q.branches
      /\ \A a \in A : <<b, a>> \in facts[d] /\ a \in [VarsOf[b] -> URI]
  BY <1>1, ShownArgs DEF ControlOK
<1>3. q \in QueryType \cup {NoQuery} /\ facts \in [DB -> SUBSET Fact] /\ IsFiniteSet(facts[d])
  BY <1>2 DEF TypeInv
<1> DEFINE F == /\ found' = found
                /\ read' = [read EXCEPT ![c] = @ \cup {[branch |-> b, ok |-> FALSE, rows |-> {}]}]
           G == /\ found' = [found EXCEPT ![c] = @ \cup {<<d, b, a>> : a \in A}]
                /\ \E cols \in ColumnsOf(q, b) :
                     read' = [read EXCEPT ![c] = @ \cup
                       {[branch |-> b, ok |-> TRUE, rows |-> {RowOf(q, cols, a) : a \in A}]}]
<1>6. F \/ G
  BY Zenon, GetResultsStep
<1> HIDE DEF F, G
<1>4. CASE F
  <2> DEFINE s == [branch |-> b, ok |-> FALSE, rows |-> {}]
  <2>1. read'[c] = read[c] \cup {s} /\ found' = found
    BY <1>4 DEF F, TypeInv
  <2>2. s.rows = {}
    OBVIOUS
  <2> HIDE DEF s
  <2>3. UNION {{<<r.branch, x>> : x \in r.rows} : r \in read'[c]}
        = UNION {{<<r.branch, x>> : x \in r.rows} : r \in read[c]}
    BY <2>1, <2>2
  <2>4. Waiting(c)' = Waiting(c)
    BY <1>1, <2>3 DEF Waiting
  <2> QED
    BY <1>1, <2>1, <2>4, RowsStay
<1>5. CASE G
  <2>0. SUFFICES ASSUME Aligned(q) PROVE RowsOK(c)' /\ CountsOK(c)'
    BY <1>1 DEF RowsOK, CountsOK
  <2> DEFINE s == [branch |-> b, ok |-> TRUE, rows |-> {RowOf(q, q.vars, a) : a \in A}]
             W == {<<b, RowOf(q, q.vars, a)>> : a \in A}
             new == {<<d, b, a>> : a \in A}
             wanted == {Selected(q, a) : a \in A}
  <2>1. read'[c] = read[c] \cup {s} /\ found'[c] = found[c] \cup new
    <3>1. ColumnsOf(q, b) = {q.vars}
      BY <2>0 DEF Aligned, ColumnsOf
    <3>2. read' = [read EXCEPT ![c] = @ \cup {s}]
      <4>1. PICK cols \in ColumnsOf(q, b) :
               read' = [read EXCEPT ![c] = @ \cup
                 {[branch |-> b, ok |-> TRUE, rows |-> {RowOf(q, cols, a) : a \in A}]}]
        BY <1>5 DEF G
      <4>2. cols = q.vars
        BY <3>1
      <4> QED
        BY <4>1, <4>2
    <3>3. found' = [found EXCEPT ![c] = @ \cup new]
      BY <1>5 DEF G
    <3> QED
      BY <3>2, <3>3 DEF TypeInv
  <2>2. s.branch = b /\ s.rows = {RowOf(q, q.vars, a) : a \in A}
    OBVIOUS
  <2> HIDE DEF s
  <2>3. Waiting(c)' = Waiting(c) \cup W
    <3>1. {<<s.branch, x>> : x \in s.rows} = W
      BY <2>2
    <3> DEFINE pairs(r) == {<<r.branch, x>> : x \in r.rows}
    <3>2. \A y : y \in Waiting(c) <=> y \in rows[c] \/ \E r \in read[c] : y \in pairs(r)
      BY DEF Waiting
    <3>3. \A y : y \in Waiting(c)' <=> y \in rows'[c] \/ \E r \in read'[c] : y \in pairs(r)
      BY DEF Waiting
    <3>4. pairs(s) = W
      BY <3>1
    <3> HIDE DEF W, pairs
    <3>5. rows'[c] = rows[c]
      BY <1>1
    <3>6. \A y : y \in Waiting(c)' <=> y \in Waiting(c) \/ y \in W
      BY <2>1, <3>2, <3>3, <3>4, <3>5
    <3> QED
      BY <3>6
  <2>4. \A a \in A : a \in [VarsOf[b] -> URI] /\ b \in Branch
    BY <1>2
  <2>5. \A a \in A : RowOf(q, q.vars, a) \in RowSet(q) /\ MapOf(q, RowOf(q, q.vars, a)) = Selected(q, a)
    <3> SUFFICES ASSUME NEW a \in A
                 PROVE  RowOf(q, q.vars, a) \in RowSet(q)
                        /\ MapOf(q, RowOf(q, q.vars, a)) = Selected(q, a)
      OBVIOUS
    <3>1. a \in [VarsOf[b] -> URI]
      BY <2>4
    <3>2. RowOf(q, q.vars, a) \in RowSet(q)
      BY <1>2, <3>1 DEF RowSet
    <3>3. MapOf(q, RowOf(q, q.vars, a)) = Selected(q, a)
      BY <1>2, <1>3, <2>0, <3>1, RowShape, Zenon
    <3> QED
      BY <3>2, <3>3
  <2>6. Images(c)' = Images(c) \cup wanted
    <3>0. {x[2] : x \in W} = {RowOf(q, q.vars, a) : a \in A}
      <4>1. \A a \in A : <<b, RowOf(q, q.vars, a)>>[2] = RowOf(q, q.vars, a)
        OBVIOUS
      <4> QED
        BY <4>1
    <3>1. {x[2] : x \in Waiting(c) \cup W} = {x[2] : x \in Waiting(c)} \cup {x[2] : x \in W}
      <4> HIDE DEF W
      <4> QED
        OBVIOUS
    <3>2. {MapOf(q, r) : r \in {RowOf(q, q.vars, a) : a \in A}} = wanted
      BY <2>5
    <3> HIDE DEF W, wanted
    <3> QED
      BY <1>1, <2>3, <3>0, <3>1, <3>2 DEF Images
  <2>7. Wanted(c)' = Wanted(c) \cup wanted
    <3>1. {Selected(q, x[3]) : x \in new} = wanted
      <4>1. \A a \in A : <<d, b, a>> \in new /\ <<d, b, a>>[3] = a
        OBVIOUS
      <4>2. \A x \in new : x[3] \in A
        OBVIOUS
      <4> HIDE DEF A, new
      <4> QED
        BY <4>1, <4>2
    <3> HIDE DEF new, wanted
    <3> QED
      BY <1>1, <2>1, <3>1 DEF Wanted
  <2> HIDE DEF wanted
  <2>8. RowsOK(c)'
    <3>1. \A x \in W : x \in q.branches \X RowSet(q)
      BY <1>2, <2>5
    <3> HIDE DEF W
    <3> QED
      BY <1>1, <2>0, <2>3, <2>6, <2>7, <3>1 DEF RowsOK
  <2>9. CountsOK(c)'
    <3>1. IsFiniteSet(new) /\ IsFiniteSet(W) /\ Cardinality(W) <= Cardinality(new)
      <4> DEFINE E == {f \in facts[d] : f[1] = b /\ f[2] \in A}
                 g == [f \in E |-> <<d, b, f[2]>>]
                 h == [x \in new |-> <<b, RowOf(q, q.vars, x[3])>>]
      <4>1. IsFiniteSet(E)
        BY <1>3, FS_Subset
      <4>2. g \in Surjection(E, new)
        <5>1. \A a \in A : <<b, a>> \in E /\ <<b, a>>[2] = a
          BY <1>2
        <5>2. g \in [E -> new]
          OBVIOUS
        <5>3. \A y \in new : \E f \in E : g[f] = y
          BY <5>1
        <5> QED
          BY <5>2, <5>3 DEF Surjection
      <4>3. h \in Surjection(new, W)
        <5>1. \A a \in A : <<d, b, a>> \in new /\ <<d, b, a>>[3] = a
          OBVIOUS
        <5>2. h \in [new -> W]
          BY <5>1
        <5>3. \A y \in W : \E x \in new : h[x] = y
          BY <5>1
        <5> QED
          BY <5>2, <5>3 DEF Surjection
      <4> HIDE DEF new, W, E, g, h
      <4>4. IsFiniteSet(new)
        BY <4>1, <4>2, FS_Surjection
      <4> QED
        BY <4>3, <4>4, FS_Surjection
    <3>2. new \cap found[c] = {}
      <4> SUFFICES ASSUME NEW a \in A, <<d, b, a>> \in found[c] PROVE FALSE
        OBVIOUS
      <4>1. <<d, b, a>>[1] = d /\ <<d, b, a>>[2] = b
        OBVIOUS
      <4> QED
        BY <1>1, <1>2, <4>1 DEF SeenOK
    <3> HIDE DEF new, W
    <3>3. IsFiniteSet(found[c]) /\ IsFiniteSet(Waiting(c))
          /\ Gone(c) + Len(tree[c]) + Cardinality(Waiting(c)) <= Cardinality(found[c])
          /\ Gone(c) \in Nat /\ Len(tree[c]) \in Nat
      BY <2>0 DEF CountsOK, RowsOK, Gone
    <3>4. /\ IsFiniteSet(found[c] \cup new)
          /\ Cardinality(found[c] \cup new) = Cardinality(found[c]) + Cardinality(new)
      <4>1. found[c] \cap new = {}
        BY <3>2
      <4>2. Cardinality(found[c] \cap new) = 0
        BY <4>1, FS_EmptySet
      <4>3. IsFiniteSet(found[c] \cup new)
            /\ Cardinality(found[c] \cup new)
               = Cardinality(found[c]) + Cardinality(new) - Cardinality(found[c] \cap new)
        BY <3>1, <3>3, FS_Union
      <4> QED
        BY <3>1, <3>3, <4>2, <4>3, FS_CardinalityType
    <3>5. /\ IsFiniteSet(Waiting(c) \cup W)
          /\ Cardinality(Waiting(c) \cup W) <= Cardinality(Waiting(c)) + Cardinality(W)
      <4>1. /\ IsFiniteSet(Waiting(c) \cup W)
            /\ Cardinality(Waiting(c) \cup W)
               = Cardinality(Waiting(c)) + Cardinality(W) - Cardinality(Waiting(c) \cap W)
        BY <3>1, <3>3, FS_Union
      <4>2. Cardinality(Waiting(c) \cap W) \in Nat
        BY <3>3, FS_Intersection, FS_CardinalityType
      <4> QED
        BY <3>1, <3>3, <4>1, <4>2, FS_CardinalityType
    <3>6. Gone(c)' + Len(tree[c])' + Cardinality(Waiting(c)') <= Cardinality(found'[c])
      <4>1. /\ Cardinality(Waiting(c)) \in Nat /\ Cardinality(W) \in Nat /\ Cardinality(new) \in Nat
            /\ Cardinality(found[c]) \in Nat /\ Cardinality(Waiting(c) \cup W) \in Nat
        BY <3>1, <3>3, <3>5, FS_CardinalityType
      <4>2. Gone(c)' = Gone(c) /\ tree'[c] = tree[c]
        BY <1>1 DEF Gone
      <4> QED
        BY <2>1, <2>3, <3>1, <3>3, <3>4, <3>5, <4>1, <4>2
    <3>7. Cardinality(Wanted(c)' \ Images(c)') <= Gone(c)'
      <4>1. Wanted(c)' \ Images(c)' \in SUBSET (Wanted(c) \ Images(c))
        BY <2>6, <2>7
      <4>2. IsFiniteSet(Wanted(c))
        BY <3>3, WantedFinite DEF Wanted
      <4>3. IsFiniteSet(Wanted(c) \ Images(c))
        BY <4>2, FS_Difference
      <4>4. Cardinality(Wanted(c) \ Images(c)) \in Nat /\ Cardinality(Wanted(c)' \ Images(c)') \in Nat
            /\ Cardinality(Wanted(c)' \ Images(c)') <= Cardinality(Wanted(c) \ Images(c))
        BY <4>1, <4>3, FS_Subset, FS_CardinalityType
      <4>5. Gone(c)' = Gone(c) /\ Cardinality(Wanted(c) \ Images(c)) <= Gone(c)
        BY <1>1, <2>0 DEF Gone, CountsOK
      <4> QED
        BY <3>3, <4>4, <4>5
    <3> QED
      BY <1>1, <2>0, <2>1, <2>3, <3>4, <3>5, <3>6, <3>7 DEF CountsOK
  <2> QED
    BY <2>8, <2>9
<1> QED
  BY <1>4, <1>5, <1>6

\* Appending the rows of a branch loses none and adds none.
LEMMA AppendRows ==
    ASSUME TypeInv, NEW c \in Caller, RowsOK(c), CountsOK(c), NEW b \in Branch, Append1(c, b)
    PROVE  RowsOK(c)' /\ CountsOK(c)'
<1> DEFINE pairs(r) == {<<r.branch, x>> : x \in r.rows}
<1>1. PICK r \in read[c] : /\ r.branch = b
                           /\ read'[c] = read[c] \ {r}
                           /\ rows'[c] = rows[c] \cup {<<b, x>> : x \in r.rows}
  BY DEF Append1, TypeInv
<1>2. rows'[c] = rows[c] \cup pairs(r)
  BY <1>1
<1>3. \A y : y \in Waiting(c) <=> y \in rows[c] \/ \E z \in read[c] : y \in pairs(z)
  BY DEF Waiting
<1>4. \A y : y \in Waiting(c)' <=> y \in rows'[c] \/ \E z \in read'[c] : y \in pairs(z)
  BY DEF Waiting
<1> HIDE DEF pairs
<1>5. Waiting(c)' = Waiting(c)
  <2>1. \A y : y \in Waiting(c)' <=> y \in Waiting(c)
    BY <1>1, <1>2, <1>3, <1>4
  <2> QED
    BY <2>1
<1>6. UNCHANGED <<pc, query, tree, found, result>>
  BY DEF Append1
<1> QED
  BY <1>5, <1>6, RowsStay

\* Merging a row into the tree keeps every answer and repeats none.
LEMMA MergeRows ==
    ASSUME TypeInv, NEW c \in Caller, ControlOK(c), RowsOK(c), CountsOK(c), Merge(c)
    PROVE  RowsOK(c)' /\ CountsOK(c)'
<1> DEFINE q == query[c]
<1>1. pc[c] = "merge" /\ UNCHANGED <<pc, query, read, result, found>>
  BY DEF Merge
<1>2. PICK x \in rows[c] : \E i \in Places(tree[c], x[2]) :
          /\ tree'[c] = ReplaceOrInsert(tree[c], x[2], i)
          /\ rows'[c] = rows[c] \ {x}
  BY DEF Merge, TypeInv
<1>3. PICK i \in Places(tree[c], x[2]) :
          /\ tree'[c] = ReplaceOrInsert(tree[c], x[2], i)
          /\ rows'[c] = rows[c] \ {x}
  BY <1>2
<1>4. Waiting(c) = rows[c] /\ Waiting(c)' = rows[c] \ {x}
  <2>1. read[c] = {} /\ read'[c] = {}
    BY <1>1 DEF ControlOK
  <2> QED
    BY <1>3, <2>1 DEF Waiting
<1>5. SUFFICES ASSUME Aligned(q) PROVE RowsOK(c)' /\ CountsOK(c)'
  BY <1>1 DEF RowsOK, CountsOK
<1>6. q \in QueryType \cup {NoQuery} /\ tree[c] \in Seq(RowSet(q)) /\ x[2] \in RowSet(q)
      /\ i \in 0 .. Len(tree[c])
  BY <1>4, <1>5 DEF TypeInv, RowsOK, Places
<1>7. LET u == ReplaceOrInsert(tree[c], x[2], i)
      IN  u \in Seq(RowSet(q)) /\ Len(u) <= Len(tree[c]) + 1 /\ Range(u) = Range(tree[c]) \cup {x[2]}
  <2>1. ReplaceOrInsert(tree[c], x[2], i) \in Seq(RowSet(q))
    BY <1>5, <1>6, TreeKeepsRows
  <2>2. Len(ReplaceOrInsert(tree[c], x[2], i)) <= Len(tree[c]) + 1
    BY <1>5, <1>6, TreeKeepsRows
  <2>3. Range(ReplaceOrInsert(tree[c], x[2], i)) = Range(tree[c]) \cup {x[2]}
    BY <1>5, <1>6, TreeKeepsRows
  <2> QED
    BY <2>1, <2>2, <2>3
<1>8. tree'[c] \in Seq(RowSet(q)) /\ Len(tree'[c]) <= Len(tree[c]) + 1
      /\ Range(tree'[c]) = Range(tree[c]) \cup {x[2]}
  BY <1>3, <1>7
<1>9. Images(c)' = Images(c)
  <2>1. Range(tree'[c]) \cup {y[2] : y \in rows[c] \ {x}} = Range(tree[c]) \cup {y[2] : y \in rows[c]}
    BY <1>8
  <2> QED
    BY <1>1, <1>4, <2>1 DEF Images
<1>10. Wanted(c)' = Wanted(c) /\ Gone(c)' = Gone(c)
  BY <1>1 DEF Wanted, Gone
<1>11. RowsOK(c)'
  BY <1>1, <1>4, <1>5, <1>8, <1>9, <1>10 DEF RowsOK
<1>12. CountsOK(c)'
  <2>1. IsFiniteSet(rows[c]) /\ IsFiniteSet(found[c]) /\ Gone(c) \in Nat /\ Len(tree[c]) \in Nat
        /\ Gone(c) + Len(tree[c]) + Cardinality(rows[c]) <= Cardinality(found[c])
    BY <1>4, <1>5, <1>6 DEF CountsOK, RowsOK, Gone
  <2>2. IsFiniteSet(rows[c] \ {x}) /\ Cardinality(rows[c] \ {x}) = Cardinality(rows[c]) - 1
        /\ Cardinality(rows[c]) \in Nat /\ Cardinality(found[c]) \in Nat
    BY <2>1, FS_RemoveElement, FS_CardinalityType
  <2>3. Len(tree'[c]) \in Nat
    BY <1>8
  <2>4. Gone(c)' + Len(tree'[c]) + Cardinality(Waiting(c)') <= Cardinality(found'[c])
    BY SMTT(30), <1>1, <1>4, <1>8, <1>10, <2>1, <2>2, <2>3
  <2> QED
    BY <1>1, <1>4, <1>5, <1>9, <1>10, <2>1, <2>2, <2>4 DEF CountsOK
<1> QED
  BY <1>11, <1>12

\* Two sequences one after the other are a sequence, as long as both.
LEMMA ConcatLength ==
    ASSUME NEW S, NEW s \in Seq(S), NEW t \in Seq(S)
    PROVE  s \o t \in Seq(S) /\ Len(s \o t) = Len(s) + Len(t)
BY ConcatProperties

\* Draining the tree gives the rows it had, each once.
LEMMA DrainRows ==
    ASSUME TypeInv, NEW c \in Caller, ControlOK(c), RowsOK(c), CountsOK(c), Drain(c)
    PROVE  RowsOK(c)' /\ CountsOK(c)'
<1> DEFINE q == query[c]
           t == tree[c]
           drained == [i \in 1 .. Len(t) |-> MapOf(q, t[Len(t) + 1 - i])]
<1>1. pc[c] = "merge" /\ pc'[c] # "merge" /\ rows[c] = {} /\ UNCHANGED <<query, read, rows, found>>
  BY DEF Drain, TypeInv
<1>2. SUFFICES ASSUME Aligned(q) PROVE RowsOK(c)' /\ CountsOK(c)'
  BY <1>1 DEF RowsOK, CountsOK
<1>3. Waiting(c) = {} /\ Waiting(c)' = {}
  <2>1. read[c] = {} /\ read'[c] = {}
    BY <1>1 DEF ControlOK
  <2> QED
    BY <1>1, <2>1 DEF Waiting
<1>4. q \in QueryType \cup {NoQuery} /\ t \in Seq(RowSet(q)) /\ result[c].count \in Nat
      /\ result[c].rows \in Seq([Range(q.vars) -> URI]) /\ Len(t) \in Nat /\ DOMAIN t = 1 .. Len(t)
  BY <1>2 DEF TypeInv, RowsOK
<1>5. Images(c) = {MapOf(q, r) : r \in Range(t)}
  BY <1>3 DEF Images
<1>6. Wanted(c)' = Wanted(c)
  BY <1>1 DEF Wanted
<1>7. CASE q.count
  <2>1. result' = [result EXCEPT ![c].count = Len(t)] /\ tree' = tree
    BY <1>7 DEF Drain
  <2>2. result'[c].count = Len(t) /\ result'[c].rows = result[c].rows
    BY <2>1 DEF TypeInv
  <2>3. Images(c)' = Images(c) /\ Gone(c)' = Gone(c)
    BY <1>1, <1>3, <1>7, <2>1 DEF Images, Gone
  <2>4. RowsOK(c)'
    BY <1>1, <1>2, <1>3, <1>4, <1>7, <2>1, <2>2 DEF RowsOK
  <2>5. CountsOK(c)'
    BY <1>1, <1>2, <1>3, <1>6, <1>7, <2>1, <2>2, <2>3 DEF CountsOK
  <2> QED
    BY <2>4, <2>5
<1>8. CASE ~ q.count
  <2>1. /\ result' = [result EXCEPT ![c].rows = IF q.insert THEN @ ELSE @ \o drained,
                                    ![c].count = @ + Len(t)]
        /\ tree' = [tree EXCEPT ![c] = << >>]
    BY <1>8 DEF Drain
  <2>2. /\ \A i \in 1 .. Len(t) : Len(t) + 1 - i \in 1 .. Len(t) /\ Len(t) + 1 - (Len(t) + 1 - i) = i
    BY <1>4
  <2>3. drained \in Seq([Range(q.vars) -> URI]) /\ Len(drained) = Len(t)
    <3>1. \A j \in 1 .. Len(t) : MapOf(q, t[j]) \in [Range(q.vars) -> URI]
      <4> SUFFICES ASSUME NEW j \in 1 .. Len(t) PROVE MapOf(q, t[j]) \in [Range(q.vars) -> URI]
        OBVIOUS
      <4>1. t[j] \in RowSet(q)
        BY <1>4
      <4> QED
        BY <1>2, <1>4, <4>1, RowParts
    <3>2. \A i \in 1 .. Len(t) : MapOf(q, t[Len(t) + 1 - i]) \in [Range(q.vars) -> URI]
      BY <2>2, <3>1
    <3> DEFINE e(i) == MapOf(q, t[Len(t) + 1 - i])
               S == [Range(q.vars) -> URI]
    <3>3. \A i \in 1 .. Len(t) : e(i) \in S
      BY <3>2
    <3> HIDE DEF e, S
    <3>4. [i \in 1 .. Len(t) |-> e(i)] \in Seq(S) /\ Len([i \in 1 .. Len(t) |-> e(i)]) = Len(t)
      BY <1>4, <3>3
    <3> QED
      BY <3>4 DEF e, S
  <2>4. Range(drained) = Images(c)
    <3>1. DOMAIN drained = 1 .. Len(t)
      OBVIOUS
    <3>2. \A i \in 1 .. Len(t) : drained[i] = MapOf(q, t[Len(t) + 1 - i])
      OBVIOUS
    <3>3. \A i \in 1 .. Len(t) : MapOf(q, t[i]) = drained[Len(t) + 1 - i]
      BY <2>2, <3>2
    <3> HIDE DEF drained
    <3>4. \A y \in Range(drained) : y \in Images(c)
      BY <1>4, <1>5, <2>2, <3>1, <3>2 DEF Range
    <3>5. \A y \in Images(c) : y \in Range(drained)
      <4> SUFFICES ASSUME NEW y \in Images(c) PROVE y \in Range(drained)
        OBVIOUS
      <4>1. PICK r \in Range(t) : y = MapOf(q, r)
        BY <1>5
      <4>2. PICK i \in 1 .. Len(t) : r = t[i]
        BY <1>4 DEF Range
      <4>3. y = drained[Len(t) + 1 - i] /\ Len(t) + 1 - i \in 1 .. Len(t)
        BY <2>2, <3>3, <4>1, <4>2
      <4> QED
        BY <3>1, <4>3 DEF Range
    <3> QED
      BY <3>4, <3>5
  <2> HIDE DEF drained
  <2>5. /\ tree'[c] = << >> /\ result'[c].count = result[c].count + Len(t)
        /\ result'[c].rows = IF q.insert THEN result[c].rows ELSE result[c].rows \o drained
    BY <2>1 DEF TypeInv
  <2>6. Images(c)' = {}
    <3>1. Range(tree'[c]) = {}
      BY <2>5 DEF Range
    <3> QED
      BY <1>3, <3>1 DEF Images
  <2>7. ASSUME ~ q.insert
        PROVE  /\ result'[c].rows \in Seq([Range(q.vars) -> URI])
               /\ Len(result'[c].rows) = Len(result[c].rows) + Len(t)
               /\ Range(result'[c].rows) = Range(result[c].rows) \cup Images(c)
    <3> DEFINE s == result[c].rows
               u == s \o drained
               S == [Range(q.vars) -> URI]
    <3>0. s \in Seq(S) /\ drained \in Seq(S) /\ Len(drained) = Len(t)
      BY <1>4, <2>3
    <3> HIDE DEF S, s
    <3>1. u \in Seq(S) /\ Len(u) = Len(s) + Len(t)
      <4>1. u \in Seq(S) /\ Len(u) = Len(s) + Len(drained)
        BY <3>0, ConcatLength
      <4> HIDE DEF u
      <4> QED
        BY <3>0, <4>1
    <3>2. \A i \in 1 .. Len(s) : u[i] = s[i]
      BY <3>0
    <3>3. \A i \in 1 .. Len(t) : u[Len(s) + i] = drained[i]
      BY <3>0
    <3>4. DOMAIN s = 1 .. Len(s) /\ DOMAIN drained = 1 .. Len(t) /\ DOMAIN u = 1 .. Len(s) + Len(t)
          /\ Len(s) \in Nat
      BY <3>0, <3>1
    <3> HIDE DEF u
    <3>5. \A y \in Range(u) : y \in Range(s) \cup Range(drained)
      <4> SUFFICES ASSUME NEW y \in Range(u) PROVE y \in Range(s) \cup Range(drained)
        OBVIOUS
      <4>1. PICK i \in 1 .. Len(s) + Len(t) : y = u[i]
        BY <3>4 DEF Range
      <4>2. CASE i <= Len(s)
        BY <3>2, <3>4, <4>1, <4>2 DEF Range
      <4>3. CASE i > Len(s)
        <5>1. i - Len(s) \in 1 .. Len(t) /\ Len(s) + (i - Len(s)) = i
          BY <1>4, <3>4, <4>3
        <5>2. y = drained[i - Len(s)]
          BY <3>3, <4>1, <5>1
        <5> QED
          BY <3>4, <5>1, <5>2 DEF Range
      <4> QED
        BY <3>4, <4>2, <4>3
    <3>6. \A y \in Range(s) \cup Range(drained) : y \in Range(u)
      <4>1. \A i \in 1 .. Len(s) : i \in 1 .. Len(s) + Len(t)
        BY <1>4, <3>4
      <4>2. \A i \in 1 .. Len(t) : Len(s) + i \in 1 .. Len(s) + Len(t)
        BY <1>4, <3>4
      <4> QED
        BY <3>2, <3>3, <3>4, <4>1, <4>2 DEF Range
    <3>7. result'[c].rows = u
      BY <2>5, <2>7 DEF u, s
    <3>8. Range(u) = Range(s) \cup Images(c)
      BY <2>4, <3>5, <3>6
    <3> QED
      BY <3>1, <3>7, <3>8 DEF S, s
  <2>8. RowsOK(c)'
    <3>1. tree'[c] \in Seq(RowSet(q)) /\ result'[c].count \in Nat
      BY <1>4, <2>5
    <3>2. result'[c].rows \in Seq([Range(q.vars) -> URI])
      BY <1>4, <2>5, <2>7
    <3>3. ~ q.insert => Range(result'[c].rows) \cup Images(c)' = Wanted(c)'
      BY <1>2, <1>6, <1>8, <2>6, <2>7 DEF RowsOK
    <3> QED
      BY <1>1, <1>3, <3>1, <3>2, <3>3 DEF RowsOK
  <2>9. CountsOK(c)'
    <3>1. /\ IsFiniteSet(found[c]) /\ Gone(c) = result[c].count
          /\ Gone(c) + Len(t) + 0 <= Cardinality(found[c])
          /\ Cardinality(Wanted(c) \ Images(c)) <= Gone(c)
      BY <1>2, <1>3, <1>8, FS_EmptySet DEF CountsOK, Gone
    <3>2. Gone(c)' = Gone(c) + Len(t)
      BY <1>1, <1>8, <2>5, <3>1 DEF Gone
    <3>3. IsFiniteSet(Images(c)) /\ Cardinality(Images(c)) <= Len(t)
      <4>1. \A y : y \in Images(c) <=> \E r \in Range(t) : y = MapOf(q, r)
        BY <1>5
      <4>2. IsFiniteSet(Images(c))
        BY <1>4, <4>1, TreeImages
      <4>3. Cardinality(Images(c)) <= Len(t)
        BY <1>4, <4>1, TreeImages
      <4> QED
        BY <4>2, <4>3
    <3>4. IsFiniteSet(Wanted(c)) /\ IsFiniteSet(Wanted(c) \ Images(c))
      BY <3>1, WantedFinite, FS_Difference DEF Wanted
    <3>5. Cardinality(Wanted(c)) <= Gone(c) + Len(t)
      <4> DEFINE X == Wanted(c) \ Images(c)
      <4>1. Wanted(c) \in SUBSET (X \cup Images(c))
        OBVIOUS
      <4>2. IsFiniteSet(X)
        BY <3>4
      <4>6. Cardinality(X) <= Gone(c)
        BY <3>1
      <4> HIDE DEF X
      <4>3. /\ IsFiniteSet(X \cup Images(c))
            /\ Cardinality(X \cup Images(c))
               = Cardinality(X) + Cardinality(Images(c)) - Cardinality(X \cap Images(c))
        BY <3>3, <4>2, FS_Union
      <4>4. Cardinality(Wanted(c)) <= Cardinality(X \cup Images(c))
        BY <4>1, <4>3, FS_Subset
      <4>5. /\ Cardinality(X \cap Images(c)) \in Nat /\ Cardinality(X) \in Nat
            /\ Cardinality(Images(c)) \in Nat /\ Cardinality(Wanted(c)) \in Nat
        BY <3>3, <3>4, <4>2, FS_Intersection, FS_CardinalityType
      <4> QED
        BY <1>4, <3>1, <3>3, <4>3, <4>4, <4>5, <4>6
    <3>6. Cardinality(Wanted(c)' \ Images(c)') <= Gone(c)'
      <4>1. Wanted(c)' \ Images(c)' = Wanted(c)
        BY <1>6, <2>6
      <4> QED
        BY <3>2, <3>5, <4>1
    <3>7. Gone(c)' + Len(tree'[c]) + Cardinality(Waiting(c)') <= Cardinality(found'[c])
      <4>1. Cardinality(Waiting(c)') = 0 /\ Len(tree'[c]) = 0
        BY <1>3, <2>5, FS_EmptySet
      <4>2. Cardinality(found[c]) \in Nat /\ Gone(c) \in Nat
        BY <1>4, <3>1, FS_CardinalityType
      <4> QED
        BY <1>1, <1>4, <3>1, <3>2, <4>1, <4>2
    <3>8. ~ q.insert => result'[c].count = Len(result'[c].rows)
      BY <1>2, <1>8, <2>5, <2>7 DEF CountsOK
    <3>9. IsFiniteSet(Waiting(c)') /\ IsFiniteSet(found'[c])
      BY <1>1, <1>3, <3>1, FS_EmptySet
    <3> QED
      BY <1>1, <1>8, <3>6, <3>7, <3>8, <3>9 DEF CountsOK
  <2> QED
    BY <2>8, <2>9
<1> QED
  BY <1>7, <1>8

\* The other steps of a call leave its rows, or have none.
LEMMA OtherStepsRows ==
    ASSUME TypeInv, NEW c \in Caller, ControlOK(c), RowsOK(c), CountsOK(c),
           \/ runQuery(c) \/ Wait(c) \/ HandleInsert(c) \/ Commit(c) \/ InsertFails(c) \/ Return(c)
           \/ \E b \in Branch : Snapshot(c, b)
           \/ \E b \in Branch : \E k \in Key : Lookup(c, b, k) \/ Fill(c, b, k)
    PROVE  RowsOK(c)' /\ CountsOK(c)'
<1>1. query' = query /\ tree' = tree /\ found' = found /\ read' = read
  BY DEF runQuery, Wait, HandleInsert, Commit, InsertFails, Return, Snapshot, Lookup, Fill, callVars
<1>2. result'[c].rows = result[c].rows /\ result'[c].count = result[c].count
  <2>1. CASE Wait(c)
    BY <2>1 DEF Wait, TypeInv
  <2>2. CASE ~ Wait(c)
    <3>1. result' = result
      BY <2>2 DEF runQuery, HandleInsert, Commit, InsertFails, Return, Snapshot, Lookup, Fill,
                  callVars
    <3> QED
      BY <3>1
  <2> QED
    BY <2>1, <2>2
<1>3. rows'[c] = rows[c]
  BY DEF runQuery, Wait, HandleInsert, Commit, InsertFails, Return, Snapshot, Lookup, Fill,
         callVars, TypeInv, ControlOK
<1>4. Waiting(c)' = Waiting(c)
  BY <1>1, <1>3 DEF Waiting
<1>5. pc[c] # "merge" \/ pc' = pc
  <2>1. CASE runQuery(c) \/ Wait(c) \/ HandleInsert(c) \/ Commit(c) \/ Return(c)
    BY <2>1 DEF runQuery, Wait, HandleInsert, Commit, Return
  <2>2. CASE InsertFails(c)
    BY <2>2 DEF InsertFails
  <2>3. CASE \E b \in Branch : Snapshot(c, b)
    BY <2>3 DEF Snapshot
  <2>4. CASE \E b \in Branch : \E k \in Key : Lookup(c, b, k) \/ Fill(c, b, k)
    BY <2>4 DEF Lookup, Fill, callVars
  <2> QED
    BY <2>1, <2>2, <2>3, <2>4
<1> QED
  BY <1>1, <1>2, <1>4, <1>5, RowsStay

\* No call has rows at the start.
LEMMA RowsInit == Init => RowsInv
<1> SUFFICES ASSUME Init PROVE RowsInv
  OBVIOUS
<1>1. ASSUME NEW c \in Caller
      PROVE  RowsOK(c) /\ CountsOK(c)
  <2>1. query[c].vars = << >> /\ found[c] = {} /\ rows[c] = {} /\ read[c] = {} /\ tree[c] = << >>
        /\ result[c] = EmptyResult
    BY DEF Init, NoQuery
  <2>2. query[c].vars \in Seq(Variable)
    BY <2>1
  <2> QED
    BY <2>1, <2>2, NothingFound
<1> QED
  BY <1>1, CallInit DEF RowsInv

\* What is known of each call's rows is kept by every step of every call.
LEMMA RowsNext == RowsInv /\ [Next]_vars => RowsInv'
<1> SUFFICES ASSUME RowsInv, [Next]_vars PROVE RowsInv'
  OBVIOUS
<1>0. CallInv' /\ CallInv
  BY CallNext DEF RowsInv
<1>1. CASE \E c \in Caller : CStep(c)
  <2>1. PICK c \in Caller : CStep(c)
    BY <1>1
  <2>2. /\ TypeInv /\ ControlOK(c) /\ ContextOK(c) /\ SeenOK(c) /\ RowsOK(c) /\ CountsOK(c)
        /\ TypeInv'
    BY <1>0 DEF RowsInv, CallInv, CallOK
  <2>3. RowsOK(c)' /\ CountsOK(c)'
    <3>1. CASE RunQuery(c)
      <4>1. pc[c] = "idle" /\ UNCHANGED <<found, rows, read, tree, result>>
        BY <3>1 DEF RunQuery
      <4>2. found'[c] = {} /\ rows'[c] = {} /\ read'[c] = {} /\ tree'[c] = << >>
            /\ result'[c] = EmptyResult
        BY <2>2, <4>1 DEF ControlOK
      <4>3. query'[c].vars \in Seq(Variable)
        BY <2>2, QueryFields DEF TypeInv
      <4>4. Waiting(c)' = {} /\ Wanted(c)' = {} /\ Range(tree'[c]) = {} /\ Len(tree'[c]) = 0
        BY <4>2 DEF Waiting, Wanted, Range
      <4>5. Images(c)' = {}
        BY <4>4 DEF Images
      <4>6. result'[c].rows = << >> /\ result'[c].count = 0 /\ Range(result'[c].rows) = {}
        BY <4>2 DEF EmptyResult, Range
      <4>7. RowsOK(c)'
        BY <4>2, <4>3, <4>4, <4>5, <4>6 DEF RowsOK
      <4>8. CountsOK(c)'
        BY <4>2, <4>4, <4>5, <4>6, FS_EmptySet DEF CountsOK, Gone
      <4> QED
        BY <4>7, <4>8
    <3>2. CASE ~ RunQuery(c)
      BY <2>1, <2>2, <3>2, GetResultsRows, AppendRows, MergeRows, DrainRows, OtherStepsRows
         DEF CStep, Step, BranchStep
    <3> QED
      BY <3>1, <3>2
  <2>4. ASSUME NEW u \in Caller, u # c
        PROVE  RowsOK(u)' /\ CountsOK(u)'
    <3>1. Call(u)' = Call(u)
      BY <2>1, <2>2, <2>4, OthersStay
    <3>2. Waiting(u)' = Waiting(u)
      BY <3>1 DEF Call, Waiting
    <3> QED
      BY <3>1, <3>2, RowsStay DEF Call, RowsInv
  <2> QED
    BY <1>0, <2>3, <2>4 DEF RowsInv
<1>2. CASE UNCHANGED vars \/ \E d \in DB : Evict(d)
  <2>1. ASSUME NEW u \in Caller
        PROVE  RowsOK(u)' /\ CountsOK(u)'
    <3>1. UNCHANGED <<query, tree, found, result, read, rows, pc>>
      BY <1>2 DEF vars, callVars, Evict
    <3>2. Waiting(u)' = Waiting(u)
      BY <3>1 DEF Waiting
    <3> QED
      BY <3>1, <3>2, RowsStay DEF RowsInv
  <2> QED
    BY <1>0, <2>1 DEF RowsInv
<1> QED
  BY <1>1, <1>2 DEF Next, CStep

\* Where the rows of a call are: with its branches, in the B-tree, in the result.
THEOREM RowsInvariant == Spec => []RowsInv
<1> QED
  BY RowsInit, RowsNext, PTL DEF Spec

\* The rows of a SELECT are those its branches found, neither more nor fewer,
\* whatever the B-tree makes of an order that is none.
THEOREM AlwaysAnswersWhatWasFound == Spec => []AnswersWhatWasFound
<1>1. RowsInv => AnswersWhatWasFound
  <2> SUFFICES ASSUME RowsInv, NEW c \in Caller, Returned(c), ~ query[c].insert, ~ query[c].count,
                      Aligned(query[c])
               PROVE  Range(result[c].rows) = {Selected(query[c], x[3]) : x \in found[c]}
    BY DEF AnswersWhatWasFound
  <2>1. tree[c] = << >> /\ rows[c] = {} /\ read[c] = {}
    BY DEF RowsInv, CallInv, CallOK, ControlOK, Returned
  <2>2. Waiting(c) = {} /\ Range(tree[c]) = {}
    BY <2>1 DEF Waiting, Range
  <2>3. Images(c) = {}
    BY <2>2 DEF Images
  <2> QED
    BY <2>3 DEF RowsInv, RowsOK, Wanted
<1> QED
  BY <1>1, RowsInvariant, PTL

\* The Count of a result of RunQuery lies between the number of distinct rows and
\* the number of rows its branches found.
THEOREM AlwaysCountsRows == Spec => []CountsRows
<1>1. RowsInv => CountsRows
  <2> SUFFICES ASSUME RowsInv, NEW c \in Caller, Returned(c), Aligned(query[c])
               PROVE  /\ result[c].count >= Cardinality({Selected(query[c], x[3]) : x \in found[c]})
                      /\ result[c].count <= Cardinality(found[c])
                      /\ ~ query[c].count /\ ~ query[c].insert => result[c].count = Len(result[c].rows)
    BY DEF CountsRows
  <2>1. RowsOK(c) /\ CountsOK(c) /\ ControlOK(c) /\ TypeInv /\ pc[c] = "returned"
    BY DEF RowsInv, CallInv, CallOK, Returned
  <2>2. Waiting(c) = {}
    <3>1. rows[c] = {} /\ read[c] = {}
      BY <2>1 DEF ControlOK
    <3> QED
      BY <3>1 DEF Waiting
  <2>3. /\ IsFiniteSet(found[c]) /\ Gone(c) \in Nat /\ result[c].count \in Nat
        /\ Gone(c) + Len(tree[c]) + Cardinality(Waiting(c)) <= Cardinality(found[c])
        /\ Cardinality(Wanted(c) \ Images(c)) <= Gone(c)
        /\ query[c].count => result[c].count = Len(tree[c])
        /\ ~ query[c].count /\ ~ query[c].insert => result[c].count = Len(result[c].rows)
        /\ tree[c] \in Seq(RowSet(query[c]))
    BY <2>1 DEF CountsOK, RowsOK, Gone
  <2>4. Cardinality(Waiting(c)) = 0 /\ Cardinality(found[c]) \in Nat /\ Len(tree[c]) \in Nat
    BY <2>2, <2>3, FS_EmptySet, FS_CardinalityType
  <2>5. Gone(c) + Len(tree[c]) = result[c].count
    <3>1. CASE query[c].count
      BY <2>3, <2>4, <3>1 DEF Gone
    <3>2. CASE ~ query[c].count
      <4>1. tree[c] = << >>
        BY <2>1, <3>2 DEF ControlOK
      <4> QED
        BY <2>3, <3>2, <4>1 DEF Gone
    <3> QED
      BY <3>1, <3>2
  <2>6. Images(c) = {MapOf(query[c], r) : r \in Range(tree[c])}
    BY <2>2 DEF Images
  <2>7. IsFiniteSet(Images(c)) /\ Cardinality(Images(c)) <= Len(tree[c])
    <3>1. \A y : y \in Images(c) <=> \E r \in Range(tree[c]) : y = MapOf(query[c], r)
      BY <2>6
    <3>2. IsFiniteSet(Images(c))
      BY <2>3, <3>1, TreeImages
    <3>3. Cardinality(Images(c)) <= Len(tree[c])
      BY <2>3, <3>1, TreeImages
    <3> QED
      BY <3>2, <3>3
  <2>8. IsFiniteSet(Wanted(c)) /\ IsFiniteSet(Wanted(c) \ Images(c))
    BY <2>3, WantedFinite, FS_Difference DEF Wanted
  <2>9. Cardinality(Wanted(c)) <= Gone(c) + Len(tree[c])
    <3> DEFINE X == Wanted(c) \ Images(c)
    <3>1. Wanted(c) \in SUBSET (X \cup Images(c))
      OBVIOUS
    <3>2. IsFiniteSet(X) /\ Cardinality(X) <= Gone(c)
      BY <2>3, <2>8
    <3> HIDE DEF X
    <3>3. /\ IsFiniteSet(X \cup Images(c))
          /\ Cardinality(X \cup Images(c))
             = Cardinality(X) + Cardinality(Images(c)) - Cardinality(X \cap Images(c))
      BY <2>7, <3>2, FS_Union
    <3>4. Cardinality(Wanted(c)) <= Cardinality(X \cup Images(c))
      BY <3>1, <3>3, FS_Subset
    <3>5. /\ Cardinality(X \cap Images(c)) \in Nat /\ Cardinality(X) \in Nat
          /\ Cardinality(Images(c)) \in Nat /\ Cardinality(Wanted(c)) \in Nat
      BY <2>7, <2>8, <3>2, FS_Intersection, FS_CardinalityType
    <3> QED
      BY <2>3, <2>4, <2>7, <3>2, <3>3, <3>4, <3>5
  <2>10. Cardinality(Wanted(c)) \in Nat
    BY <2>8, FS_CardinalityType
  <2> QED
    BY <2>3, <2>4, <2>5, <2>9, <2>10 DEF Wanted
<1> QED
  BY <1>1, RowsInvariant, PTL
=============================================================================
