------------------------------- MODULE Loader -------------------------------
(***************************************************************************)
(* Starting HodDB (NewHodDB and loadDataset in db/hoddb.go): worker        *)
(* goroutines load the Turtle file of each building into its database,     *)
(* unless the file has the hash the file "fileHashes" recorded for it, and *)
(* the first error any of them reports fails the start.  The process may   *)
(* exit at any point; files may be edited at any time.                     *)
(*                                                                         *)
(* The content of a file, its hash, and the triples it holds are one       *)
(* version number, 0 standing for a file that was never loaded.  What a    *)
(* load does inside a database is module TripleStore.  turtle.Parse never  *)
(* fails: of a file that is missing or no Turtle raptor gives the triples  *)
(* up to the error, and these are the version that is loaded.              *)
(***************************************************************************)
EXTENDS Naturals, FiniteSets

CONSTANTS
    Building,   \* names of the "buildings" section of the config
    File,       \* Turtle files
    FileOf,     \* the file of each building
    Worker,     \* the loading goroutines
    None,       \* no building
    MaxEdits,   \* bound on the edits of a file
    MaxStarts,  \* bound on the starts of the process
    MaxFailures \* bound on the operations of the file system that fail

ASSUME BuildingAssumption == IsFiniteSet(Building) /\ None \notin Building
ASSUME WorkerAssumption == IsFiniteSet(Worker)
ASSUME FileOfAssumption == FileOf \in [Building -> File]
ASSUME BoundsAssumption == {MaxEdits, MaxStarts, MaxFailures} \subseteq Nat

VARIABLES
    \* on disk
    version,    \* what each file holds
    saved,      \* the hashes in fileHashes
    torn,       \* fileHashes was created and not yet written: it cannot be decoded
    content,    \* the versions of its file that each building's database holds
    \* in memory
    main,       \* where NewHodDB is
    loadedfilehashes,
    queue,      \* buildings not yet sent to the workers
    errs,       \* how many errors are in errchan
    loadwg,     \* the wait group
    dbs,        \* hod.dbs
    buildings,  \* hod.buildings, appended to without the lock
    worker,     \* per worker: where it is, its building, hash, and view of buildings
    \* history
    asked,      \* what each file held when the process started
    lost,       \* a start went on although an error was in errchan
    starts, failures

disk == <<version, saved, torn, content>>
history == <<asked, lost, starts, failures>>
vars == <<disk, main, loadedfilehashes, queue, errs, loadwg, dbs, buildings, worker, history>>

Idle == [at |-> "idle", b |-> None, hash |-> 0, seen |-> {}]

Init ==
    /\ version = [f \in File |-> 1]
    /\ saved = [f \in File |-> 0]
    /\ torn = FALSE
    /\ content = [b \in Building |-> {}]
    /\ main = "down"
    /\ loadedfilehashes = [f \in File |-> 0]
    /\ queue = {} /\ errs = 0 /\ loadwg = 0
    /\ dbs = {} /\ buildings = {}
    /\ worker = [w \in Worker |-> Idle]
    /\ asked = version
    /\ lost = FALSE
    /\ starts = 0 /\ failures = 0

-----------------------------------------------------------------------------
(* The process, and the goroutine that called NewHodDB.                    *)

Start ==
    /\ main = "down"
    /\ starts < MaxStarts
    /\ starts' = starts + 1
    /\ asked' = version
    /\ main' = IF torn THEN "failed" ELSE "loading"
    /\ loadedfilehashes' = IF torn THEN loadedfilehashes ELSE saved
    /\ queue' = IF torn THEN {} ELSE Building
    /\ loadwg' = IF torn THEN 0 ELSE Cardinality(Building)
    /\ UNCHANGED <<disk, errs, dbs, buildings, worker, lost, failures>>

\* The process stops, by itself or not: nothing but the disk is left.
Exit ==
    /\ main # "down"
    /\ main' = "down"
    /\ loadedfilehashes' = [f \in File |-> 0]
    /\ queue' = {} /\ errs' = 0 /\ loadwg' = 0
    /\ dbs' = {} /\ buildings' = {}
    /\ worker' = [w \in Worker |-> Idle]
    /\ UNCHANGED <<disk, history>>

Edit(f) ==
    /\ version[f] <= MaxEdits
    /\ version' = [version EXCEPT ![f] = @ + 1]
    /\ UNCHANGED <<saved, torn, content, main, loadedfilehashes, queue, errs, loadwg,
                   dbs, buildings, worker, history>>

\* The select: when an error and the end of the loading are both there, either
\* may be taken.
SelectError ==
    /\ main = "loading"
    /\ errs > 0
    /\ errs' = errs - 1
    /\ main' = "failed"
    /\ UNCHANGED <<disk, loadedfilehashes, queue, loadwg, dbs, buildings, worker, history>>

\* The feeding goroutine has sent every building, and its Wait returns.
SelectDone ==
    /\ main = "loading"
    /\ queue = {}
    /\ loadwg = 0
    /\ main' = "saving"
    /\ lost' = (lost \/ errs > 0)
    /\ UNCHANGED <<disk, loadedfilehashes, queue, errs, loadwg, dbs, buildings, worker,
                   asked, starts, failures>>

\* saveIndexes: os.Create empties the file, Encode fills it.
CreateHashes ==
    /\ main = "saving"
    /\ torn' = TRUE
    /\ main' = "encoding"
    /\ UNCHANGED <<version, saved, content, loadedfilehashes, queue, errs, loadwg, dbs,
                   buildings, worker, history>>

EncodeHashes ==
    /\ main = "encoding"
    /\ torn' = FALSE
    /\ saved' = loadedfilehashes
    /\ main' = "ready"
    /\ UNCHANGED <<version, content, loadedfilehashes, queue, errs, loadwg, dbs, buildings,
                   worker, history>>

SaveFails ==
    /\ main \in {"saving", "encoding"}
    /\ failures < MaxFailures
    /\ failures' = failures + 1
    /\ main' = "failed"
    /\ UNCHANGED <<disk, loadedfilehashes, queue, errs, loadwg, dbs, buildings, worker,
                   asked, lost, starts>>

-----------------------------------------------------------------------------
(* A worker.  A start that failed leaves the workers running.              *)

At(w, s) == worker[w].at = s
B(w) == worker[w].b
F(w) == FileOf[B(w)]
Go(w, s) == worker' = [worker EXCEPT ![w].at = s]

\* The wait group counted down before the building is loaded.
SlipDoneEarly(w) ==
    /\ At(w, "idle")
    /\ \E b \in queue :
          /\ queue' = queue \ {b}
          /\ worker' = [worker EXCEPT ![w] = [Idle EXCEPT !.at = "hash", !.b = b]]
    /\ loadwg' = loadwg - 1
    /\ UNCHANGED <<disk, main, loadedfilehashes, errs, dbs, buildings, history>>

Receive(w) ==
    /\ At(w, "idle")
    /\ \E b \in queue :
          /\ queue' = queue \ {b}
          /\ worker' = [worker EXCEPT ![w] = [Idle EXCEPT !.at = "hash", !.b = b]]
    /\ UNCHANGED <<disk, main, loadedfilehashes, errs, loadwg, dbs, buildings, history>>

Hash(w) ==
    /\ At(w, "hash")
    /\ worker' = [worker EXCEPT ![w].at = "check", ![w].hash = version[F(w)]]
    /\ UNCHANGED <<disk, main, loadedfilehashes, queue, errs, loadwg, dbs, buildings, history>>

\* A file that was loaded once is not loaded again, whatever it holds.
SlipFoundOnly(w) ==
    /\ At(w, "check")
    /\ Go(w, IF loadedfilehashes[F(w)] # 0 THEN "reopen" ELSE "append")
    /\ UNCHANGED <<disk, main, loadedfilehashes, queue, errs, loadwg, dbs, buildings, history>>

Check(w) ==
    /\ At(w, "check")
    /\ Go(w, IF loadedfilehashes[F(w)] = worker[w].hash THEN "reopen" ELSE "append")
    /\ UNCHANGED <<disk, main, loadedfilehashes, queue, errs, loadwg, dbs, buildings, history>>

Reopen(w) ==
    /\ At(w, "reopen")
    /\ dbs' = dbs \cup {B(w)}
    /\ Go(w, "append")
    /\ UNCHANGED <<disk, main, loadedfilehashes, queue, errs, loadwg, buildings, history>>

\* hod.buildings = append(hod.buildings, name): the slice is read ...
AppendRead(w) ==
    /\ At(w, "append")
    /\ worker' = [worker EXCEPT ![w].at = "appending", ![w].seen = buildings]
    /\ UNCHANGED <<disk, main, loadedfilehashes, queue, errs, loadwg, dbs, buildings, history>>

\* loadwg.Done() forgotten where the file has not changed.
SlipNoDone(w) ==
    /\ At(w, "appending")
    /\ buildings' = worker[w].seen \cup {B(w)}
    /\ worker' = [worker EXCEPT ![w] =
          IF B(w) \in dbs THEN Idle ELSE [@ EXCEPT !.at = "record", !.seen = {}]]
    /\ UNCHANGED <<disk, main, loadedfilehashes, queue, errs, loadwg, dbs, history>>

\* ... and written, which undoes what another worker wrote in between.  That is
\* all there is to do for a database that was only reopened.
AppendWrite(w) ==
    /\ At(w, "appending")
    /\ buildings' = worker[w].seen \cup {B(w)}
    /\ worker' = [worker EXCEPT ![w].at = IF B(w) \in dbs THEN "done" ELSE "record",
                                ![w].seen = {}]
    /\ UNCHANGED <<disk, main, loadedfilehashes, queue, errs, loadwg, dbs, history>>

\* The hash is recorded before the file is loaded.
Record(w) ==
    /\ At(w, "record")
    /\ loadedfilehashes' = [loadedfilehashes EXCEPT ![F(w)] = worker[w].hash]
    /\ Go(w, "load")
    /\ UNCHANGED <<disk, main, queue, errs, loadwg, dbs, buildings, history>>

\* The database stored without the file having been loaded into it.
SlipNoLoad(w) ==
    /\ At(w, "load")
    /\ Go(w, "index")
    /\ UNCHANGED <<disk, main, loadedfilehashes, queue, errs, loadwg, dbs, buildings, history>>

\* loadDataset: the database is opened, the file is read (again) and parsed as far
\* as raptor gets, and the transaction that adds its triples commits ...
Load(w) ==
    /\ At(w, "load")
    /\ content' = [content EXCEPT ![B(w)] = @ \cup {version[F(w)]}]
    /\ Go(w, "index")
    /\ UNCHANGED <<version, saved, torn, main, loadedfilehashes, queue, errs, loadwg, dbs,
                   buildings, history>>

\* ... then its text index and its other indexes are written.
Index(w) ==
    /\ At(w, "index")
    /\ dbs' = dbs \cup {B(w)}
    /\ Go(w, "done")
    /\ UNCHANGED <<disk, main, loadedfilehashes, queue, errs, loadwg, buildings, history>>

\* Whatever the worker asks of the file system may fail: reading the file to hash
\* it, opening the database, its transaction, the indexes.  Parsing does not.
Fail(w) ==
    /\ worker[w].at \in {"hash", "reopen", "load", "index"}
    /\ failures < MaxFailures
    /\ failures' = failures + 1
    /\ Go(w, "send")
    /\ UNCHANGED <<disk, main, loadedfilehashes, queue, errs, loadwg, dbs, buildings,
                   asked, lost, starts>>

\* Room for a single error.
SlipErrchanSize == 1

\* errchan has room for one error of each building.
ErrchanSize == Cardinality(Building)

\* errchan <- err
SendError(w) ==
    /\ At(w, "send")
    /\ errs < ErrchanSize
    /\ errs' = errs + 1
    /\ Go(w, "done")
    /\ UNCHANGED <<disk, main, loadedfilehashes, queue, loadwg, dbs, buildings, history>>

Done(w) ==
    /\ At(w, "done")
    /\ loadwg' = loadwg - 1
    /\ worker' = [worker EXCEPT ![w] = Idle]
    /\ UNCHANGED <<disk, main, loadedfilehashes, queue, errs, dbs, buildings, history>>

WorkerStep(w) ==
    \/ Receive(w) \/ Hash(w) \/ Check(w) \/ Reopen(w) \/ AppendRead(w) \/ AppendWrite(w)
    \/ Record(w) \/ Load(w) \/ Index(w) \/ SendError(w) \/ Done(w)

MainStep == SelectError \/ SelectDone \/ CreateHashes \/ EncodeHashes

Next ==
    \/ Start \/ Exit \/ MainStep \/ SaveFails
    \/ \E f \in File : Edit(f)
    \/ \E w \in Worker : WorkerStep(w) \/ Fail(w)

Spec == Init /\ [][Next]_vars

\* Goroutines that can go on are scheduled; nothing makes the process start or
\* exit, a file change or an operation fail.
FairSpec == Spec /\ WF_vars(MainStep) /\ \A w \in Worker : WF_vars(WorkerStep(w))

-----------------------------------------------------------------------------
(* Properties.                                                             *)

Steps == {"idle", "hash", "check", "reopen", "append", "appending", "record", "load",
          "index", "send", "done"}

\* The ranges of the variables, and what the wait group counts: the buildings
\* not sent yet and those a worker is at, so that it never goes below zero.
TypeOK ==
    /\ version \in [File -> Nat]
    /\ saved \in [File -> Nat] /\ loadedfilehashes \in [File -> Nat]
    /\ torn \in BOOLEAN /\ lost \in BOOLEAN
    /\ content \in [Building -> SUBSET Nat]
    /\ main \in {"down", "loading", "saving", "encoding", "ready", "failed"}
    /\ queue \subseteq Building /\ dbs \subseteq Building /\ buildings \subseteq Building
    /\ errs \in 0 .. Cardinality(Building)
    /\ worker \in [Worker -> [at : Steps, b : Building \cup {None}, hash : Nat,
                              seen : SUBSET Building]]
    /\ asked \in [File -> Nat]
    /\ starts \in 0 .. MaxStarts /\ failures \in 0 .. MaxFailures
    /\ loadwg = Cardinality(queue) + Cardinality({w \in Worker : ~ At(w, "idle")})

\* Once NewHodDB has closed errchan no worker is at work any more: none can send
\* on the closed channel, or change loadedfilehashes while they are encoded.
ClosedWhenQuiet ==
    main \in {"saving", "encoding", "ready"} => queue = {} /\ \A w \in Worker : At(w, "idle")

\* A worker with an error to report always finds room in errchan: it never
\* keeps the wait group from being counted down, even when nobody receives.
ErrorsFit == \A w \in Worker : At(w, "send") => errs < ErrchanSize

\* HodDB is ready with every building in its database, as recent at least as
\* its file was when the process started.
LoadsAnew ==
    main = "ready" => \A b \in Building :
        b \in dbs /\ \E v \in content[b] : v >= asked[FileOf[b]]

\* A start that ends well has loaded all that changed, through any number of
\* failed and interrupted starts before it, unless the select went past an error
\* (then, or in an earlier start that recorded the hash).
LoadsUnlessLost == ~ lost => LoadsAnew

\* A recorded hash stands for a load that was committed, wherever starts fail
\* or the process exits, with the same reservation.
SavedMeansLoaded ==
    ~ lost => \A b \in Building :
        saved[FileOf[b]] # 0 => \E v \in content[b] : v >= saved[FileOf[b]]

\* NewHodDB returns.
StartsEnd == main = "loading" ~> main # "loading"

=============================================================================
