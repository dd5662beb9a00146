---------------------------- MODULE LoaderProofs ----------------------------
(***************************************************************************)
(* Proofs about Loader, for every number of buildings, files and workers.  *)
(***************************************************************************)
EXTENDS Loader, FiniteSetTheorems, TLAPS

USE BuildingAssumption, WorkerAssumption, FileOfAssumption, BoundsAssumption

-----------------------------------------------------------------------------
(* The wait group.                                                         *)

Busy == {w \in Worker : ~ At(w, "idle")}

\* A worker that is at work has a building; a process that is not running has
\* nothing in memory.
ControlOK ==
    /\ \A w \in Busy : B(w) \in Building
    /\ main = "down" => queue = {} /\ Busy = {}

\* TypeOK says what the wait group counts, which makes ClosedWhenQuiet inductive.
QuietInv == TypeOK /\ ControlOK /\ ClosedWhenQuiet

\* Nothing is queued and no worker is busy at the start.
LEMMA QuietInit == Init => QuietInv
<1> SUFFICES ASSUME Init PROVE QuietInv
  OBVIOUS
<1>1. Busy = {}
  BY DEF Busy, At, Init, Idle
<1>2. Cardinality({}) = 0 /\ Cardinality(Building) \in Nat
  BY FS_EmptySet, FS_CardinalityType
<1>3. loadwg = Cardinality(queue) + Cardinality({w \in Worker : ~ At(w, "idle")})
  BY <1>1, <1>2 DEF Init, Busy
<1>4. worker \in [Worker -> [at : Steps, b : Building \cup {None}, hash : Nat,
                             seen : SUBSET Building]]
  BY DEF Init, Idle, Steps
<1>5. TypeOK
  <2>1. errs \in 0 .. Cardinality(Building) /\ starts \in 0 .. MaxStarts
        /\ failures \in 0 .. MaxFailures
    BY <1>2 DEF Init
  <2>2. {saved, loadedfilehashes, version, asked} \subseteq [File -> Nat]
        /\ content \in [Building -> SUBSET Nat]
    BY DEF Init
  <2> QED
    BY <1>3, <1>4, <2>1, <2>2 DEF Init, TypeOK
<1>6. ControlOK /\ ClosedWhenQuiet
  BY <1>1 DEF Init, ControlOK, ClosedWhenQuiet
<1> QED
  BY <1>5, <1>6 DEF QuietInv

\* The wait group counts queue and Busy: both are empty exactly when it is 0.
LEMMA CountsAreZero ==
    ASSUME TypeOK
    PROVE  /\ IsFiniteSet(queue) /\ IsFiniteSet(Busy)
           /\ Cardinality(queue) \in Nat /\ Cardinality(Busy) \in Nat
           /\ loadwg = Cardinality(queue) + Cardinality(Busy)
           /\ loadwg = 0 => queue = {} /\ Busy = {}
<1>1. IsFiniteSet(queue) /\ IsFiniteSet(Busy)
  <2>1. queue \in SUBSET Building /\ Busy \in SUBSET Worker
    BY DEF TypeOK, Busy
  <2> QED
    BY <2>1, FS_Subset
<1>2. Cardinality(queue) \in Nat /\ Cardinality(Busy) \in Nat
  BY <1>1, FS_CardinalityType
<1>3. loadwg = Cardinality(queue) + Cardinality(Busy)
  BY DEF TypeOK, Busy
<1>4. loadwg = 0 => Cardinality(queue) = 0 /\ Cardinality(Busy) = 0
  BY <1>2, <1>3
<1> QED
  BY <1>1, <1>2, <1>3, <1>4, FS_EmptySet

\* A worker that goes on with its building: queue and Busy stay as they are.
LEMMA SameBusy ==
    ASSUME TypeOK, ControlOK, ClosedWhenQuiet,
           NEW w \in Busy, NEW r,
           r \in [at : Steps \ {"idle"}, b : {B(w)}, hash : Nat, seen : SUBSET Building],
           worker' = [worker EXCEPT ![w] = r],
           UNCHANGED <<queue, main, loadwg>>
    PROVE  /\ worker' \in [Worker -> [at : Steps, b : Building \cup {None}, hash : Nat,
                                      seen : SUBSET Building]]
           /\ loadwg' = Cardinality(queue') + Cardinality(Busy')
           /\ ControlOK' /\ ClosedWhenQuiet'
<1>1. w \in Worker /\ B(w) \in Building
  BY DEF Busy, ControlOK
<1>2. worker' \in [Worker -> [at : Steps, b : Building \cup {None}, hash : Nat,
                              seen : SUBSET Building]]
  BY <1>1 DEF TypeOK
<1>3. Busy' = Busy
  BY <1>1 DEF Busy, At, TypeOK
<1>4. \A u \in Busy' : worker'[u].b \in Building
  BY <1>1, <1>3 DEF Busy, B, TypeOK, ControlOK
<1>5. main \notin {"saving", "encoding", "ready", "down"}
  BY DEF ClosedWhenQuiet, Busy, ControlOK
<1> QED
  BY <1>2, <1>3, <1>4, <1>5 DEF TypeOK, ControlOK, ClosedWhenQuiet, B, Busy

\* A worker takes a building from the channel.
LEMMA ReceiveQuiet ==
    ASSUME QuietInv, NEW w \in Worker, Receive(w)
    PROVE  QuietInv'
<1> USE DEF QuietInv
<1>1. PICK c \in queue :
          /\ queue' = queue \ {c}
          /\ worker' = [worker EXCEPT ![w] = [Idle EXCEPT !.at = "hash", !.b = c]]
  BY DEF Receive
<1>2. c \in Building
  BY DEF TypeOK
<1>3. worker' \in [Worker -> [at : Steps, b : Building \cup {None}, hash : Nat,
                              seen : SUBSET Building]]
  BY <1>1, <1>2 DEF TypeOK, Idle, Steps
<1>4. Busy' = Busy \cup {w} /\ w \notin Busy
  BY <1>1 DEF Receive, Busy, At, Idle, TypeOK
<1>5. Cardinality(queue') = Cardinality(queue) - 1 /\ Cardinality(Busy') = Cardinality(Busy) + 1
  BY <1>1, <1>4, CountsAreZero, FS_AddElement, FS_RemoveElement
<1>6. loadwg' = Cardinality(queue') + Cardinality(Busy')
  BY <1>5, CountsAreZero DEF Receive
<1>7. TypeOK'
  BY <1>1, <1>3, <1>6 DEF Receive, TypeOK, Busy, disk, history
<1>8. \A u \in Busy' : worker'[u].b \in Building
  BY <1>1, <1>2, <1>4 DEF Busy, B, TypeOK, ControlOK, Idle
<1>9. main' = main /\ main \notin {"saving", "encoding", "ready", "down"}
  BY <1>1 DEF Receive, ClosedWhenQuiet, ControlOK
<1> QED
  BY <1>7, <1>8, <1>9 DEF ControlOK, ClosedWhenQuiet, B

\* wg.Done: a worker is through with its building.
LEMMA DoneQuiet ==
    ASSUME QuietInv, NEW w \in Worker, Done(w)
    PROVE  QuietInv'
<1> USE DEF QuietInv
<1>1. worker' = [worker EXCEPT ![w] = Idle] /\ loadwg' = loadwg - 1 /\ UNCHANGED <<queue, main>>
  BY DEF Done
<1>2. worker' \in [Worker -> [at : Steps, b : Building \cup {None}, hash : Nat,
                              seen : SUBSET Building]]
  BY <1>1 DEF TypeOK, Idle, Steps
<1>3. w \in Busy
  BY DEF Done, Busy, At
<1>4. Busy' = Busy \ {w}
  BY <1>1 DEF Busy, At, Idle, TypeOK
<1>5. Cardinality(Busy') = Cardinality(Busy) - 1
  BY <1>3, <1>4, CountsAreZero, FS_RemoveElement
<1>6. loadwg' = Cardinality(queue') + Cardinality(Busy')
  BY <1>1, <1>5, CountsAreZero
<1>7. TypeOK'
  BY <1>1, <1>2, <1>6 DEF Done, TypeOK, Busy, disk, history
<1>8. \A u \in Busy' : worker'[u].b \in Building
  BY <1>1, <1>4 DEF Busy, B, TypeOK, ControlOK
<1>9. main \notin {"saving", "encoding", "ready", "down"}
  BY <1>3 DEF ClosedWhenQuiet, ControlOK, Busy
<1> QED
  BY <1>1, <1>7, <1>8, <1>9 DEF ControlOK, ClosedWhenQuiet, B

\* The steps in which a worker goes on with its building.
LEMMA WorkerQuiet ==
    ASSUME QuietInv, NEW w \in Worker,
           \/ Hash(w) \/ Check(w) \/ Reopen(w) \/ AppendRead(w) \/ AppendWrite(w)
           \/ Record(w) \/ Load(w) \/ Index(w) \/ Fail(w) \/ SendError(w)
    PROVE  QuietInv'
<1> USE DEF QuietInv
<1> DEFINE Rec == [at : Steps \ {"idle"}, b : {B(w)}, hash : Nat, seen : SUBSET Building]
<1>1. w \in Busy
  BY DEF Busy, At, Hash, Check, Reopen, AppendRead, AppendWrite, Record, Load, Index, Fail,
         SendError
<1>2. B(w) \in Building /\ F(w) \in File
  BY <1>1 DEF ControlOK, F
<1>3. worker[w] \in Rec
  BY <1>1 DEF TypeOK, B, Busy, At
<1>9. /\ \A s \in Steps \ {"idle"} : [worker[w] EXCEPT !.at = s] \in Rec
      /\ \A s \in Steps \ {"idle"}, S \in SUBSET Building :
            [worker[w] EXCEPT !.at = s, !.seen = S] \in Rec
      /\ \A n \in Nat : [worker[w] EXCEPT !.at = "check", !.hash = n] \in Rec
      /\ {"appending", "done", "record"} \subseteq Steps \ {"idle"}
  BY <1>3 DEF Steps
<1>10. version[F(w)] \in Nat
  BY <1>2 DEF TypeOK
<1>4. UNCHANGED <<queue, main, loadwg>>
  BY DEF Hash, Check, Reopen, AppendRead, AppendWrite, Record, Load, Index, Fail, SendError
<1>5. \E r \in Rec : worker' = [worker EXCEPT ![w] = r]
  <2>1. CASE Hash(w)
    <3>1. [worker[w] EXCEPT !.at = "check", !.hash = version[F(w)]] \in Rec
      BY <1>9, <1>10
    <3>2. worker' = [worker EXCEPT ![w] = [worker[w] EXCEPT !.at = "check", !.hash = version[F(w)]]]
      BY <2>1 DEF Hash, TypeOK
    <3> QED
      BY <3>1, <3>2
  <2>2. CASE AppendRead(w)
    <3>1. [worker[w] EXCEPT !.at = "appending", !.seen = buildings] \in Rec
      BY <1>9 DEF TypeOK
    <3>2. worker' = [worker EXCEPT ![w] = [worker[w] EXCEPT !.at = "appending", !.seen = buildings]]
      BY <2>2 DEF AppendRead, TypeOK
    <3> QED
      BY <3>1, <3>2
  <2>3. CASE AppendWrite(w)
    <3> DEFINE s == IF B(w) \in dbs THEN "done" ELSE "record"
    <3>1. [worker[w] EXCEPT !.at = s, !.seen = {}] \in Rec
      BY <1>9
    <3>2. worker' = [worker EXCEPT ![w] = [worker[w] EXCEPT !.at = s, !.seen = {}]]
      BY <2>3 DEF AppendWrite, TypeOK
    <3> QED
      BY <3>1, <3>2
  <2>4. CASE Check(w) \/ Reopen(w) \/ Record(w) \/ Load(w) \/ Index(w) \/ Fail(w) \/ SendError(w)
    <3>1. PICK s \in Steps \ {"idle"} : worker' = [worker EXCEPT ![w].at = s]
      BY <2>4 DEF Check, Reopen, Record, Load, Index, Fail, SendError, Go, Steps
    <3>2. worker' = [worker EXCEPT ![w] = [worker[w] EXCEPT !.at = s]]
      BY <3>1 DEF TypeOK
    <3> QED
      BY <1>9, <3>2
  <2> QED
    BY <2>1, <2>2, <2>3, <2>4
<1>6. /\ worker' \in [Worker -> [at : Steps, b : Building \cup {None}, hash : Nat,
                                 seen : SUBSET Building]]
      /\ loadwg' = Cardinality(queue') + Cardinality(Busy')
      /\ ControlOK' /\ ClosedWhenQuiet'
  BY <1>1, <1>4, <1>5, SameBusy
<1>7. Cardinality(Building) \in Nat
  BY FS_CardinalityType
<1>8. TypeOK'
  <2>1. errs' \in 0 .. Cardinality(Building)
    BY <1>7 DEF TypeOK, Hash, Check, Reopen, AppendRead, AppendWrite, Record, Load, Index, Fail,
                SendError, ErrchanSize
  <2>2. loadedfilehashes' \in [File -> Nat]
    BY <1>2 DEF TypeOK, Hash, Check, Reopen, AppendRead, AppendWrite, Record, Load, Index, Fail,
                SendError
  <2>3. content' \in [Building -> SUBSET Nat]
    <3>1. CASE Load(w)
      BY <1>2, <3>1 DEF TypeOK, Load
    <3>2. CASE ~ Load(w)
      BY <3>2 DEF TypeOK, Hash, Check, Reopen, AppendRead, AppendWrite, Record, Index, Fail,
                  SendError, disk
    <3> QED
      BY <3>1, <3>2
  <2>4. dbs' \subseteq Building /\ buildings' \subseteq Building
    BY <1>2 DEF TypeOK, Hash, Check, Reopen, AppendRead, AppendWrite, Record, Load, Index, Fail,
                SendError
  <2>5. failures' \in 0 .. MaxFailures
    BY DEF TypeOK, Hash, Check, Reopen, AppendRead, AppendWrite, Record, Load, Index, Fail,
           SendError, history
  <2>6. UNCHANGED <<version, saved, torn, asked, lost, starts>>
    BY DEF Hash, Check, Reopen, AppendRead, AppendWrite, Record, Load, Index, Fail,
           SendError, disk, history
  <2> QED
    BY <1>4, <1>6, <2>1, <2>2, <2>3, <2>4, <2>5, <2>6 DEF TypeOK, Busy
<1> QED
  BY <1>6, <1>8

\* The steps of the goroutine that called NewHodDB, of the process and of those
\* who edit files.
LEMMA MainQuiet ==
    ASSUME QuietInv,
           \/ Start \/ Exit \/ SelectError \/ SelectDone \/ CreateHashes \/ EncodeHashes
           \/ SaveFails \/ \E f \in File : Edit(f)
    PROVE  QuietInv'
<1> USE DEF QuietInv
<1>0. Cardinality({}) = 0 /\ Cardinality(Building) \in Nat
  BY FS_EmptySet, FS_CardinalityType
<1>1. CASE Start
  <2>1. Busy = {} /\ worker' = worker
    BY <1>1 DEF Start, ControlOK
  <2>2. Busy' = {}
    BY <2>1 DEF Busy, At
  <2>3. loadwg' = Cardinality(queue') + Cardinality(Busy')
    BY <1>0, <1>1, <2>2 DEF Start
  <2>4. TypeOK'
    BY <1>1, <2>3 DEF Start, TypeOK, disk, Busy
  <2> QED
    BY <1>1, <2>2, <2>4 DEF Start, ControlOK, ClosedWhenQuiet
<1>2. CASE Exit
  <2>1. Busy' = {}
    BY <1>2 DEF Exit, Busy, At, Idle
  <2>2. loadwg' = Cardinality(queue') + Cardinality(Busy')
    BY <1>0, <1>2, <2>1 DEF Exit
  <2>3. worker' \in [Worker -> [at : Steps, b : Building \cup {None}, hash : Nat,
                                seen : SUBSET Building]]
    BY <1>2 DEF Exit, Idle, Steps
  <2>4. TypeOK'
    BY <1>0, <1>2, <2>2, <2>3 DEF Exit, TypeOK, disk, history, Busy
  <2> QED
    BY <1>2, <2>1, <2>4 DEF Exit, ControlOK, ClosedWhenQuiet
<1>3. CASE SelectDone
  <2>1. queue = {} /\ Busy = {}
    BY <1>3, CountsAreZero DEF SelectDone
  <2>2. TypeOK'
    BY <1>3 DEF SelectDone, TypeOK, disk, At
  <2> QED
    BY <1>3, <2>1, <2>2 DEF SelectDone, ControlOK, ClosedWhenQuiet, Busy, At, B
<1>4. CASE SelectError \/ CreateHashes \/ EncodeHashes \/ SaveFails
  <2>1. UNCHANGED <<worker, queue, loadwg>>
    BY <1>4 DEF SelectError, CreateHashes, EncodeHashes, SaveFails
  <2>2. TypeOK'
    <3>1. errs' \in 0 .. Cardinality(Building)
      BY <1>0, <1>4 DEF SelectError, CreateHashes, EncodeHashes, SaveFails, TypeOK
    <3>2. failures' \in 0 .. MaxFailures
      BY <1>4 DEF SelectError, CreateHashes, EncodeHashes, SaveFails, TypeOK, history
    <3>3. saved' \in [File -> Nat] /\ torn' \in BOOLEAN
      BY <1>4 DEF SelectError, CreateHashes, EncodeHashes, SaveFails, TypeOK, disk
    <3>4. UNCHANGED <<version, content, loadedfilehashes, dbs, buildings, asked, lost, starts>>
      BY <1>4 DEF SelectError, CreateHashes, EncodeHashes, SaveFails, disk, history
    <3>5. main' \in {"down", "loading", "saving", "encoding", "ready", "failed"}
      BY <1>4 DEF SelectError, CreateHashes, EncodeHashes, SaveFails
    <3> QED
      BY <2>1, <3>1, <3>2, <3>3, <3>4, <3>5 DEF TypeOK, At
  <2>3. ControlOK' /\ ClosedWhenQuiet'
    BY <1>4, <2>1 DEF SelectError, CreateHashes, EncodeHashes, SaveFails, ControlOK,
                      ClosedWhenQuiet, Busy, At, B
  <2> QED
    BY <2>2, <2>3
<1>5. CASE \E f \in File : Edit(f)
  <2>1. PICK f \in File : Edit(f)
    BY <1>5
  <2>2. TypeOK'
    BY <2>1 DEF Edit, TypeOK, history, At
  <2> QED
    BY <2>1, <2>2 DEF Edit, ControlOK, ClosedWhenQuiet, Busy, At, B
<1> QED
  BY <1>1, <1>2, <1>3, <1>4, <1>5

\* Each step of main, the workers and those who edit files keeps the invariant.
LEMMA QuietNext == QuietInv /\ [Next]_vars => QuietInv'
<1> SUFFICES ASSUME QuietInv, [Next]_vars PROVE QuietInv'
  OBVIOUS
<1>1. CASE Start \/ Exit \/ MainStep \/ SaveFails \/ \E f \in File : Edit(f)
  BY <1>1, MainQuiet DEF MainStep
<1>2. CASE \E w \in Worker : WorkerStep(w) \/ Fail(w)
  BY <1>2, ReceiveQuiet, DoneQuiet, WorkerQuiet DEF WorkerStep
<1>3. CASE UNCHANGED vars
  BY <1>3 DEF vars, disk, history, QuietInv, TypeOK, ControlOK, ClosedWhenQuiet, Busy, At, B
<1> QED
  BY <1>1, <1>2, <1>3 DEF Next

\* The types, and what the wait group counts.
THEOREM QuietInvariant == Spec => []QuietInv
<1> QED
  BY QuietInit, QuietNext, PTL DEF Spec

\* NewHodDB closes errchan, and encodes loadedfilehashes, only when every
\* worker is done with every building.
THEOREM AlwaysClosedWhenQuiet == Spec => []ClosedWhenQuiet
<1>1. QuietInv => ClosedWhenQuiet
  BY DEF QuietInv
<1> QED
  BY <1>1, QuietInvariant, PTL

-----------------------------------------------------------------------------
(* What a recorded hash stands for.                                        *)

\* No hash is ahead of its file.
VersionsOK ==
    /\ \A f \in File : saved[f] <= version[f] /\ loadedfilehashes[f] <= version[f]
    /\ \A w \in Busy : worker[w].hash <= version[F(w)]

Holds(b, n) == \E v \in content[b] : v >= n

\* The building is about to be loaded, or an error is on its way to the select.
Pending(b) ==
    \/ \E w \in Worker : At(w, "load") /\ B(w) = b
    \/ \E w \in Worker : At(w, "send")
    \/ errs > 0

\* A hash is recorded in memory before its file is loaded; what makes it true by
\* the time it is saved is that the load, or the error it ended with, is pending
\* until then.
BuildingOK(b) ==
    LET f == FileOf[b]
    IN /\ saved[f] # 0 => Holds(b, saved[f])
       /\ main = "loading" /\ loadedfilehashes[f] # 0
             => Holds(b, loadedfilehashes[f]) \/ Pending(b)
       /\ main \in {"saving", "encoding", "ready"} /\ loadedfilehashes[f] # 0
             => Holds(b, loadedfilehashes[f])

LoadInv == QuietInv /\ VersionsOK /\ (~ lost => \A b \in Building : BuildingOK(b))

\* No two buildings share a file.
OwnFile == \A b, c \in Building : FileOf[b] = FileOf[c] => b = c

\* No hash is saved and no building loaded at the start.
LEMMA LoadInit == Init => LoadInv
<1> SUFFICES ASSUME Init PROVE LoadInv
  OBVIOUS
<1>1. Busy = {}
  BY DEF Init, Busy, At, Idle
<1>2. VersionsOK
  BY <1>1 DEF Init, VersionsOK
<1>3. \A b \in Building : BuildingOK(b)
  BY DEF Init, BuildingOK
<1> QED
  BY <1>2, <1>3, QuietInit DEF LoadInv

\* A hash is read from a file, so no step records one that is ahead of its file.
LEMMA VersionsNext ==
    ASSUME QuietInv, VersionsOK, [Next]_vars
    PROVE  VersionsOK'
<1> USE DEF QuietInv
<1>1. CASE Start
  <2>1. Busy = {} /\ UNCHANGED <<worker, version, saved>>
    BY <1>1 DEF Start, ControlOK, disk
  <2>2. Busy' = {}
    BY <2>1 DEF Busy, At
  <2> QED
    BY <1>1, <2>1, <2>2 DEF Start, VersionsOK
<1>2. CASE Exit
  <2>1. Busy' = {}
    BY <1>2 DEF Exit, Busy, At, Idle
  <2> QED
    BY <1>2, <2>1 DEF Exit, VersionsOK, disk, TypeOK
<1>3. CASE MainStep \/ SaveFails
  <2>1. UNCHANGED <<worker, version, loadedfilehashes>>
    BY <1>3 DEF MainStep, SelectError, SelectDone, CreateHashes, EncodeHashes, SaveFails, disk
  <2>2. saved' \in {saved, loadedfilehashes}
    BY <1>3 DEF MainStep, SelectError, SelectDone, CreateHashes, EncodeHashes, SaveFails, disk
  <2> QED
    BY <2>1, <2>2 DEF VersionsOK, Busy, At, F, B
<1>4. CASE \E f \in File : Edit(f)
  <2>1. PICK f \in File : Edit(f)
    BY <1>4
  <2>2. \A g \in File : version'[g] \in Nat /\ version[g] \in Nat /\ version[g] <= version'[g]
    BY <2>1 DEF Edit, TypeOK
  <2>3. UNCHANGED <<worker, saved, loadedfilehashes>>
    BY <2>1 DEF Edit
  <2>4. \A w \in Busy : F(w) \in File /\ worker[w].hash \in Nat
    BY DEF ControlOK, F, Busy, TypeOK
  <2>5. \A g \in File : saved'[g] <= version'[g] /\ loadedfilehashes'[g] <= version'[g]
    BY <2>2, <2>3 DEF VersionsOK, TypeOK
  <2>6. \A w \in Busy' : worker'[w].hash <= version'[F(w)']
    BY <2>2, <2>3, <2>4 DEF VersionsOK, Busy, At, F, B
  <2> QED
    BY <2>5, <2>6 DEF VersionsOK
<1>5. CASE \E w \in Worker : WorkerStep(w) \/ Fail(w)
  <2>1. PICK w \in Worker : WorkerStep(w) \/ Fail(w)
    BY <1>5
  <2>2. UNCHANGED <<version, saved>>
    BY <2>1 DEF WorkerStep, Receive, Hash, Check, Reopen, AppendRead, AppendWrite, Record, Load,
                Index, SendError, Done, Fail, disk
  <2>3. \A u \in Busy' : u \in Busy \/ u = w
    BY <2>1 DEF WorkerStep, Receive, Hash, Check, Reopen, AppendRead, AppendWrite, Record, Load,
                Index, SendError, Done, Fail, Busy, At, Go, TypeOK
  <2>4. \A u \in Worker \ {w} : worker'[u] = worker[u]
    BY <2>1 DEF WorkerStep, Receive, Hash, Check, Reopen, AppendRead, AppendWrite, Record, Load,
                Index, SendError, Done, Fail, Go, TypeOK
  <2>5. w \in Busy' => worker'[w].hash <= version[F(w)']
    <3>1. CASE Receive(w)
      <4>1. PICK c \in queue : worker'[w] = [Idle EXCEPT !.at = "hash", !.b = c]
        BY <3>1 DEF Receive, TypeOK
      <4>2. FileOf[c] \in File
        BY DEF TypeOK
      <4> QED
        BY <4>1, <4>2 DEF Idle, F, B, TypeOK
    <3>2. CASE Hash(w)
      <4>1. w \in Busy /\ F(w) \in File
        BY <3>2 DEF Hash, Busy, At, ControlOK, F
      <4>2. worker'[w].hash = version[F(w)] /\ worker'[w].b = worker[w].b
        BY <3>2 DEF Hash, TypeOK
      <4> QED
        BY <4>1, <4>2 DEF F, B, TypeOK
    <3>3. CASE Done(w)
      BY <3>3 DEF Done, Busy, At, Idle, TypeOK
    <3>4. CASE ~ Receive(w) /\ ~ Hash(w) /\ ~ Done(w)
      <4>1. w \in Busy
        BY <2>1, <3>4 DEF WorkerStep, Check, Reopen, AppendRead, AppendWrite, Record, Load,
                          Index, SendError, Fail, Busy, At
      <4>2. worker'[w].hash = worker[w].hash /\ worker'[w].b = worker[w].b
        BY <2>1, <3>4 DEF WorkerStep, Check, Reopen, AppendRead, AppendWrite, Record, Load,
                          Index, SendError, Fail, Go, TypeOK
      <4> QED
        BY <4>1, <4>2 DEF VersionsOK, F, B
    <3> QED
      BY <3>1, <3>2, <3>3, <3>4
  <2>6. \A f \in File : loadedfilehashes'[f] <= version[f]
    <3>1. CASE Record(w)
      <4>1. w \in Busy
        BY <3>1 DEF Record, Busy, At
      <4> QED
        BY <3>1, <4>1 DEF Record, VersionsOK, TypeOK
    <3>2. CASE ~ Record(w)
      BY <2>1, <3>2 DEF WorkerStep, Receive, Hash, Check, Reopen, AppendRead, AppendWrite, Load,
                        Index, SendError, Done, Fail, VersionsOK
    <3> QED
      BY <3>1, <3>2
  <2> QED
    BY <2>2, <2>3, <2>4, <2>5, <2>6 DEF VersionsOK, Busy, F, B
<1>6. CASE UNCHANGED vars
  BY <1>6 DEF vars, disk, VersionsOK, Busy, At, F, B
<1> QED
  BY <1>1, <1>2, <1>3, <1>4, <1>5, <1>6 DEF Next

\* A step of worker w, as building b sees it.
LEMMA WorkerLoad ==
    ASSUME OwnFile, QuietInv, VersionsOK, NEW w \in Worker, WorkerStep(w) \/ Fail(w),
           NEW b \in Building, BuildingOK(b)
    PROVE  BuildingOK(b)'
<1> USE DEF QuietInv
<1> DEFINE f == FileOf[b]
<1>1. f \in File /\ saved' = saved /\ main' = main /\ version' = version
  BY DEF WorkerStep, Receive, Hash, Check, Reopen, AppendRead, AppendWrite, Record, Load,
         Index, SendError, Done, Fail, disk
<1>2. \A n : Holds(b, n) => Holds(b, n)'
  <2>1. content[b] \subseteq content'[b]
    <3>1. CASE Load(w)
      BY <3>1 DEF Load, TypeOK
    <3>2. CASE ~ Load(w)
      BY <3>2 DEF WorkerStep, Receive, Hash, Check, Reopen, AppendRead, AppendWrite, Record,
                  Index, SendError, Done, Fail, disk
    <3> QED
      BY <3>1, <3>2
  <2> QED
    BY <2>1 DEF Holds
<1>3. main \notin {"saving", "encoding", "ready"}
  <2>1. CASE Receive(w)
    BY <2>1 DEF Receive, ClosedWhenQuiet
  <2>2. CASE ~ Receive(w)
    <3>1. ~ At(w, "idle")
      BY <2>2 DEF WorkerStep, Hash, Check, Reopen, AppendRead, AppendWrite, Record, Load,
                  Index, SendError, Done, Fail, At
    <3> QED
      BY <3>1 DEF ClosedWhenQuiet
  <2> QED
    BY <2>1, <2>2
<1>4. ASSUME main = "loading", loadedfilehashes'[f] # 0
      PROVE  Holds(b, loadedfilehashes[f])' \/ Pending(b)'
  <2>1. CASE Record(w) /\ B(w) = b
    <3>1. At(w, "load")' /\ B(w)' = b
      BY <2>1 DEF Record, Go, At, B, TypeOK
    <3> QED
      BY <3>1 DEF Pending
  <2>2. CASE Load(w) /\ B(w) = b
    <3>1. version[f] \in content'[b]
      BY <2>2 DEF Load, F, TypeOK
    <3>2. loadedfilehashes' = loadedfilehashes /\ loadedfilehashes[f] <= version[f]
      BY <1>1, <2>2 DEF Load, VersionsOK
    <3> QED
      BY <1>1, <3>1, <3>2 DEF Holds, TypeOK
  <2>3. CASE Fail(w)
    <3>1. At(w, "send")'
      BY <2>3 DEF Fail, Go, At, TypeOK
    <3> QED
      BY <3>1 DEF Pending
  <2>4. CASE SendError(w)
    <3>1. errs' > 0
      BY <2>4, FS_CardinalityType DEF SendError, TypeOK
    <3> QED
      BY <3>1 DEF Pending
  <2>5. CASE ~ Fail(w) /\ ~ SendError(w) /\ ~ (Record(w) /\ B(w) = b) /\ ~ (Load(w) /\ B(w) = b)
    <3>1. loadedfilehashes'[f] = loadedfilehashes[f]
      <4>1. CASE Record(w)
        <5>1. B(w) \in Building /\ B(w) # b
          BY <2>5, <4>1 DEF Record, ControlOK, Busy, At
        <5>2. F(w) # f
          BY <5>1 DEF OwnFile, F
        <5> QED
          BY <1>1, <4>1, <5>2 DEF Record, TypeOK
      <4>2. CASE ~ Record(w)
        BY <2>5, <4>2 DEF WorkerStep, Receive, Hash, Check, Reopen, AppendRead, AppendWrite, Load,
                          Index, SendError, Done, Fail
      <4> QED
        BY <4>1, <4>2
    <3>2. Holds(b, loadedfilehashes[f]) \/ Pending(b)
      BY <1>4, <3>1 DEF BuildingOK
    <3>3. CASE Holds(b, loadedfilehashes[f])
      BY <1>2, <3>1, <3>3 DEF Holds
    <3>4. CASE Pending(b)
      <4>1. errs' = errs
        BY <2>5 DEF WorkerStep, Receive, Hash, Check, Reopen, AppendRead, AppendWrite, Record, Load,
                    Index, Done
      <4>2. ASSUME NEW u \in Worker, At(u, "send") \/ (At(u, "load") /\ B(u) = b)
            PROVE  worker'[u] = worker[u]
        BY <2>5, <4>2 DEF WorkerStep, Receive, Hash, Check, Reopen, AppendRead, AppendWrite, Record,
                          Load, Index, Done, Go, At, B, TypeOK
      <4> QED
        BY <3>4, <4>1, <4>2 DEF Pending, At, B
    <3> QED
      BY <3>2, <3>3, <3>4
  <2> QED
    BY <2>1, <2>2, <2>3, <2>4, <2>5
<1> QED
  BY <1>1, <1>2, <1>3, <1>4 DEF BuildingOK

\* A step of the others, as building b sees it.
LEMMA MainLoad ==
    ASSUME QuietInv, NEW b \in Building, BuildingOK(b), ~ lost',
           \/ Start \/ Exit \/ SelectError \/ SelectDone \/ CreateHashes \/ EncodeHashes
           \/ SaveFails \/ \E f \in File : Edit(f)
    PROVE  BuildingOK(b)'
<1> USE DEF QuietInv
<1> DEFINE f == FileOf[b]
<1>1. content' = content /\ f \in File
  BY DEF Start, Exit, SelectError, SelectDone, CreateHashes, EncodeHashes, SaveFails, Edit, disk
<1>2. CASE Start
  BY <1>1, <1>2 DEF Start, BuildingOK, Holds, disk
<1>3. CASE Exit
  BY <1>1, <1>3 DEF Exit, BuildingOK, Holds, disk
<1>4. CASE SelectError
  BY <1>1, <1>4 DEF SelectError, BuildingOK, Holds, disk
<1>5. CASE SelectDone
  <2>1. ~ (errs > 0)
    BY <1>5, Zenon DEF SelectDone
  <2>3. Busy = {}
    BY <1>5, CountsAreZero DEF SelectDone
  <2>2. ~ Pending(b)
    BY <2>1, <2>3 DEF Pending, Busy, At
  <2> QED
    BY <1>1, <1>5, <2>2 DEF SelectDone, BuildingOK, Holds, disk
<1>6. CASE CreateHashes \/ SaveFails
  BY <1>1, <1>6 DEF CreateHashes, SaveFails, BuildingOK, Holds, disk
<1>7. CASE EncodeHashes
  BY <1>1, <1>7 DEF EncodeHashes, BuildingOK, Holds
<1>8. CASE \E g \in File : Edit(g)
  BY <1>1, <1>8 DEF Edit, BuildingOK, Holds, Pending, At, B
<1> QED
  BY <1>2, <1>3, <1>4, <1>5, <1>6, <1>7, <1>8

\* Every step leaves what a recorded hash stands for loaded, or its load pending.
LEMMA LoadNext ==
    ASSUME OwnFile, LoadInv, [Next]_vars
    PROVE  LoadInv'
<1>1. QuietInv' /\ VersionsOK'
  BY QuietNext, VersionsNext DEF LoadInv
<1>2. lost => lost'
  BY DEF LoadInv, Next, Start, Exit, MainStep, SelectError, SelectDone, CreateHashes, EncodeHashes,
         SaveFails, Edit, WorkerStep, Receive, Hash, Check, Reopen, AppendRead, AppendWrite, Record,
         Load, Index, SendError, Done, Fail, history, vars
<1>3. ASSUME ~ lost', NEW b \in Building
      PROVE  BuildingOK(b)'
  <2>1. BuildingOK(b)
    BY <1>2, <1>3 DEF LoadInv, QuietInv, TypeOK
  <2>2. CASE Start \/ Exit \/ MainStep \/ SaveFails \/ \E f \in File : Edit(f)
    BY <1>3, <2>1, <2>2, MainLoad DEF LoadInv, MainStep
  <2>3. CASE \E w \in Worker : WorkerStep(w) \/ Fail(w)
    BY <2>1, <2>3, WorkerLoad DEF LoadInv
  <2>4. CASE UNCHANGED vars
    BY <2>1, <2>4 DEF vars, disk, BuildingOK, Holds, Pending, At, B
  <2> QED
    BY <2>2, <2>3, <2>4 DEF Next
<1> QED
  BY <1>1, <1>3 DEF LoadInv

\* When no two buildings share a file, a recorded hash stands for a load that
\* was committed: through failed starts, exits at any point and edits at any
\* time, as long as no start has gone past an error.
THEOREM SavedAlwaysLoaded ==
    ASSUME OwnFile
    PROVE  Spec => []SavedMeansLoaded
<1>1. LoadInv => SavedMeansLoaded
  BY DEF LoadInv, BuildingOK, Holds, SavedMeansLoaded
<1>2. LoadInv /\ [Next]_vars => LoadInv'
  BY LoadNext
<1> QED
  BY <1>1, <1>2, LoadInit, PTL DEF Spec

-----------------------------------------------------------------------------
(* Room for the errors.                                                    *)

\* The workers that may still report an error.
Owing == {w \in Worker : worker[w].at \notin {"idle", "done"}}

\* Each building accounts for one error at most: it is in the queue, at a worker
\* that may still fail, or its error was sent.
ErrorInv ==
    /\ main = "down" => errs = 0 /\ dbs = {}
    /\ errs + Cardinality(queue) + Cardinality(Owing) <= Cardinality(Building)

\* The numbers ErrorInv compares are numbers.
LEMMA CountsOfErrors ==
    ASSUME QuietInv
    PROVE  /\ IsFiniteSet(queue) /\ IsFiniteSet(Owing)
           /\ Cardinality(queue) \in Nat /\ Cardinality(Owing) \in Nat
           /\ Cardinality(Building) \in Nat /\ errs \in Nat
<1>1. IsFiniteSet(queue) /\ IsFiniteSet(Owing)
  <2>1. queue \in SUBSET Building /\ Owing \in SUBSET Worker
    BY DEF QuietInv, TypeOK, Owing
  <2> QED
    BY <2>1, FS_Subset
<1>2. Cardinality(Building) \in Nat
  BY FS_CardinalityType
<1> QED
  BY <1>1, <1>2, FS_CardinalityType DEF QuietInv, TypeOK

\* A worker's step leaves the other workers where they are.
LEMMA OthersStay ==
    ASSUME TypeOK, NEW w \in Worker, WorkerStep(w) \/ Fail(w)
    PROVE  \A u \in Worker \ {w} : worker'[u] = worker[u]
BY DEF WorkerStep, Receive, Hash, Check, Reopen, AppendRead, AppendWrite, Record, Load,
       Index, SendError, Done, Fail, Go, TypeOK

\* No error was sent at the start.
LEMMA ErrorInit == Init => ErrorInv
<1> SUFFICES ASSUME Init PROVE ErrorInv
  OBVIOUS
<1>1. Owing = {}
  BY DEF Init, Owing, Idle
<1> QED
  BY <1>1, FS_EmptySet, FS_CardinalityType DEF Init, ErrorInv

\* No step makes a building account for a second error.
LEMMA ErrorNext ==
    ASSUME QuietInv, ErrorInv, [Next]_vars
    PROVE  ErrorInv'
<1> USE DEF QuietInv
<1>0. QuietInv'
  BY QuietNext
<1>1. CASE Start
  <2>1. Owing' = {}
    BY <1>1 DEF Start, ControlOK, Busy, At, Owing
  <2>2. errs' = 0 /\ queue' \in {{}, Building} /\ main' # "down"
    BY <1>1 DEF Start, ErrorInv
  <2> QED
    BY <2>1, <2>2, FS_EmptySet, CountsOfErrors DEF ErrorInv
<1>2. CASE Exit
  <2>1. Owing' = {} /\ queue' = {} /\ errs' = 0 /\ dbs' = {}
    BY <1>2 DEF Exit, Owing, Idle
  <2> QED
    BY <2>1, FS_EmptySet, CountsOfErrors DEF ErrorInv
<1>3. CASE MainStep \/ SaveFails \/ \E f \in File : Edit(f)
  <2>1. UNCHANGED <<worker, queue, dbs>> /\ (errs' = errs \/ errs' = errs - 1)
    BY <1>3 DEF MainStep, SelectError, SelectDone, CreateHashes, EncodeHashes, SaveFails, Edit
  <2>2. main' = "down" => main = "down" /\ errs' = errs
    BY <1>3 DEF MainStep, SelectError, SelectDone, CreateHashes, EncodeHashes, SaveFails, Edit
  <2>3. Owing' = Owing
    BY <2>1 DEF Owing
  <2> QED
    BY <2>1, <2>2, <2>3, CountsOfErrors DEF ErrorInv
<1>4. CASE \E w \in Worker : WorkerStep(w) \/ Fail(w)
  <2>1. PICK w \in Worker : WorkerStep(w) \/ Fail(w)
    BY <1>4
  <2>2. main' = main /\ main # "down"
    <3>1. main' = main
      BY <2>1 DEF WorkerStep, Receive, Hash, Check, Reopen, AppendRead, AppendWrite, Record, Load,
                  Index, SendError, Done, Fail
    <3>2. queue # {} \/ w \in Busy
      BY <2>1 DEF WorkerStep, Receive, Hash, Check, Reopen, AppendRead, AppendWrite, Record, Load,
                  Index, SendError, Done, Fail, Busy, At
    <3> QED
      BY <3>1, <3>2 DEF ControlOK
  <2>3. \A u \in Worker \ {w} : worker'[u] = worker[u]
    BY <2>1, OthersStay
  <2>4. CASE Receive(w)
    <3>1. PICK c \in queue : queue' = queue \ {c} /\ worker'[w].at = "hash"
      BY <2>4 DEF Receive, Idle, TypeOK
    <3>2. Owing' = Owing \cup {w} /\ w \notin Owing /\ errs' = errs
      BY <2>3, <2>4, <3>1 DEF Receive, Owing, At
    <3>3. Cardinality(queue') = Cardinality(queue) - 1
          /\ Cardinality(Owing') = Cardinality(Owing) + 1
      BY <3>1, <3>2, CountsOfErrors, FS_AddElement, FS_RemoveElement
    <3> QED
      BY <2>2, <3>2, <3>3, CountsOfErrors DEF ErrorInv
  <2>5. CASE SendError(w)
    <3>1. queue' = queue /\ errs' = errs + 1 /\ worker'[w].at = "done" /\ w \in Owing
      BY <2>5 DEF SendError, Go, At, Owing, TypeOK
    <3>2. Owing' = Owing \ {w}
      BY <2>3, <3>1 DEF Owing
    <3>3. Cardinality(Owing') = Cardinality(Owing) - 1
      BY <3>1, <3>2, CountsOfErrors, FS_RemoveElement
    <3> QED
      BY <2>2, <3>1, <3>3, CountsOfErrors DEF ErrorInv
  <2>6. CASE ~ Receive(w) /\ ~ SendError(w)
    <3>1. queue' = queue /\ errs' = errs
      BY <2>1, <2>6 DEF WorkerStep, Hash, Check, Reopen, AppendRead, AppendWrite, Record, Load,
                        Index, Done, Fail
    <3>2. worker'[w].at \in {"idle", "done"} \/ w \in Owing
      BY <2>1, <2>6 DEF WorkerStep, Hash, Check, Reopen, AppendRead, AppendWrite, Record, Load,
                        Index, Done, Fail, Go, At, Owing, Idle, TypeOK
    <3>3. Owing' \subseteq Owing
      BY <2>3, <3>2 DEF Owing
    <3>4. Cardinality(Owing') <= Cardinality(Owing) /\ Cardinality(Owing') \in Nat
      BY <3>3, CountsOfErrors, FS_Subset, FS_CardinalityType
    <3> QED
      BY <2>2, <3>1, <3>4, CountsOfErrors DEF ErrorInv
  <2> QED
    BY <2>4, <2>5, <2>6
<1>5. CASE UNCHANGED vars
  BY <1>5 DEF vars, ErrorInv, Owing
<1> QED
  BY <1>1, <1>2, <1>3, <1>4, <1>5 DEF Next

\* A worker with an error to report never waits for room in errchan, although
\* a start that failed takes no more errors out of it.
THEOREM ErrorsAlwaysFit == Spec => []ErrorsFit
<1>1. QuietInv /\ ErrorInv => ErrorsFit
  <2> SUFFICES ASSUME QuietInv, ErrorInv, NEW w \in Worker, At(w, "send")
               PROVE  errs < ErrchanSize
    BY DEF ErrorsFit
  <2>1. w \in Owing
    BY DEF Owing, At
  <2>2. Cardinality(Owing) # 0
    BY <2>1, CountsOfErrors, FS_EmptySet
  <2> QED
    BY <2>2, CountsOfErrors DEF ErrorInv, ErrchanSize
<1>2. Init => QuietInv /\ ErrorInv
  BY QuietInit, ErrorInit
<1>3. QuietInv /\ ErrorInv /\ [Next]_vars => QuietInv' /\ ErrorInv'
  BY QuietNext, ErrorNext
<1> QED
  BY <1>1, <1>2, <1>3, PTL DEF Spec

-----------------------------------------------------------------------------
(* What a start that ends well has loaded.                                 *)

\* Every file held something when the process started, and nothing newer than
\* what it holds now.
AskedOK == \A f \in File : asked[f] \in 1 .. version[f]

\* A building is in one hand at a time.
HandsOK ==
    \A w \in Busy : B(w) \notin queue /\ \A u \in Busy : B(u) = B(w) => u = w

\* The hash a worker compares is of what the file held at the start or later; a
\* worker that found it unchanged still finds it so when it reopens the database.
WorkOK(w) ==
    /\ worker[w].at \in {"check", "reopen"} => worker[w].hash >= asked[F(w)]
    /\ At(w, "reopen") => loadedfilehashes[F(w)] = worker[w].hash
    /\ At(w, "index") => Holds(B(w), asked[F(w)])

\* An error is on its way to the select.
Trouble == errs > 0 \/ \E w \in Worker : At(w, "send")

\* Somebody still has to see to the building, or it is there.
InHand(b) ==
    \/ b \in queue
    \/ \E w \in Busy : B(w) = b /\ ~ At(w, "done")
    \/ b \in dbs

FreshOK(b) ==
    /\ main = "loading" =>
          Trouble \/ (InHand(b) /\ (b \in dbs => Holds(b, asked[FileOf[b]])))
    /\ main \in {"saving", "encoding", "ready"} => b \in dbs /\ Holds(b, asked[FileOf[b]])

FreshInv ==
    /\ LoadInv /\ ErrorInv /\ AskedOK /\ HandsOK
    /\ \A w \in Busy : WorkOK(w)
    /\ ~ lost => \A b \in Building : FreshOK(b)

\* Nothing is loading at the start, so nobody has a building in hand.
LEMMA FreshInit == Init => FreshInv
<1> SUFFICES ASSUME Init PROVE FreshInv
  OBVIOUS
<1>1. Busy = {}
  BY DEF Init, Busy, At, Idle
<1>2. AskedOK
  BY DEF Init, AskedOK
<1>3. \A b \in Building : FreshOK(b)
  BY DEF Init, FreshOK
<1> QED
  BY <1>1, <1>2, <1>3, LoadInit, ErrorInit DEF FreshInv, HandsOK

\* The versions asked for are of files that were there, and files only get newer.
LEMMA AskedNext ==
    ASSUME TypeOK, AskedOK, [Next]_vars
    PROVE  AskedOK'
<1>1. CASE Start
  <2>1. asked' = version /\ version' = version
    BY <1>1 DEF Start, disk
  <2> QED
    BY <2>1 DEF AskedOK, TypeOK
<1>2. CASE \E f \in File : Edit(f)
  <2>1. PICK f \in File : Edit(f)
    BY <1>2
  <2>2. asked' = asked /\ \A g \in File : version'[g] \in {version[g], version[g] + 1}
    BY <2>1 DEF Edit, TypeOK, history
  <2> QED
    BY <2>2 DEF AskedOK, TypeOK
<1>3. CASE ~ Start /\ ~ \E f \in File : Edit(f)
  <2>1. asked' = asked /\ version' = version
    BY <1>3 DEF Next, Exit, MainStep, SelectError, SelectDone, CreateHashes, EncodeHashes,
                SaveFails, WorkerStep, Receive, Hash, Check, Reopen, AppendRead, AppendWrite, Record,
                Load, Index, SendError, Done, Fail, history, disk, vars
  <2> QED
    BY <2>1 DEF AskedOK
<1> QED
  BY <1>1, <1>2, <1>3

\* A worker that takes no new building keeps the one it has.
LEMMA KeepsBuilding ==
    ASSUME QuietInv, NEW w \in Worker, WorkerStep(w) \/ Fail(w), ~ Receive(w)
    PROVE  /\ w \in Busy /\ queue' = queue /\ Busy' \subseteq Busy
           /\ worker'[w].at = "idle" \/ worker'[w].b = worker[w].b
<1> USE DEF QuietInv
<1>1. w \in Busy
  BY DEF WorkerStep, Hash, Check, Reopen, AppendRead, AppendWrite, Record, Load,
         Index, SendError, Done, Fail, Busy, At
<1>2. queue' = queue
  BY DEF WorkerStep, Hash, Check, Reopen, AppendRead, AppendWrite, Record, Load,
         Index, SendError, Done, Fail
<1>3. Busy' \subseteq Busy
  BY <1>1, OthersStay DEF Busy, At
<1>4. worker'[w].at = "idle" \/ worker'[w].b = worker[w].b
  BY DEF WorkerStep, Hash, Check, Reopen, AppendRead, AppendWrite, Record, Load,
         Index, SendError, Done, Fail, Go, Idle, TypeOK
<1> QED
  BY <1>1, <1>2, <1>3, <1>4

\* A building is in the channel, with one worker, or with nobody.
LEMMA HandsNext ==
    ASSUME QuietInv, HandsOK, [Next]_vars
    PROVE  HandsOK'
<1> USE DEF QuietInv
<1>1. CASE Start
  BY <1>1 DEF Start, ControlOK, HandsOK, Busy, At
<1>2. CASE Exit
  BY <1>2 DEF Exit, HandsOK, Busy, At, Idle
<1>3. CASE MainStep \/ SaveFails \/ \E f \in File : Edit(f)
  <2>1. UNCHANGED <<worker, queue>>
    BY <1>3 DEF MainStep, SelectError, SelectDone, CreateHashes, EncodeHashes, SaveFails, Edit
  <2> QED
    BY <2>1 DEF HandsOK, Busy, At, B
<1>4. CASE \E w \in Worker : WorkerStep(w) \/ Fail(w)
  <2>1. PICK w \in Worker : WorkerStep(w) \/ Fail(w)
    BY <1>4
  <2>2. \A u \in Worker \ {w} : worker'[u] = worker[u]
    BY <2>1, OthersStay
  <2>3. CASE Receive(w)
    <3>1. PICK c \in queue : queue' = queue \ {c} /\ worker'[w].b = c /\ worker'[w].at = "hash"
      BY <2>3 DEF Receive, Idle, TypeOK
    <3>2. Busy' = Busy \cup {w} /\ w \notin Busy
      BY <2>2, <2>3, <3>1 DEF Receive, Busy, At
    <3>3. \A u \in Busy : worker'[u].b = B(u) /\ B(u) \notin queue
      BY <2>2, <3>2 DEF HandsOK, B, Busy
    <3> QED
      BY <3>1, <3>2, <3>3 DEF HandsOK, B
  <2>4. CASE ~ Receive(w)
    <3>1. /\ w \in Busy /\ queue' = queue /\ Busy' \subseteq Busy
          /\ worker'[w].at = "idle" \/ worker'[w].b = worker[w].b
      BY <2>1, <2>4, KeepsBuilding
    <3>2. \A u \in Busy' : worker'[u].b = worker[u].b
      BY <2>2, <3>1 DEF Busy, At
    <3> QED
      BY <3>1, <3>2 DEF HandsOK, B
  <2> QED
    BY <2>3, <2>4
<1>5. CASE UNCHANGED vars
  BY <1>5 DEF vars, HandsOK, Busy, At, B
<1> QED
  BY <1>1, <1>2, <1>3, <1>4, <1>5 DEF Next

\* Nothing a worker does takes triples out of a database.
LEMMA HoldsOn ==
    ASSUME TypeOK, NEW w \in Worker, WorkerStep(w) \/ Fail(w), NEW b \in Building, NEW n,
           Holds(b, n)
    PROVE  \E v \in content'[b] : v >= n
<1>1. content[b] \subseteq content'[b]
  <2>1. CASE Load(w)
    BY <2>1 DEF Load, TypeOK
  <2>2. CASE ~ Load(w)
    BY <2>2 DEF WorkerStep, Receive, Hash, Check, Reopen, AppendRead, AppendWrite, Record,
                Index, SendError, Done, Fail, disk
  <2> QED
    BY <2>1, <2>2
<1> QED
  BY <1>1 DEF Holds

\* A worker's step is about the file it has hashed, whatever the others do meanwhile.
LEMMA WorkNext ==
    ASSUME OwnFile, QuietInv, AskedOK, HandsOK, \A w \in Busy : WorkOK(w), [Next]_vars
    PROVE  \A w \in Busy' : WorkOK(w)'
<1> USE DEF QuietInv
<1>1. CASE Start
  BY <1>1 DEF Start, ControlOK, Busy, At
<1>2. CASE Exit
  BY <1>2 DEF Exit, Busy, At, Idle
<1>3. CASE MainStep \/ SaveFails \/ (\E f \in File : Edit(f)) \/ UNCHANGED vars
  <2>1. UNCHANGED <<worker, content, asked, loadedfilehashes>>
    BY <1>3 DEF MainStep, SelectError, SelectDone, CreateHashes, EncodeHashes, SaveFails, Edit,
                disk, history, vars
  <2> QED
    BY <2>1 DEF WorkOK, Busy, At, B, F, Holds
<1>4. CASE \E w \in Worker : WorkerStep(w) \/ Fail(w)
  <2>1. PICK w \in Worker : WorkerStep(w) \/ Fail(w)
    BY <1>4
  <2>2. \A u \in Worker \ {w} : worker'[u] = worker[u]
    BY <2>1, OthersStay
  <2>3. asked' = asked
    BY <2>1 DEF WorkerStep, Receive, Hash, Check, Reopen, AppendRead, AppendWrite, Record, Load,
                Index, SendError, Done, Fail, history
  <2>4. ASSUME NEW u \in Busy', u # w
        PROVE  WorkOK(u)'
    <3>1. u \in Busy /\ worker'[u] = worker[u] /\ B(u) \in Building /\ F(u) \in File
      BY <2>2, <2>4 DEF Busy, At, ControlOK, F
    <3>2. WorkOK(u)
      BY <3>1
    <3>3. loadedfilehashes'[F(u)] = loadedfilehashes[F(u)]
      <4>1. CASE Record(w)
        <5>1. w \in Busy /\ B(w) \in Building
          BY <4>1 DEF Record, Busy, At, ControlOK
        <5>2. F(w) # F(u)
          BY <2>4, <3>1, <5>1 DEF HandsOK, OwnFile, F
        <5> QED
          BY <3>1, <4>1, <5>2 DEF Record, TypeOK
      <4>2. CASE ~ Record(w)
        BY <2>1, <4>2 DEF WorkerStep, Receive, Hash, Check, Reopen, AppendRead, AppendWrite, Load,
                          Index, SendError, Done, Fail
      <4> QED
        BY <4>1, <4>2
    <3>4. Holds(B(u), asked[F(u)]) => \E v \in content'[B(u)] : v >= asked[F(u)]
      BY <2>1, <3>1, HoldsOn
    <3> QED
      BY <2>3, <3>1, <3>2, <3>3, <3>4 DEF WorkOK, At, B, F, Holds
  <2>5. ASSUME w \in Busy'
        PROVE  WorkOK(w)'
    <3>1. CASE Hash(w)
      <4>1. w \in Busy /\ F(w) \in File
        BY <3>1 DEF Hash, Busy, At, ControlOK, F
      <4>2. worker'[w].at = "check" /\ worker'[w].b = worker[w].b /\ worker'[w].hash = version[F(w)]
        BY <3>1 DEF Hash, TypeOK
      <4>3. version[F(w)] >= asked[F(w)]
        BY <4>1 DEF AskedOK, TypeOK
      <4> QED
        BY <2>3, <4>2, <4>3 DEF WorkOK, At, B, F
    <3>2. CASE Check(w)
      <4>1. w \in Busy
        BY <3>2 DEF Check, Busy, At
      <4>2. worker[w].hash >= asked[F(w)]
        BY <3>2, <4>1 DEF Check, WorkOK, At
      <4>3. /\ worker'[w].b = worker[w].b /\ worker'[w].hash = worker[w].hash
            /\ \/ worker'[w].at = "reopen" /\ loadedfilehashes[F(w)] = worker[w].hash
               \/ worker'[w].at = "append"
        BY <3>2 DEF Check, Go, TypeOK
      <4>4. loadedfilehashes' = loadedfilehashes
        BY <3>2 DEF Check
      <4> QED
        BY <2>3, <4>2, <4>3, <4>4 DEF WorkOK, At, B, F
    <3>3. CASE Load(w)
      <4>1. w \in Busy /\ B(w) \in Building /\ F(w) \in File
        BY <3>3 DEF Load, Busy, At, ControlOK, F
      <4>2. worker'[w].at = "index" /\ worker'[w].b = worker[w].b
        BY <3>3 DEF Load, Go, TypeOK
      <4>3. version[F(w)] \in content'[B(w)] /\ version[F(w)] >= asked[F(w)]
        BY <3>3, <4>1 DEF Load, AskedOK, TypeOK
      <4> QED
        BY <2>3, <4>2, <4>3 DEF WorkOK, At, B, F, Holds
    <3>4. CASE ~ Hash(w) /\ ~ Check(w) /\ ~ Load(w)
      <4>1. worker'[w].at \notin {"check", "reopen", "index"}
        <5>0. CASE Receive(w)
          <6>1. PICK c \in queue : worker'[w] = [Idle EXCEPT !.at = "hash", !.b = c]
            BY <5>0 DEF Receive, TypeOK
          <6> QED
            BY <6>1 DEF Idle
        <5>1. CASE Done(w)
          BY <5>1 DEF Done, Idle, TypeOK
        <5>2. CASE AppendRead(w) \/ AppendWrite(w)
          BY <5>2 DEF AppendRead, AppendWrite, TypeOK
        <5>3. CASE Reopen(w) \/ Record(w) \/ Index(w) \/ SendError(w) \/ Fail(w)
          BY <5>3 DEF Reopen, Record, Index, SendError, Fail, Go, TypeOK
        <5> QED
          BY <2>1, <3>4, <5>0, <5>1, <5>2, <5>3 DEF WorkerStep
      <4> QED
        BY <4>1 DEF WorkOK, At
    <3> QED
      BY <3>1, <3>2, <3>3, <3>4
  <2> QED
    BY <2>4, <2>5
<1> QED
  BY <1>1, <1>2, <1>3, <1>4 DEF Next

\* A step of worker w while NewHodDB waits, as building b sees it.
LEMMA WorkerFresh ==
    ASSUME OwnFile, FreshInv, ~ lost, NEW w \in Worker, WorkerStep(w) \/ Fail(w),
           NEW b \in Building, FreshOK(b)
    PROVE  FreshOK(b)'
<1> USE DEF FreshInv, LoadInv, QuietInv
<1> DEFINE f == FileOf[b]
<1>1. f \in File /\ main' = main /\ asked' = asked
  BY DEF WorkerStep, Receive, Hash, Check, Reopen, AppendRead, AppendWrite, Record, Load,
         Index, SendError, Done, Fail, history
<1>2. main \notin {"saving", "encoding", "ready"}
  <2>1. queue # {} \/ w \in Busy
    BY KeepsBuilding DEF Receive
  <2> QED
    BY <2>1 DEF ClosedWhenQuiet, Busy
<1>3. ASSUME main = "loading", ~ Trouble'
      PROVE  InHand(b)' /\ (b \in dbs' => Holds(b, asked[f])')
  <2>1. ~ Fail(w) /\ ~ SendError(w)
    <3>1. Fail(w) => At(w, "send")'
      BY DEF Fail, Go, At, TypeOK
    <3>2. SendError(w) => errs' > 0
      BY FS_CardinalityType DEF SendError, TypeOK
    <3> QED
      BY <1>3, <3>1, <3>2 DEF Trouble
  <2>2. \A u \in Worker \ {w} : worker'[u] = worker[u]
    BY OthersStay
  <2>3. ~ Trouble
    <3>1. errs' = errs
      BY <2>1 DEF WorkerStep, Receive, Hash, Check, Reopen, AppendRead, AppendWrite, Record, Load,
                  Index, Done
    <3>2. ~ At(w, "send")
      BY <2>1 DEF WorkerStep, Receive, Hash, Check, Reopen, AppendRead, AppendWrite, Record, Load,
                  Index, Done, At
    <3> QED
      BY <1>3, <2>2, <3>1, <3>2 DEF Trouble, At
  <2>4. InHand(b) /\ (b \in dbs => Holds(b, asked[f]))
    BY <1>3, <2>3 DEF FreshOK
  <2>5. Holds(b, asked[f]) => Holds(b, asked[f])'
    BY <1>1, HoldsOn DEF Holds
  <2>6. CASE Receive(w)
    <3>1. PICK c \in queue : queue' = queue \ {c} /\ worker'[w].b = c /\ worker'[w].at = "hash"
      BY <2>6 DEF Receive, Idle, TypeOK
    <3>2. dbs' = dbs /\ w \in Busy' /\ w \notin Busy
      BY <2>6, <3>1 DEF Receive, Busy, At
    <3>3. \A u \in Busy : u \in Busy' /\ worker'[u] = worker[u]
      BY <2>2, <3>2 DEF Busy, At
    <3>4. InHand(b)'
      BY <2>4, <3>1, <3>2, <3>3 DEF InHand, At, B
    <3> QED
      BY <2>4, <2>5, <3>2, <3>4
  <2>7. CASE ~ Receive(w)
    <3>1. /\ w \in Busy /\ queue' = queue
          /\ worker'[w].at = "idle" \/ worker'[w].b = worker[w].b
      BY <2>7, KeepsBuilding
    <3>2. dbs \subseteq dbs'
      BY <2>1, <2>7 DEF WorkerStep, Hash, Check, Reopen, AppendRead, AppendWrite, Record, Load,
                        Index, Done
    <3>3. InHand(b)'
      <4>1. CASE B(w) = b /\ ~ At(w, "done")
        <5>1. worker'[w].at # "idle"
          BY <2>1, <2>7, <4>1 DEF WorkerStep, Hash, Check, Reopen, AppendRead, AppendWrite, Record,
                                  Load, Index, Done, Go, At, TypeOK
        <5>2. worker'[w].at = "done" => b \in dbs'
          BY <2>1, <2>7, <4>1 DEF WorkerStep, Hash, Check, Reopen, AppendRead, AppendWrite, Record,
                                  Load, Index, Done, Go, At, B, TypeOK
        <5> QED
          BY <3>1, <4>1, <5>1, <5>2 DEF InHand, Busy, At, B
      <4>2. CASE ~ (B(w) = b /\ ~ At(w, "done"))
        BY <2>2, <2>4, <3>1, <3>2, <4>2 DEF InHand, Busy, At, B
      <4> QED
        BY <4>1, <4>2
    <3>4. ASSUME b \in dbs', b \notin dbs
          PROVE  Holds(b, asked[f])
      <4>1. B(w) = b /\ (Reopen(w) \/ Index(w))
        BY <2>1, <2>7, <3>4 DEF WorkerStep, Hash, Check, Reopen, AppendRead, AppendWrite, Record,
                                Load, Index, Done
      <4>2. WorkOK(w)
        BY <3>1
      <4>3. CASE Index(w)
        BY <4>1, <4>2, <4>3 DEF Index, WorkOK, F
      <4>4. CASE Reopen(w)
        <5>1. loadedfilehashes[f] = worker[w].hash /\ worker[w].hash >= asked[f] /\ At(w, "reopen")
          BY <4>1, <4>2, <4>4 DEF Reopen, WorkOK, F, At
        <5>2. asked[f] \in Nat /\ asked[f] >= 1 /\ worker[w].hash \in Nat
          BY <1>1 DEF AskedOK, TypeOK
        <5>3. Holds(b, loadedfilehashes[f]) \/ Pending(b)
          BY <1>3, <5>1, <5>2 DEF BuildingOK
        <5>4. ~ \E u \in Worker : At(u, "load") /\ B(u) = b
          <6>1. ASSUME NEW u \in Worker, At(u, "load"), B(u) = b
                PROVE  FALSE
            <7>1. u \in Busy
              BY <6>1 DEF Busy, At
            <7>2. u = w
              BY <3>1, <4>1, <6>1, <7>1 DEF HandsOK
            <7> QED
              BY <5>1, <6>1, <7>2 DEF At
          <6> QED
            BY <6>1
        <5>5. Holds(b, loadedfilehashes[f])
          BY <2>3, <5>3, <5>4 DEF Pending, Trouble
        <5> QED
          BY <5>1, <5>2, <5>5 DEF Holds, TypeOK
      <4> QED
        BY <4>1, <4>3, <4>4
    <3> QED
      BY <2>4, <2>5, <3>3, <3>4
  <2> QED
    BY <2>6, <2>7
<1> QED
  BY <1>1, <1>2, <1>3 DEF FreshOK

\* A step of the others, as building b sees it.
LEMMA MainFresh ==
    ASSUME FreshInv, ~ lost', NEW b \in Building, FreshOK(b),
           \/ Start \/ Exit \/ SelectError \/ SelectDone \/ CreateHashes \/ EncodeHashes
           \/ SaveFails \/ \E f \in File : Edit(f)
    PROVE  FreshOK(b)'
<1> USE DEF FreshInv, LoadInv, QuietInv
<1>1. CASE Start
  <2>1. main' = "failed" \/ (main' = "loading" /\ queue' = Building /\ dbs' = {})
    BY <1>1 DEF Start, ErrorInv
  <2> QED
    BY <2>1 DEF FreshOK, InHand
<1>2. CASE Exit \/ SelectError \/ SaveFails
  BY <1>2 DEF Exit, SelectError, SaveFails, FreshOK
<1>3. CASE SelectDone
  <2>1. ~ (errs > 0)
    BY <1>3, Zenon DEF SelectDone
  <2>2. queue = {} /\ Busy = {}
    BY <1>3, CountsAreZero DEF SelectDone
  <2>3. ~ Trouble
    BY <2>1, <2>2 DEF Trouble, Busy, At
  <2>4. b \in dbs /\ Holds(b, asked[FileOf[b]])
    BY <1>3, <2>2, <2>3 DEF SelectDone, FreshOK, InHand
  <2> QED
    BY <1>3, <2>4 DEF SelectDone, FreshOK, Holds, disk
<1>4. CASE CreateHashes \/ EncodeHashes
  BY <1>4 DEF CreateHashes, EncodeHashes, FreshOK, Holds, history
<1>5. CASE \E f \in File : Edit(f)
  BY <1>5 DEF Edit, FreshOK, Holds, InHand, Trouble, Busy, At, B, history
<1> QED
  BY <1>1, <1>2, <1>3, <1>4, <1>5

\* A building is seen to by somebody until it is loaded or its error sent.
LEMMA FreshNext ==
    ASSUME OwnFile, FreshInv, [Next]_vars
    PROVE  FreshInv'
<1> USE DEF FreshInv
<1>1. LoadInv' /\ ErrorInv' /\ AskedOK' /\ HandsOK' /\ \A w \in Busy' : WorkOK(w)'
  BY LoadNext, ErrorNext, AskedNext, HandsNext, WorkNext DEF LoadInv, QuietInv
<1>2. lost => lost'
  BY DEF LoadInv, Next, Start, Exit, MainStep, SelectError, SelectDone, CreateHashes, EncodeHashes,
         SaveFails, Edit, WorkerStep, Receive, Hash, Check, Reopen, AppendRead, AppendWrite, Record,
         Load, Index, SendError, Done, Fail, history, vars
<1>3. ASSUME ~ lost', NEW b \in Building
      PROVE  FreshOK(b)'
  <2>1. FreshOK(b) /\ ~ lost
    BY <1>2, <1>3 DEF LoadInv, QuietInv, TypeOK
  <2>2. CASE Start \/ Exit \/ MainStep \/ SaveFails \/ \E f \in File : Edit(f)
    BY <1>3, <2>1, <2>2, MainFresh DEF MainStep
  <2>3. CASE \E w \in Worker : WorkerStep(w) \/ Fail(w)
    BY <2>1, <2>3, WorkerFresh
  <2>4. CASE UNCHANGED vars
    BY <2>1, <2>4 DEF vars, disk, history, FreshOK, Holds, InHand, Trouble, Busy, At, B
  <2> QED
    BY <2>2, <2>3, <2>4 DEF Next
<1> QED
  BY <1>1, <1>3

\* When no two buildings share a file, a start that ends well has every building
\* in its database, as recent as its file was at that start: through failed
\* starts, exits at any point and edits at any time, as long as no start has gone
\* past an error.
THEOREM AlwaysLoads ==
    ASSUME OwnFile
    PROVE  Spec => []LoadsUnlessLost
<1>1. FreshInv => LoadsUnlessLost
  BY DEF FreshInv, FreshOK, Holds, LoadsUnlessLost, LoadsAnew
<1>2. FreshInv /\ [Next]_vars => FreshInv'
  BY FreshNext
<1> QED
  BY <1>1, <1>2, FreshInit, PTL DEF Spec
=============================================================================
