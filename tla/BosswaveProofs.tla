--------------------------- MODULE BosswaveProofs ---------------------------
(***************************************************************************)
(* Proofs about Bosswave, for every set of client objects, calls and       *)
(* databases, every choice of permissions and any number of repetitions:   *)
(* the safety half of what RemoteQuery promises a caller of DoQuery.       *)
(***************************************************************************)
EXTENDS Bosswave, TLAPS

USE AgentAssumption, FromAssumption, LoadedAssumption, CopiesAssumption

-----------------------------------------------------------------------------
(* The inductive invariant.                                                *)

\* The databases the query of call c names and its sender may read.
MayRead(c) == {d \in Requested(c) : <<AgentOf[c], d>> \in Allowed}

\* A result as the service publishes it for a call.
Honest(r) ==
    \E c \in Call : \E dbs \in SUBSET (MayRead(c) \cap Loaded) : r = Result(c, dbs)

ClientTypeOK ==
    /\ pc \in [Call -> {"idle", "published", "waiting", "forget", "answered",
                        "noResponse", "failed"}]
    /\ DOMAIN replyChan = Call
    /\ DOMAIN outcome = Call

ServiceTypeOK ==
    /\ slot \subseteq Call
    /\ DOMAIN handler = Call
    /\ DOMAIN checking = Call
    /\ DOMAIN databases = Call

\* A handler has checked what it has of the databases its own query names, and
\* a result on the bus is one a handler published: the loop over the databases
\* and the broadcast of results never mix two queries up.
ServiceHonest ==
    \A c \in Call :
        /\ checking[c] \subseteq Requested(c)
        /\ databases[c] \subseteq MayRead(c)
        /\ handler[c] = "done" => databases[c] \subseteq Loaded

BusHonest == DOMAIN signal = Agent /\ \A a \in Agent : \A r \in signal[a] : Honest(r)

\* A channel holds results for its own call only.
RepliesHonest ==
    \A c \in Call : \A r \in replyChan[c] : Honest(r) /\ r.nonce = c

Inv == ClientTypeOK /\ ServiceTypeOK /\ ServiceHonest /\ BusHonest /\ RepliesHonest

\* Before the first call nothing is known and nothing is held.
LEMMA InitInv == Init => Inv
BY DEF Init, Inv, ClientTypeOK, ServiceTypeOK, ServiceHonest, BusHonest, RepliesHonest

\* The steps of DoQuery move no result but into its own hands.
LEMMA DoQueryInv ==
    ASSUME Inv, NEW c \in Call, DoQuery(c) \/ TimerFires(c)
    PROVE  Inv'
<1> USE DEF Inv, serviceVars
<1>1. CASE Publish(c)
  BY <1>1 DEF Publish, ClientTypeOK, ServiceTypeOK, ServiceHonest, BusHonest, RepliesHonest
<1>2. CASE PublishFails(c)
  BY <1>2 DEF PublishFails, ClientTypeOK, ServiceTypeOK, ServiceHonest, BusHonest, RepliesHonest
<1>3. CASE markWaitFor(c)
  BY <1>3 DEF markWaitFor, ClientTypeOK, ServiceTypeOK, ServiceHonest, BusHonest, RepliesHonest
<1>4. CASE TakeReply(c)
  <2>1. ClientTypeOK'
    BY <1>4 DEF TakeReply, ClientTypeOK
  <2>2. RepliesHonest'
    BY <1>4 DEF TakeReply, ClientTypeOK, RepliesHonest
  <2> QED
    BY <1>4, <2>1, <2>2 DEF TakeReply, ServiceTypeOK, ServiceHonest, BusHonest
<1>5. CASE Forget(c)
  BY <1>5 DEF Forget, ClientTypeOK, ServiceTypeOK, ServiceHonest, BusHonest, RepliesHonest
<1>6. CASE GiveUp(c)
  BY <1>6 DEF GiveUp, ClientTypeOK, ServiceTypeOK, ServiceHonest, BusHonest, RepliesHonest
<1>7. CASE TimerFires(c)
  BY <1>7 DEF TimerFires, ClientTypeOK, ServiceTypeOK, ServiceHonest, BusHonest, RepliesHonest
<1> QED
  BY <1>1, <1>2, <1>3, <1>4, <1>5, <1>6, <1>7 DEF DoQuery

\* The receiving goroutine puts a result where its nonce says.
LEMMA ReceiveInv ==
    ASSUME Inv, NEW a \in Agent, Receive(a)
    PROVE  Inv'
<1>1. PICK r \in signal[a] :
          /\ signal' = [signal EXCEPT ![a] = @ \ {r}]
          /\ replyChan' = IF r.nonce \in waiting[a] /\ replyChan[r.nonce] = {}
                          THEN [replyChan EXCEPT ![r.nonce] = {r}]
                          ELSE replyChan
  BY DEF Receive
<1>2. Honest(r)
  BY DEF Inv, BusHonest
<1>3. r.nonce \in Call
  BY <1>2 DEF Honest, Result
<1>4. BusHonest'
  <2>1. \A b \in Agent : signal'[b] \subseteq signal[b]
    BY <1>1 DEF Inv, BusHonest
  <2>2. DOMAIN signal' = Agent
    BY <1>1 DEF Inv, BusHonest
  <2> QED
    BY <2>1, <2>2 DEF Inv, BusHonest, Honest
<1>5. DOMAIN replyChan' = Call
  BY <1>1 DEF Inv, ClientTypeOK
<1>6. RepliesHonest'
  <2> SUFFICES ASSUME NEW c \in Call, NEW s \in replyChan'[c]
               PROVE  Honest(s) /\ s.nonce = c
    BY DEF RepliesHonest, Honest
  <2>1. (s = r /\ r.nonce = c) \/ s \in replyChan[c]
    BY <1>1, <1>3 DEF Inv, ClientTypeOK
  <2> QED
    BY <1>2, <2>1 DEF Inv, RepliesHonest
<1> QED
  BY <1>4, <1>5, <1>6
     DEF Receive, Inv, ClientTypeOK, ServiceTypeOK, ServiceHonest, serviceVars

\* The bus delivers what was published, whatever it loses or repeats.
LEMMA BusInv ==
    ASSUME Inv, LoseQuery \/ \E a \in Agent : LoseResult(a) \/ Repeat(a)
    PROVE  Inv'
<1> USE DEF clientVars, serviceVars
<1>1. CASE LoseQuery
  BY <1>1 DEF LoseQuery, Inv, ClientTypeOK, ServiceTypeOK, ServiceHonest, BusHonest, RepliesHonest
<1>2. ASSUME NEW a \in Agent, LoseResult(a)
      PROVE  Inv'
  <2>1. \A b \in Agent : signal'[b] \subseteq signal[b]
    BY <1>2 DEF LoseResult, Inv, BusHonest
  <2>2. BusHonest'
    BY <1>2, <2>1 DEF LoseResult, Inv, BusHonest, Honest
  <2> QED
    BY <1>2, <2>2 DEF LoseResult, Inv, ClientTypeOK, ServiceTypeOK, ServiceHonest, RepliesHonest
<1>3. ASSUME NEW a \in Agent, Repeat(a)
      PROVE  Inv'
  <2>1. PICK c \in Call :
            /\ handler[c] = "done"
            /\ signal' = [signal EXCEPT ![a] = @ \cup {Result(c, databases[c])}]
    BY <1>3 DEF Repeat
  <2>2. Honest(Result(c, databases[c]))
    BY <2>1 DEF Inv, ServiceHonest, Honest
  <2>3. \A b \in Agent : signal'[b] \subseteq signal[b] \cup {Result(c, databases[c])}
    BY <2>1 DEF Inv, BusHonest
  <2>4. \A b \in Agent : \A r \in signal'[b] : Honest(r)
    BY <2>2, <2>3 DEF Inv, BusHonest
  <2>5. BusHonest'
    BY <2>1, <2>4 DEF Inv, BusHonest, Honest
  <2> QED
    BY <1>3, <2>5 DEF Repeat, Inv, ClientTypeOK, ServiceTypeOK, ServiceHonest, RepliesHonest
<1> QED
  BY <1>1, <1>2, <1>3

\* Publishing a result drawn from what the query may read.
LEMMA PublishSignalInv ==
    ASSUME Inv, NEW c \in Call, NEW dbs \in SUBSET (MayRead(c) \cap Loaded),
           PublishSignal(c, dbs)
    PROVE  Inv'
<1> USE DEF clientVars
<1>1. Honest(Result(c, dbs))
  BY DEF Honest
<1>2. \A a \in Agent : \A r \in signal'[a] : Honest(r)
  BY <1>1 DEF PublishSignal, Inv, BusHonest
<1>3. BusHonest'
  BY <1>2 DEF PublishSignal, BusHonest, Honest
<1>4. ServiceHonest' /\ ServiceTypeOK'
  BY DEF PublishSignal, Inv, ServiceTypeOK, ServiceHonest
<1> QED
  BY <1>3, <1>4 DEF PublishSignal, Inv, ClientTypeOK, RepliesHonest

\* The goroutine of a query message keeps to the databases it has checked.
LEMMA ServiceInv ==
    ASSUME Inv, NEW c \in Call, Service(c)
    PROVE  Inv'
<1> USE DEF clientVars
<1>1. CASE Handle(c)
  BY <1>1 DEF Handle, Inv, ClientTypeOK, ServiceTypeOK, ServiceHonest, BusHonest, RepliesHonest
<1>2. CASE Check(c)
  <2>1. PICK d \in checking[c], resolved \in BOOLEAN :
            /\ checking' = [checking EXCEPT ![c] = @ \ {d}]
            /\ databases' = [databases EXCEPT ![c] =
                 IF resolved /\ <<AgentOf[c], d>> \in Allowed THEN @ \cup {d} ELSE @]
    BY <1>2 DEF Check
  <2>2. d \in Requested(c)
    BY DEF Inv, ServiceHonest
  <2>3. ServiceTypeOK'
    BY <1>2, <2>1 DEF Check, Inv, ServiceTypeOK
  <2>4. ServiceHonest'
    BY <1>2, <2>1, <2>2 DEF Check, Inv, ServiceTypeOK, ServiceHonest, MayRead
  <2> QED
    BY <1>2, <2>3, <2>4 DEF Check, Inv, ClientTypeOK, BusHonest, RepliesHonest
<1>3. CASE RunQuery(c)
  <2>1. databases[c] \cap Loaded \in SUBSET (MayRead(c) \cap Loaded)
    BY DEF Inv, ServiceHonest
  <2> QED
    BY <1>3, <2>1, PublishSignalInv DEF RunQuery
<1>4. CASE ReturnErr(c)
  BY <1>4, PublishSignalInv DEF ReturnErr
<1>5. CASE PublishSignalFails(c)
  BY <1>5 DEF PublishSignalFails, Inv, ClientTypeOK, ServiceTypeOK, ServiceHonest, BusHonest,
              RepliesHonest
<1> QED
  BY <1>1, <1>2, <1>3, <1>4, <1>5 DEF Service

\* Each step of bw.go, client.go and of the bus keeps the invariant.
LEMMA NextInv == Inv /\ [Next]_vars => Inv'
<1> SUFFICES ASSUME Inv, [Next]_vars PROVE Inv'
  OBVIOUS
<1>1. CASE Next
  BY <1>1, DoQueryInv, ReceiveInv, BusInv, ServiceInv DEF Next
<1>2. CASE UNCHANGED vars
  BY <1>2 DEF vars, clientVars, serviceVars, Inv, ClientTypeOK, ServiceTypeOK, ServiceHonest,
              BusHonest, RepliesHonest
<1> QED
  BY <1>1, <1>2

\* Results never leak: on the bus, in a channel or at the service, what belongs
\* to a query comes from databases that query names and its sender may read.
THEOREM ResultsHonest == Spec => []Inv
BY InitInv, NextInv, PTL DEF Spec

-----------------------------------------------------------------------------
(* The refinement.                                                         *)

\* The loaded databases a call may read are those the abstract service lets it read.
LEMMA ReadableIsMayRead ==
    ASSUME NEW c \in Call
    PROVE  MayRead(c) \cap Loaded = Readable[c]
BY DEF MayRead, Requested, Readable

\* At the start no call of the abstract service has been made.
LEMMA RefinesInit == Init => Remote!Init
BY DEF Init, Remote!Init, NoAnswer, Status, Answer

\* A step that leaves the calls where they are, or moves one between two points
\* with the same meaning to its caller, is a stutter.
LEMMA StutterSteps ==
    ASSUME Inv, NEW c \in Call,
           markWaitFor(c) \/ Forget(c) \/ UNCHANGED <<pc, outcome>>
    PROVE  Status' = Status /\ Answer' = Answer
<1>1. CASE markWaitFor(c)
  <2>1. pc[c] = "published" /\ pc' = [pc EXCEPT ![c] = "waiting"] /\ outcome' = outcome
    BY <1>1 DEF markWaitFor
  <2> QED
    BY <2>1 DEF Inv, ClientTypeOK, Status, Answer
<1>2. CASE Forget(c)
  <2>1. pc[c] = "forget" /\ pc' = [pc EXCEPT ![c] = "answered"] /\ outcome' = outcome
    BY <1>2 DEF Forget
  <2> QED
    BY <2>1 DEF Inv, ClientTypeOK, Status, Answer
<1>3. CASE UNCHANGED <<pc, outcome>>
  BY <1>3 DEF Status, Answer
<1> QED
  BY <1>1, <1>2, <1>3

\* Publishing a query is asking it.
LEMMA PublishAsks ==
    ASSUME Inv, NEW c \in Call, Publish(c)
    PROVE  Status[c] = "idle" /\ Status' = [Status EXCEPT ![c] = "asked"] /\ Answer' = Answer
<1>1. pc[c] = "idle" /\ pc' = [pc EXCEPT ![c] = "published"] /\ outcome' = outcome
  BY DEF Publish
<1> QED
  BY <1>1 DEF Inv, ClientTypeOK, Status, Answer

\* A publish that fails and a timeout end the call without an answer.
LEMMA FailuresGiveUp ==
    ASSUME Inv, NEW c \in Call, PublishFails(c) \/ GiveUp(c)
    PROVE  /\ Status[c] \in {"idle", "asked"}
           /\ Status' = [Status EXCEPT ![c] = "gaveUp"]
           /\ Answer' = Answer
<1>1. CASE PublishFails(c)
  <2>1. pc[c] = "idle" /\ pc' = [pc EXCEPT ![c] = "failed"] /\ outcome' = outcome
    BY <1>1 DEF PublishFails
  <2> QED
    BY <2>1 DEF Inv, ClientTypeOK, Status, Answer
<1>2. CASE GiveUp(c)
  <2>1. pc[c] = "waiting" /\ pc' = [pc EXCEPT ![c] = "noResponse"] /\ outcome' = outcome
    BY <1>2 DEF GiveUp
  <2> QED
    BY <2>1 DEF Inv, ClientTypeOK, Status, Answer
<1> QED
  BY <1>1, <1>2

\* The reply a call takes is an answer it may be given.
LEMMA ReplyAnswers ==
    ASSUME Inv, NEW c \in Call, TakeReply(c)
    PROVE  /\ Status[c] = "asked"
           /\ \E dbs \in SUBSET Readable[c] : Answer' = [Answer EXCEPT ![c] = dbs]
           /\ Status' = [Status EXCEPT ![c] = "answered"]
<1>1. PICK r \in replyChan[c] : outcome' = [outcome EXCEPT ![c] = r]
  BY DEF TakeReply
<1>2. pc[c] = "waiting" /\ pc' = [pc EXCEPT ![c] = "forget"]
  BY DEF TakeReply
<1>3. Honest(r) /\ r.nonce = c
  BY DEF Inv, RepliesHonest
<1>4. r.dbs \in SUBSET Readable[c]
  BY <1>3, ReadableIsMayRead DEF Honest, Result
<1>5. Answer' = [Answer EXCEPT ![c] = r.dbs]
  BY <1>1 DEF Inv, ClientTypeOK, Answer
<1>6. Status[c] = "asked" /\ Status' = [Status EXCEPT ![c] = "answered"]
  BY <1>2 DEF Inv, ClientTypeOK, Status
<1> QED
  BY <1>4, <1>5, <1>6

\* A step of a client, the bus or the service is a step of RemoteQuery or none.
LEMMA RefinesNext ==
    Inv /\ [Next]_vars => [Remote!Next]_<<Status, Answer>>
<1> SUFFICES ASSUME Inv, [Next]_vars
             PROVE  Remote!Next \/ UNCHANGED <<Status, Answer>>
  OBVIOUS
<1>1. ASSUME NEW c \in Call, DoQuery(c)
      PROVE  Remote!Next \/ UNCHANGED <<Status, Answer>>
  <2>1. CASE Publish(c)
    <3>1. Remote!Ask(c)
      BY <2>1, PublishAsks DEF Remote!Ask, Status, Answer
    <3> QED
      BY <3>1 DEF Remote!Next
  <2>2. CASE PublishFails(c) \/ GiveUp(c)
    <3>1. Remote!GivenUp(c)
      BY <2>2, FailuresGiveUp DEF Remote!GivenUp, Status, Answer
    <3> QED
      BY <3>1 DEF Remote!Next
  <2>3. CASE TakeReply(c)
    <3>1. Remote!Answered(c)
      BY <2>3, ReplyAnswers DEF Remote!Answered, Remote!Asked, Status, Answer, Readable
    <3> QED
      BY <3>1 DEF Remote!Next
  <2>4. CASE markWaitFor(c) \/ Forget(c)
    BY <2>4, StutterSteps
  <2> QED
    BY <1>1, <2>1, <2>2, <2>3, <2>4 DEF DoQuery
<1>2. ASSUME UNCHANGED <<pc, outcome>>
      PROVE  UNCHANGED <<Status, Answer>>
  BY <1>2 DEF Status, Answer
<1>3. ASSUME NEW c \in Call, TimerFires(c) \/ Service(c)
      PROVE  UNCHANGED <<pc, outcome>>
  BY <1>3 DEF TimerFires, Service, Handle, Check, RunQuery, ReturnErr, PublishSignal,
              PublishSignalFails, clientVars
<1>4. ASSUME NEW a \in Agent, Receive(a) \/ LoseResult(a) \/ Repeat(a)
      PROVE  UNCHANGED <<pc, outcome>>
  BY <1>4 DEF Receive, LoseResult, Repeat, clientVars
<1>5. ASSUME LoseQuery
      PROVE  UNCHANGED <<pc, outcome>>
  BY <1>5 DEF LoseQuery, clientVars
<1>6. CASE UNCHANGED vars
  BY <1>2, <1>6 DEF vars, clientVars
<1> QED
  BY <1>1, <1>2, <1>3, <1>4, <1>5, <1>6 DEF Next

\* The safety of CallsAreRemoteQueries: whatever the bus loses, delays or
\* repeats and however handlers and timeouts interleave, a call of DoQuery is
\* asked once, and is answered, if at all and once, from databases its own query
\* names and its own sender may read.
THEOREM CallsAreSafe ==
    Spec => Remote!Init /\ [][Remote!Next]_<<Status, Answer>>
BY ResultsHonest, RefinesInit, RefinesNext, PTL DEF Spec
=============================================================================
