------------------------------ MODULE Bosswave ------------------------------
(***************************************************************************)
(* Queries over the BOSSWAVE bus.  A Go client (clients/go/client.go)      *)
(* publishes a query under a random nonce and waits for the result with    *)
(* that nonce, or for its timer; one goroutine per client object receives  *)
(* every result on the bus.  The service (actions.go, startServer) handles *)
(* each query message in a goroutine of its own: it drops the databases    *)
(* the sender has no permission for, runs the query on the others and      *)
(* publishes the result to all subscribers.                                *)
(*                                                                         *)
(* A call and its nonce, a random 64 bit number, are one.  A result is the *)
(* nonce and the databases its rows are from; FrontEnd models RunQuery.    *)
(* The bus may lose and delay messages, and deliver a result twice.        *)
(***************************************************************************)
EXTENDS Naturals, FiniteSets

CONSTANTS
    Agent,      \* client objects, HodClientBW2
    Call,       \* calls of DoQuery
    AgentOf,    \* AgentOf[c]: the object it is called on
    Database,   \* databases a query may name
    Loaded,     \* those HodDB has
    From,       \* From[c]: the databases of its FROM clause; {} for all
    Allowed,    \* pairs <<agent, database>> that allowVK grants
    MaxCopies   \* bound on the results delivered twice

ASSUME AgentAssumption == AgentOf \in [Call -> Agent]
ASSUME FromAssumption == From \in [Call -> SUBSET Database]
ASSUME LoadedAssumption == Loaded \subseteq Database /\ IsFiniteSet(Database)
ASSUME CopiesAssumption == MaxCopies \in Nat

VARIABLES
    pc,         \* of each call of DoQuery
    timer,      \* timeoutChan: "off", "armed" or "fired"
    replyChan,  \* what its channel of capacity one holds, a set of results
    outcome,    \* what DoQuery returns
    waiting,    \* waiting[a]: the nonces with an entry
    slot,       \* query messages on the bus
    handler,    \* the goroutine of each query message at the service
    checking,   \* the databases it has still to check
    databases,  \* those it has found allowed: newq.From.Databases
    signal,     \* signal[a]: results on their way to agent a
    copies

clientVars == <<pc, timer, replyChan, outcome, waiting>>
serviceVars == <<handler, checking, databases>>
vars == <<clientVars, serviceVars, slot, signal, copies>>

NoAnswer == [nonce |-> "none", dbs |-> {}]
Result(c, dbs) == [nonce |-> c, dbs |-> dbs]

Init ==
    /\ pc = [c \in Call |-> "idle"]
    /\ timer = [c \in Call |-> "off"]
    /\ replyChan = [c \in Call |-> {}]
    /\ outcome = [c \in Call |-> NoAnswer]
    /\ waiting = [a \in Agent |-> {}]
    /\ slot = {}
    /\ handler = [c \in Call |-> "none"]
    /\ checking = [c \in Call |-> {}]
    /\ databases = [c \in Call |-> {}]
    /\ signal = [a \in Agent |-> {}]
    /\ copies = 0

-----------------------------------------------------------------------------
\* The client

\* DoQuery publishes the query, and only then arms its timer.
Publish(c) ==
    /\ pc[c] = "idle"
    /\ slot' = slot \cup {c}
    /\ timer' = [timer EXCEPT ![c] = "armed"]
    /\ pc' = [pc EXCEPT ![c] = "published"]
    /\ UNCHANGED <<replyChan, outcome, waiting, serviceVars, signal, copies>>

PublishFails(c) ==
    /\ pc[c] = "idle"
    /\ pc' = [pc EXCEPT ![c] = "failed"]
    /\ UNCHANGED <<timer, replyChan, outcome, waiting, serviceVars, slot, signal, copies>>

markWaitFor(c) ==
    /\ pc[c] = "published"
    /\ waiting' = [waiting EXCEPT ![AgentOf[c]] = @ \cup {c}]
    /\ pc' = [pc EXCEPT ![c] = "waiting"]
    /\ UNCHANGED <<timer, replyChan, outcome, serviceVars, slot, signal, copies>>

TimerFires(c) ==
    /\ timer[c] = "armed"
    /\ timer' = [timer EXCEPT ![c] = "fired"]
    /\ UNCHANGED <<pc, replyChan, outcome, waiting, serviceVars, slot, signal, copies>>

\* The select of DoQuery: either case when both are ready.
TakeReply(c) ==
    /\ pc[c] = "waiting"
    /\ \E r \in replyChan[c] : outcome' = [outcome EXCEPT ![c] = r]
    /\ replyChan' = [replyChan EXCEPT ![c] = {}]
    /\ pc' = [pc EXCEPT ![c] = "forget"]
    /\ UNCHANGED <<timer, waiting, serviceVars, slot, signal, copies>>

Forget(c) ==
    /\ pc[c] = "forget"
    /\ waiting' = [waiting EXCEPT ![AgentOf[c]] = @ \ {c}]
    /\ pc' = [pc EXCEPT ![c] = "answered"]
    /\ UNCHANGED <<timer, replyChan, outcome, serviceVars, slot, signal, copies>>

\* ErrNoResponse: the entry of the nonce stays.
GiveUp(c) ==
    /\ pc[c] = "waiting"
    /\ timer[c] = "fired"
    /\ pc' = [pc EXCEPT ![c] = "noResponse"]
    /\ UNCHANGED <<timer, replyChan, outcome, waiting, serviceVars, slot, signal, copies>>

\* Slips: what a plausible bug would make of the definition after it.  No
\* specification uses them; they show that the properties can fail.
SlipReceive(a) ==
    /\ \E r \in signal[a] :
        /\ r.nonce \in waiting[a] => replyChan[r.nonce] = {}
        /\ signal' = [signal EXCEPT ![a] = @ \ {r}]
        /\ replyChan' = IF r.nonce \in waiting[a]
                        THEN [replyChan EXCEPT ![r.nonce] = {r}]
                        ELSE replyChan
    /\ UNCHANGED <<pc, timer, outcome, waiting, serviceVars, slot, copies>>

\* The receiving goroutine of a client object: under the lock it hands the
\* result to the call that waits for its nonce, if there is one and its channel
\* has room, and else drops it.
Receive(a) ==
    /\ \E r \in signal[a] :
        /\ signal' = [signal EXCEPT ![a] = @ \ {r}]
        /\ replyChan' = IF r.nonce \in waiting[a] /\ replyChan[r.nonce] = {}
                        THEN [replyChan EXCEPT ![r.nonce] = {r}]
                        ELSE replyChan
    /\ UNCHANGED <<pc, timer, outcome, waiting, serviceVars, slot, copies>>

-----------------------------------------------------------------------------
\* The bus

LoseQuery ==
    /\ \E c \in slot : slot' = slot \ {c}
    /\ UNCHANGED <<clientVars, serviceVars, signal, copies>>

LoseResult(a) ==
    /\ \E r \in signal[a] : signal' = [signal EXCEPT ![a] = @ \ {r}]
    /\ UNCHANGED <<clientVars, serviceVars, slot, copies>>

\* A result that was published is delivered to an agent once more.
Repeat(a) ==
    /\ copies < MaxCopies
    /\ \E c \in Call :
        /\ handler[c] = "done"
        /\ signal' = [signal EXCEPT ![a] = @ \cup {Result(c, databases[c])}]
    /\ copies' = copies + 1
    /\ UNCHANGED <<clientVars, serviceVars, slot>>

-----------------------------------------------------------------------------
\* The service

\* A query message gets a goroutine.  An empty FROM clause stands for all the
\* databases there are; the list of the query is emptied.
Requested(c) == IF From[c] = {} THEN Loaded ELSE From[c]

Handle(c) ==
    /\ c \in slot
    /\ slot' = slot \ {c}
    /\ handler' = [handler EXCEPT ![c] = "check"]
    /\ checking' = [checking EXCEPT ![c] = Requested(c)]
    /\ databases' = [databases EXCEPT ![c] = {}]
    /\ UNCHANGED <<clientVars, signal, copies>>

SlipCheck(c) ==
    /\ handler[c] = "check"
    /\ \E d \in checking[c] :
        /\ checking' = [checking EXCEPT ![c] = @ \ {d}]
        /\ databases' = [databases EXCEPT ![c] = @ \cup {d}]
    /\ UNCHANGED <<clientVars, handler, slot, signal, copies>>

\* ResolveLongAlias may fail for a database; allowVK decides on the others.
Check(c) ==
    /\ handler[c] = "check"
    /\ \E d \in checking[c], resolved \in BOOLEAN :
        /\ checking' = [checking EXCEPT ![c] = @ \ {d}]
        /\ databases' = [databases EXCEPT ![c] =
             IF resolved /\ <<AgentOf[c], d>> \in Allowed THEN @ \cup {d} ELSE @]
    /\ UNCHANGED <<clientVars, handler, slot, signal, copies>>

PublishSignal(c, dbs) ==
    /\ databases' = [databases EXCEPT ![c] = dbs]
    /\ handler' = [handler EXCEPT ![c] = "done"]
    /\ signal' = [a \in Agent |-> signal[a] \cup {Result(c, dbs)}]
    /\ UNCHANGED <<clientVars, checking, slot, copies>>

\* RunQuery on the databases that are left; it passes over those not loaded.
RunQuery(c) ==
    /\ handler[c] = "check"
    /\ checking[c] = {}
    /\ PublishSignal(c, databases[c] \cap Loaded)

\* returnErr, when the query does not parse or RunQuery fails: a response with
\* the nonce and an Error, which the client does not decode: to its caller it is
\* an answer without rows.
ReturnErr(c) ==
    /\ handler[c] = "check"
    /\ checking[c] \in {Requested(c), {}}
    /\ PublishSignal(c, {})

\* Neither response can be sent.
PublishSignalFails(c) ==
    /\ handler[c] = "check"
    /\ checking[c] \in {Requested(c), {}}
    /\ handler' = [handler EXCEPT ![c] = "failed"]
    /\ UNCHANGED <<clientVars, checking, databases, slot, signal, copies>>

-----------------------------------------------------------------------------
DoQuery(c) ==
    Publish(c) \/ PublishFails(c) \/ markWaitFor(c) \/ TakeReply(c) \/ Forget(c) \/ GiveUp(c)
Service(c) ==
    Handle(c) \/ Check(c) \/ RunQuery(c) \/ ReturnErr(c) \/ PublishSignalFails(c)

Next ==
    \/ \E c \in Call : DoQuery(c) \/ TimerFires(c) \/ Service(c)
    \/ \E a \in Agent : Receive(a) \/ LoseResult(a) \/ Repeat(a)
    \/ LoseQuery

\* The goroutines of DoQuery and the receiving goroutines keep running and a
\* timer fires.  Nothing is assumed of the service and of the bus.
Spec ==
    /\ Init /\ [][Next]_vars
    /\ \A c \in Call : WF_vars(DoQuery(c)) /\ WF_vars(TimerFires(c))
    /\ \A a \in Agent : WF_vars(Receive(a))

-----------------------------------------------------------------------------
\* Properties

\* The databases the query of a call names, that are loaded, and that its sender
\* may read.
Readable == [c \in Call |->
    {d \in Loaded : <<AgentOf[c], d>> \in Allowed /\ (From[c] = {} \/ d \in From[c])}]

\* Where a call is, and what it has been told, as its caller sees it.
Status == [c \in Call |->
    CASE pc[c] = "idle" -> "idle"
      [] pc[c] \in {"published", "waiting"} -> "asked"
      [] pc[c] \in {"forget", "answered"} -> "answered"
      [] pc[c] \in {"noResponse", "failed"} -> "gaveUp"]

Answer == [c \in Call |-> outcome[c].dbs]

Remote == INSTANCE RemoteQuery WITH status <- Status, answer <- Answer

\* Whatever the bus loses, delays or repeats and however handlers and timeouts
\* interleave, every call of DoQuery returns, either without an answer or with
\* one from databases its own query names and its own sender may read.
CallsAreRemoteQueries == Remote!Spec

\* The receiving goroutine never waits for a caller: a result on the bus, late,
\* repeated or for nobody, is taken from it, so that those behind it come through.
ResultsTaken == \A a \in Agent : signal[a] # {} ~> signal[a] = {}
=============================================================================
