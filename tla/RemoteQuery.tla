----------------------------- MODULE RemoteQuery -----------------------------
(***************************************************************************)
(* What a caller of DoQuery over BOSSWAVE may count on: a call is asked    *)
(* once and ends, with an answer drawn from databases that the query names *)
(* and its sender may read, or without one.                                *)
(***************************************************************************)
CONSTANTS Call, Readable    \* Readable[c]: the databases the answer may use

VARIABLES status, answer

Asked(c) == status[c] = "asked"

Init ==
    /\ status = [c \in Call |-> "idle"]
    /\ answer = [c \in Call |-> {}]

Ask(c) ==
    /\ status[c] = "idle"
    /\ status' = [status EXCEPT ![c] = "asked"]
    /\ UNCHANGED answer

Answered(c) ==
    /\ Asked(c)
    /\ \E dbs \in SUBSET Readable[c] : answer' = [answer EXCEPT ![c] = dbs]
    /\ status' = [status EXCEPT ![c] = "answered"]

GivenUp(c) ==
    /\ status[c] \in {"idle", "asked"}
    /\ status' = [status EXCEPT ![c] = "gaveUp"]
    /\ UNCHANGED answer

Next == \E c \in Call : Ask(c) \/ Answered(c) \/ GivenUp(c)

Spec ==
    /\ Init
    /\ [][Next]_<<status, answer>>
    /\ \A c \in Call : WF_<<status, answer>>(Asked(c) /\ (Answered(c) \/ GivenUp(c)))
=============================================================================
