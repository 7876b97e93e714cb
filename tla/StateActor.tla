----------------------------- MODULE StateActor -----------------------------
(***************************************************************************)
(* What the state actor promises its callers (spec.md 4.1 and 5): a single *)
(* serialization point whose requests take effect atomically, one at a    *)
(* time, each answered to the caller that made it.  A client thread is     *)
(* idle, busy (its request took effect and its reply is on the way) or     *)
(* dead.  After the actor dies no request takes effect: a busy caller      *)
(* without a reply, and any caller that makes a request, dies.             *)
(***************************************************************************)
EXTENDS StateRequests

CONSTANTS
    Clients,    \* the threads that call the actor
    Requests    \* the requests they can make

VARIABLES
    st,         \* [tasks, nodes, up]
    cpc,        \* [Clients -> {"idle", "busy", "dead"}]
    cres        \* [Clients -> value]: what the pending call will return,
                \* NoReply while none is due

vars == <<st, cpc, cres>>

\* A request of c takes effect, and what its call returns is fixed: the
\* reply (unit where the method discards it).
Call(c) ==
    /\ cpc[c] = "idle" /\ st.up
    /\ \E r \in Requests : \E o \in Outcomes(st, r) :
          /\ st' = o[1]
          /\ cres' = [cres EXCEPT ![c] = Delivered(o[2])]
    /\ cpc' = [cpc EXCEPT ![c] = "busy"]

\* c receives its reply and its call returns.
Return(c) ==
    /\ cpc[c] = "busy" /\ cres[c] # NoReply
    /\ cpc' = [cpc EXCEPT ![c] = "idle"] /\ cres' = [cres EXCEPT ![c] = NoReply]
    /\ UNCHANGED st

\* c calls a dead actor, or waits for a reply the actor never sent.
Fail(c) ==
    /\ ~st.up /\ cres[c] = NoReply /\ cpc[c] \in {"idle", "busy"}
    /\ cpc' = [cpc EXCEPT ![c] = "dead"]
    /\ UNCHANGED <<st, cres>>

Init(st0) ==
    /\ st = st0
    /\ cpc = [c \in Clients |-> "idle"]
    /\ cres = [c \in Clients |-> NoReply]

Next == \E c \in Clients : Call(c) \/ Return(c) \/ Fail(c)

\* Every busy caller gets its reply, or dies once the actor has died.
Fairness == \A c \in Clients : WF_vars(Return(c)) /\ WF_vars(Fail(c) /\ cpc[c] = "busy")

Spec(st0) == Init(st0) /\ [][Next]_vars /\ Fairness

=============================================================================
