------------------------- MODULE StateActorChannel -------------------------
(***************************************************************************)
(* The state actor at the level of its channels (src/state/state.rs).      *)
(* Every StateManager method that talks to the actor creates a fresh reply *)
(* channel, sends one StateRequestMsg carrying its sender on the actor's   *)
(* mpsc channel, and blocks in receiver.recv().unwrap().  The state-serve  *)
(* thread takes the messages in order and answers each on its reply        *)
(* channel.  When that thread panics its receiver is dropped, and with it  *)
(* every queued message and its reply sender: a later send fails, and a    *)
(* waiting recv returns Err, and both unwraps panic the calling thread.    *)
(*                                                                         *)
(* The module is shown to implement StateActor, in which a request is one  *)
(* atomic step: the request takes effect when the actor serves it.         *)
(***************************************************************************)
EXTENDS Sequences, StateRequests

CONSTANTS
    Clients,    \* the threads that call the actor
    Requests,   \* the requests they can make
    St0         \* the tables when the threads start (after load_node_list)

\* Every request is a message of one of the StateRequestMsg variants.
ASSUME \A r \in Requests : r.op \in RequestOps

VARIABLES
    st,         \* the state-serve thread's tables and liveness
    inbox,      \* the mpsc channel: Seq([from, req]) in send order
    reply,      \* [Clients -> Seq(reply)]: the pending call's reply channel
    pc,         \* [Clients -> {"idle", "wait", "dead"}]
    creq        \* [Clients -> request]: the pending call's message

\* No call is pending (the method's locals are gone).
NoRequest == [op |-> "none"]

vars == <<st, inbox, reply, pc, creq>>

\* A StateManager method up to its send: a fresh channel, then
\* self.sender.send(msg).unwrap(), which panics once the actor is gone.
ClientSend(c) ==
    /\ pc[c] = "idle"
    /\ \E r \in Requests :
          IF st.up
          THEN /\ inbox' = Append(inbox, [from |-> c, req |-> r])
               /\ pc' = [pc EXCEPT ![c] = "wait"]
               /\ creq' = [creq EXCEPT ![c] = r]
          ELSE /\ pc' = [pc EXCEPT ![c] = "dead"]
               /\ UNCHANGED <<inbox, creq>>
    /\ UNCHANGED <<st, reply>>

\* One turn of start_serving's loop: rx.recv(), then the handler, which ends
\* with sender.send(reply).  A handler that panics ends the thread without
\* a reply; the messages still queued are never read again.
Serve ==
    /\ st.up /\ inbox # << >>
    /\ LET m == Head(inbox) IN
       \E o \in Outcomes(st, m.req) :
          /\ st' = o[1]
          /\ reply' = IF o[1].up THEN [reply EXCEPT ![m.from] = Append(@, o[2])]
                                  ELSE reply
    /\ inbox' = Tail(inbox)
    /\ UNCHANGED <<pc, creq>>

\* Fault variant of ClientRecv: the reply is read from whichever reply
\* channel holds one, as if callers shared one channel.
ClientRecvShared(c) ==
    /\ pc[c] = "wait"
    /\ \E d \in Clients :
          /\ reply[d] # << >>
          /\ reply' = [reply EXCEPT ![d] = Tail(@)]
    /\ pc' = [pc EXCEPT ![c] = "idle"]
    /\ creq' = [creq EXCEPT ![c] = NoRequest]
    /\ UNCHANGED <<st, inbox>>

\* receiver.recv().unwrap() returns the reply; the method matches it
\* against the variant it expects (Returned) and returns.
ClientRecv(c) ==
    /\ pc[c] = "wait" /\ reply[c] # << >>
    /\ reply' = [reply EXCEPT ![c] = Tail(@)]
    /\ pc' = [pc EXCEPT ![c] = "idle"]
    /\ creq' = [creq EXCEPT ![c] = NoRequest]
    /\ UNCHANGED <<st, inbox>>

\* recv returns Err once every sender of the channel is dropped, which
\* happens when the actor died without answering; unwrap panics.
ClientRecvFails(c) ==
    /\ pc[c] = "wait" /\ reply[c] = << >> /\ ~st.up
    /\ pc' = [pc EXCEPT ![c] = "dead"]
    /\ UNCHANGED <<st, inbox, reply, creq>>

Init ==
    /\ st = St0 /\ inbox = << >>
    /\ reply = [c \in Clients |-> << >>]
    /\ pc = [c \in Clients |-> "idle"]
    /\ creq = [c \in Clients |-> NoRequest]

Next ==
    \/ Serve
    \/ \E c \in Clients : ClientSend(c) \/ ClientRecv(c) \/ ClientRecvFails(c)

\* The actor thread loops on its channel; a caller blocked in recv wakes up
\* when its reply arrives or its channel closes.
Fairness ==
    /\ WF_vars(Serve)
    /\ \A c \in Clients : WF_vars(ClientRecv(c)) /\ WF_vars(ClientRecvFails(c))

Spec == Init /\ [][Next]_vars /\ Fairness

-----------------------------------------------------------------------------
(* Refinement.  A caller whose message is still in the inbox has not yet   *)
(* made its abstract call; once served it is busy until it has read its   *)
(* reply.                                                                  *)

Queued(c) == \E i \in DOMAIN inbox : inbox[i].from = c

AbsPc(c) ==
    CASE pc[c] = "dead"                 -> "dead"
      [] pc[c] = "wait" /\ ~Queued(c)   -> "busy"
      [] OTHER                          -> "idle"

\* What c's method returns for the reply waiting on its channel.
AbsRes(c) == IF reply[c] = << >> THEN NoReply ELSE Returned(creq[c], Head(reply[c]))

Abs == INSTANCE StateActor WITH cpc <- [c \in Clients |-> AbsPc(c)],
                                cres <- [c \in Clients |-> AbsRes(c)]

\* The channel protocol implements atomic requests: every behaviour of the
\* actor and its callers, with requests queued, served and answered in
\* separate steps, is a behaviour of StateActor, in which each request
\* takes effect in one step and its reply goes to the caller that made
\* it, whose method returns that reply and never its default; and every
\* caller that waits gets its reply or dies with the actor.
StateActorRefined == Abs!Init(St0) /\ [][Abs!Next]_Abs!vars /\ Abs!Fairness

=============================================================================
