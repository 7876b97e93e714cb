--------------------------- MODULE StateRequests ---------------------------
(***************************************************************************)
(* The request vocabulary of the state actor (StateRequestMsg in           *)
(* src/state/state.rs) and what the state-serve thread does with each      *)
(* request: the handler's change to the tables and the reply it sends on   *)
(* the request's reply channel.                                            *)
(*                                                                         *)
(* The actor's state is a record [tasks, nodes, up]: the two tables and    *)
(* whether the thread is still alive.  A request is a record whose op     *)
(* names the StateRequestMsg variant and whose other fields are its        *)
(* arguments.  Outcomes(st, r) is the set of pairs <<new state, reply>>    *)
(* the handler can produce; it has several members only where the code     *)
(* depends on HashMap iteration order, and a panic is a new state with up  *)
(* FALSE and no reply.                                                     *)
(***************************************************************************)
EXTENDS TaskTable, NodeTable

\* A reply is the one-field record [op |-> value]: each variant's reply
\* type (the response enum's variants) is told apart by its field.
Reply(r, v) == [o \in {r.op} |-> v]

\* The variants of StateRequestMsg; each also carries the sender of the
\* caller's reply channel.
RequestOps ==
    {"Ping", "GetTaskState", "GetTaskNameById", "GetTaskIPByName", "UpdateTaskState",
     "UpdateTaskNodeName", "UpdateTaskInfo", "StartTask", "RemoveTask",
     "GetRequestedTasks", "GetRunningTasks", "AddNode", "GetIsNodeActive",
     "UpdateNode", "GetNode", "GetNodes"}

\* No reply is due (also: a handler panicked before sending one).
NoReply == [none |-> TRUE]

Ack(r, st) == {<<st, Reply(r, "Ack")>>}
Answer(st, r, v) == {<<st, Reply(r, v)>>}

\* get_node: NodeList::get_node(..).unwrap(); the Err of a missing node
\* panics the state-serve thread.
DoGetNode(st, r) ==
    IF GetNode(st.nodes, r.n).found THEN Answer(st, r, GetNode(st.nodes, r.n))
    ELSE {<<[st EXCEPT !.up = FALSE], NoReply>>}

\* The match of start_serving's loop: one handler per variant.  Every
\* handler but get_node ends with one sender.send(reply).
Outcomes(st, r) ==
    CASE r.op = "Ping"               -> Answer(st, r, "Pong")
      [] r.op = "GetTaskState"       -> Answer(st, r, GetTaskState(st.tasks, r.t))
      [] r.op = "GetTaskNameById"    -> {<<st, Reply(r, v)>> : v \in GetTaskNameById(st.tasks, r.id)}
      [] r.op = "GetTaskIPByName"    -> Answer(st, r, GetTaskIpByName(st.tasks, r.t))
      [] r.op = "UpdateTaskState"    -> Ack(r, [st EXCEPT !.tasks = SetTaskState(@, r.t, r.s)])
      [] r.op = "UpdateTaskNodeName" -> Ack(r, [st EXCEPT !.tasks = SetTaskNodeName(@, r.t, r.n)])
      [] r.op = "UpdateTaskInfo"     -> Ack(r, [st EXCEPT !.tasks = SetTaskInfo(@, r.t, r.id, r.ip)])
      [] r.op = "StartTask"          -> Ack(r, [st EXCEPT !.tasks = AddNewTask(@, r.t, r.task)])
      [] r.op = "RemoveTask"         -> Ack(r, [st EXCEPT !.tasks = RemoveTaskByName(@, r.t)])
      [] r.op = "GetRequestedTasks"  -> Answer(st, r, GetTasksWithState(st.tasks, "Requested"))
      [] r.op = "GetRunningTasks"    -> Answer(st, r, GetTasksWithState(st.tasks, "Running"))
      [] r.op = "AddNode"            -> Ack(r, [st EXCEPT !.nodes = AddNewNode(@, r.n, NewNode(r.ip))])
      [] r.op = "GetIsNodeActive"    -> Answer(st, r, IsNodeActive(st.nodes, r.n))
      [] r.op = "UpdateNode"         -> Ack(r, [st EXCEPT !.nodes = UpdateNode(@, r.n)])
      [] r.op = "GetNode"            -> DoGetNode(st, r)
      [] r.op = "GetNodes"           -> Answer(st, r, DOMAIN st.nodes)

\* The StateManager methods whose reply is discarded: send_ping and the
\* send_* methods end with receiver.recv().unwrap();
Discarded == {"Ping", "UpdateTaskState", "UpdateTaskNodeName", "UpdateTaskInfo",
              "StartTask", "RemoveTask", "AddNode", "UpdateNode"}

\* What a call promises its caller for the reply v: unit where the method
\* discards the reply, the reply itself otherwise.
Delivered(v) == IF DOMAIN v \subseteq Discarded THEN [o \in DOMAIN v |-> "Ack"] ELSE v

\* The `_ =>` arm of each request_* method's match on the reply: the value
\* it returns when the reply is of another variant (None is the absent node).
Default(op) ==
    CASE op = "GetTaskState"                          -> "NotRunning"
      [] op = "GetTaskNameById"                       -> ""
      [] op = "GetTaskIPByName"                       -> NoIp
      [] op \in {"GetRequestedTasks", "GetRunningTasks", "GetNodes"} -> {}
      [] op = "GetIsNodeActive"                       -> FALSE
      [] op = "GetNode"                               -> NodeNotFound

\* What the StateManager method that sent r returns once recv gives it v:
\* unit for a discarded reply, the field of the variant it matches, or
\* its default for any other variant.
Returned(r, v) ==
    CASE r.op \in Discarded   -> Reply(r, "Ack")
      [] DOMAIN v = {r.op}    -> v
      [] OTHER                -> Reply(r, Default(r.op))

=============================================================================
