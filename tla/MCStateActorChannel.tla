------------------------ MODULE MCStateActorChannel ------------------------
(***************************************************************************)
(* StateActorChannel for two client threads, two task names and one node:  *)
(* every request kind of StateRequestMsg, with arguments that reach every  *)
(* branch of its handler: a prefix lookup that two ids match, a node that  *)
(* is configured and one that is not (get_node panics on it).              *)
(***************************************************************************)
EXTENDS StateActorChannel

CONSTANTS c1, c2, t1, t2, n1, nx

MCClients == {c1, c2}
MCTasks == {t1, t2}

\* The record StateManager::send_start_task builds: Requested, empty id/ip.
NewTaskRec == [state |-> "Requested", node_name |-> "", id |-> NoId, ip |-> NoIp]

\* Container ids: t1's id is a prefix of t2's.
IdOf(t) == IF t = t1 THEN <<"a">> ELSE <<"a", "b">>

MCRequests ==
    {[op |-> "Ping"], [op |-> "GetRequestedTasks"], [op |-> "GetRunningTasks"],
     [op |-> "GetNodes"], [op |-> "GetTaskNameById", id |-> <<"a">>]}
    \cup {[op |-> o, t |-> t1] : o \in {"GetTaskState", "GetTaskIPByName", "RemoveTask"}}
    \cup {[op |-> "StartTask", t |-> t, task |-> NewTaskRec] : t \in MCTasks}
    \cup {[op |-> "UpdateTaskState", t |-> t1, s |-> "Running"]}
    \cup {[op |-> "UpdateTaskNodeName", t |-> t1, n |-> n1]}
    \cup {[op |-> "UpdateTaskInfo", t |-> t, id |-> IdOf(t), ip |-> <<"i", t>>] : t \in MCTasks}
    \cup {[op |-> "AddNode", n |-> n1, ip |-> <<"i", n1>>]}
    \cup {[op |-> o, n |-> n1] : o \in {"GetIsNodeActive", "UpdateNode"}}
    \cup {[op |-> "GetNode", n |-> n] : n \in {n1, nx}}

\* After load_node_list: n1 configured and inactive, no task, actor alive.
MCSt0 == [tasks |-> << >>, nodes |-> AddNewNode(<< >>, n1, NewNode(<<"i", n1>>)), up |-> TRUE]

=============================================================================
