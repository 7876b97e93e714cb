----------------------------- MODULE TaskTable -----------------------------
(***************************************************************************)
(* The task table of the state actor (src/state/task_list.rs): a map from  *)
(* task name to task record.  Every operation of TaskList is an operator   *)
(* from the table (a function whose domain is the set of names present) to *)
(* the new table or to the value it returns.  The actor thread applies     *)
(* them one request at a time (src/state/state.rs, start_serving).         *)
(*                                                                         *)
(* A record keeps the fields the control plane reads back: the lifecycle   *)
(* state, the node_name placement field, the container id and IP learnt    *)
(* from the inspect data, and argip, the value that $IP_DNS_SL1 in the     *)
(* task's arguments was replaced by when the task was started.  The other  *)
(* descriptor fields never change after StartTask and are kept in the      *)
(* descriptor constants of the composing module.                           *)
(***************************************************************************)
LOCAL INSTANCE Functions
LOCAL INSTANCE SequencesExt
LOCAL INSTANCE TLC

\* The empty string, for the id and IP fields that the code fills with "".
NoId == <<>>
NoIp == <<>>

\* TaskState (state.rs); NotRunning is what GetTaskState answers for a name
\* that is not in the table, never a state stored in a record.
TaskStates == {"Requested", "Accepted", "Running"}

\* TaskList::add_new_task: HashMap::insert, which overwrites an entry of the
\* same name ("restart intent").
AddNewTask(tl, t, rec) == (t :> rec) @@ tl

\* TaskList::remove_task_by_name: HashMap::remove; a missing name is a no-op.
RemoveTaskByName(tl, t) == Restrict(tl, DOMAIN tl \ {t})

\* TaskList::set_task_state: get_mut, then assign; a missing name is a no-op.
SetTaskState(tl, t, s) ==
    IF t \in DOMAIN tl THEN [tl EXCEPT ![t].state = s] ELSE tl

\* TaskList::set_task_node_name.
SetTaskNodeName(tl, t, n) ==
    IF t \in DOMAIN tl THEN [tl EXCEPT ![t].node_name = n] ELSE tl

\* TaskList::set_task_info: a field is overwritten only by a non-empty value.
SetTaskInfo(tl, t, id, ip) ==
    IF t \in DOMAIN tl
    THEN [tl EXCEPT ![t].id = IF id # NoId THEN id ELSE @,
                    ![t].ip = IF ip # NoIp THEN ip ELSE @]
    ELSE tl

\* TaskList::get_task_state: NotRunning for an unknown name.
GetTaskState(tl, t) == IF t \in DOMAIN tl THEN tl[t].state ELSE "NotRunning"

\* TaskList::get_task_name_by_id: the first task, in HashMap iteration
\* order, whose id is non-empty and starts with the prefix; "" if none.  As
\* the order is unspecified, the set of names it may answer.
GetTaskNameById(tl, p) ==
    LET match == {t \in DOMAIN tl : tl[t].id # NoId /\ IsPrefix(p, tl[t].id)}
    IN IF match = {} THEN {""} ELSE match

\* TaskList::get_task_ip_by_name: "" for an unknown name.
GetTaskIpByName(tl, t) == IF t \in DOMAIN tl THEN tl[t].ip ELSE NoIp

\* TaskList::get_tasks_with_state, as the set of names; the Vec the code
\* returns lists them in HashMap iteration order, which the caller chooses.
GetTasksWithState(tl, s) == {t \in DOMAIN tl : tl[t].state = s}

=============================================================================
