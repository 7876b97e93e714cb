-------------------------------- MODULE Torc --------------------------------
(***************************************************************************)
(* The control plane of the ToRC sub-scheduler: the state actor's task and *)
(* node tables, the Mesos scheduler callbacks (src/scheduler), the health  *)
(* checker thread (src/health) and the mutating admin endpoints (src/api), *)
(* against an environment that models the Mesos master and its agents.    *)
(*                                                                         *)
(* Every request to the state actor is one atomic step, as the actor       *)
(* serves its channel one message at a time.  A handler that makes several *)
(* requests is split into one action per request wherever another thread  *)
(* could act in between and change the outcome: the health checker reads  *)
(* a state and starts the task in two steps, and an offers callback takes *)
(* its snapshot of Requested tasks once and then handles one offer per     *)
(* step.                                                                   *)
(***************************************************************************)
EXTENDS Naturals, Sequences, FiniteSets, SequencesExt, TaskTable, NodeTable

CONSTANTS
    Nodes,          \* the nodes of the configuration (node_list.rs)
    NodeType,       \* [Nodes -> STRING], the machine-type attribute
    NodeFunction,   \* [Nodes -> STRING], the machine-function attribute
    TaskNames,      \* every task name the configuration can produce
    Desc,           \* [TaskNames -> descriptor], see DescType
    SysSeq,         \* the health checker's expanded system services, in order
    GroupSeq,       \* the tasks of the service group the admin API starts
    DepIpTask,      \* the task whose IP replaces $IP_DNS_SL1 ("dns-sl1")
    Cpus, Mems,     \* the scalar values an offer may carry
    NotANode,       \* a container hostname that names no configured node
    MaxOffers,      \* bound: offers in one OFFERS event
    MaxKills,       \* bound: DELETE /service requests that reach Mesos
    MaxFails,       \* bound: containers that die on their own
    MaxGroupStarts, \* bound: GET /start/group requests
    MaxCallFails,   \* bound: cluster calls (reconcile, launch, decline) that fail
    MaxDups,        \* bound: status updates whose acknowledgement is lost
    MaxPostFails,   \* bound: registry POSTs that fail
    StateSync       \* whether the state-sync thread is part of the model: its
                    \* steps write only registry and ysnap, so runs whose
                    \* properties never read them may leave it out

\* A task descriptor: placement filters ("" = any), the dependency ("" =
\* none), resources, the network mode and whether the arguments contain
\* $IP_DNS_SL1.
DescType ==
    [node_name: Nodes \cup {""}, node_type: STRING, node_function: STRING,
     dependent_service: TaskNames \cup {""}, cpu: Nat, memory: Nat,
     network_type: {"host", "bridge", "none", "torc"}, uses_dep_ip: BOOLEAN]

ASSUME /\ Desc \in [TaskNames -> DescType]
       /\ SysSeq \in Seq(TaskNames) /\ Len(SysSeq) > 0
       /\ GroupSeq \in Seq(TaskNames) /\ Len(GroupSeq) > 0
       /\ DepIpTask \in TaskNames
       /\ NotANode \notin Nodes
       /\ MaxOffers \in Nat \ {0}
       /\ StateSync \in BOOLEAN

VARIABLES
    tasks,        \* the task table (TaskList)
    nodes,        \* the node table (NodeList): active flag and ip per node
    actorUp,      \* FALSE once the state-serve thread has panicked
    subscribed,   \* the MESOS client slot of collaborator/mesos/client.rs
    spc,          \* scheduler thread: "idle", inside offers(), or "dead" after a panic
    snap,         \* requested_tasks: snapshot taken at the start of offers()
    batch,        \* the offers of the current OFFERS event not yet handled
    bnode,        \* the node (machine-name) the current offers come from
    toLaunch,     \* tasks_to_start of the current offers() call
    declined,     \* offers_to_decline of the current offers() call is non-empty
    hpc,          \* health checker: "sleep", "check" or "start"
    hi,           \* health checker: index of the task in SysSeq
    apc,          \* admin handler of /start/group: "idle" or "group"
    ai,           \* admin handler: index of the task in GroupSeq
    cont,         \* Mesos: [TaskNames -> container], the live container per task id
    inc,          \* Mesos: [TaskNames -> Nat], containers launched per task id
    statusQ,      \* Mesos: [TaskNames -> Seq(status)], updates not yet delivered
    kills, fails, groupStarts, callFails, dups,  \* environment budgets spent
    registry,     \* the external controller: the task record last pushed per name
    ysnap,        \* state-sync thread: the clones of its last tick not yet pushed
    postFails     \* registry POSTs that failed (environment budget)

sched  == <<spc, snap, batch, bnode, toLaunch, declined>>
health == <<hpc, hi>>
admin  == <<apc, ai>>
mesos  == <<cont, inc, statusQ>>
budget == <<kills, fails, groupStarts, callFails, dups>>
reg    == <<registry, ysnap, postFails>>
vars == <<tasks, nodes, actorUp, subscribed, sched, health, admin, mesos, budget, reg>>

SysTasks   == ToSet(SysSeq)
GroupTasks == ToSet(GroupSeq)
Offers     == [cpus: Cpus, mem: Mems]
Batches    == UNION {[1..k -> Offers] : k \in 1..MaxOffers}
FullOffer  == [cpus |-> Max(Cpus), mem |-> Max(Mems)]

\* IPs: a container on the "torc" network gets its own address, one named
\* after the container; a node's configured ip is named after the node.
NodeIp(n) == <<n>>
ContainerId(t, k) == <<t, k>>

\* A status update as the scheduler receives it: the Mesos state and, for
\* TASK_RUNNING, what handle_inspect_data reads from the inspect JSON.
StatusKinds == {"RUNNING", "KILLED", "FAILED", "ERROR"}
Status(st) == [st |-> st, id |-> NoId, ip |-> NoIp, host |-> NotANode]

NoContainer == [st |-> "none", k |-> 0, node |-> NotANode, argip |-> NoIp]
Live(t) == cont[t].st # "none"

\* The master keeps a task whose terminal update (KILLED, FAILED) is not yet
\* acknowledged, so its task id stays in use until then.
Unacked(t) == \E i \in DOMAIN statusQ[t] : statusQ[t][i].st \in {"KILLED", "FAILED"}

-----------------------------------------------------------------------------
(* The argument substitution of StateManager::resolve_arguments: the value *)
(* $IP_DNS_SL1 becomes, read from the table when the task is started.      *)
ResolveArguments(t) ==
    IF Desc[t].uses_dep_ip THEN GetTaskIpByName(tasks, DepIpTask) ELSE NoIp

(* StateManager::send_start_task: a fresh record in state Requested, with  *)
(* id, ip and slave_id empty, inserted by start_task (add_new_task).       *)
StartTask(t) ==
    AddNewTask(tasks, t, [state |-> "Requested", node_name |-> Desc[t].node_name,
                          id |-> NoId, ip |-> NoIp, argip |-> ResolveArguments(t)])

-----------------------------------------------------------------------------
(* Scheduler callbacks (scheduler_impl.rs).  The driver calls them one at  *)
(* a time on its own thread.                                               *)

\* subscribed: publish the client handle; reconcile([]) asks for the state
\* of tasks of this framework id, which is fresh per process, so none.
Subscribed ==
    /\ spc = "idle" /\ ~subscribed
    /\ subscribed' = TRUE
    /\ UNCHANGED <<reg, tasks, nodes, actorUp, sched, health, admin, mesos, budget>>

\* Line 47: reconcile returns an error after the client slot is set, and
\* unwrap panics the scheduler thread.
SubscribedReconcileFails ==
    /\ spc = "idle" /\ ~subscribed /\ callFails < MaxCallFails
    /\ subscribed' = TRUE /\ spc' = "dead" /\ callFails' = callFails + 1
    /\ UNCHANGED <<reg, tasks, nodes, actorUp, snap, batch, bnode, toLaunch, declined, health, admin, mesos,
                   kills, fails, groupStarts, dups>>

\* offers, line 65: the snapshot of Requested tasks, in the HashMap order
\* of the actor's reply, with the fields the launch reads from the clone.
OffersBegin(n, b) ==
    /\ spc = "idle" /\ subscribed /\ actorUp
    /\ \E order \in SetToSeqs(GetTasksWithState(tasks, "Requested")) :
          snap' = [i \in 1..Len(order) |-> [name |-> order[i],
                                            argip |-> tasks[order[i]].argip]]
    /\ spc' = "offers" /\ batch' = b /\ bnode' = n /\ toLaunch' = <<>> /\ declined' = FALSE
    /\ UNCHANGED <<reg, tasks, nodes, actorUp, subscribed, health, admin, mesos, budget>>

\* Fault variant of Fits: the memory test rejects an offer equal to the
\* task's memory.
FitsMemStrict(t, n, o) ==
    /\ Desc[t].node_name = "" \/ Desc[t].node_name = n
    /\ Desc[t].node_type = "" \/ Desc[t].node_type = NodeType[n]
    /\ Desc[t].node_function = "" \/ Desc[t].node_function = NodeFunction[n]
    /\ Desc[t].dependent_service # "" =>
          GetTaskState(tasks, Desc[t].dependent_service) = "Running"
    /\ ~(o.cpus < Desc[t].cpu \/ o.mem <= Desc[t].memory)

\* Fault variant of Fits: an offer must exceed a task's resources instead
\* of reaching them (off by one at the boundary).
FitsStrict(t, n, o) ==
    /\ Desc[t].node_name = "" \/ Desc[t].node_name = n
    /\ Desc[t].node_type = "" \/ Desc[t].node_type = NodeType[n]
    /\ Desc[t].node_function = "" \/ Desc[t].node_function = NodeFunction[n]
    /\ Desc[t].dependent_service # "" =>
          GetTaskState(tasks, Desc[t].dependent_service) = "Running"
    /\ ~(o.cpus <= Desc[t].cpu \/ o.mem < Desc[t].memory)

\* The placement, dependency and resource tests of lines 115-136 for task t
\* and an offer o from node n; the dependency is read from the table now.
Fits(t, n, o) ==
    /\ Desc[t].node_name = "" \/ Desc[t].node_name = n
    /\ Desc[t].node_type = "" \/ Desc[t].node_type = NodeType[n]
    /\ Desc[t].node_function = "" \/ Desc[t].node_function = NodeFunction[n]
    /\ Desc[t].dependent_service # "" =>
          GetTaskState(tasks, Desc[t].dependent_service) = "Running"
    /\ ~(o.cpus < Desc[t].cpu \/ o.mem < Desc[t].memory)

\* Fault variant of OfferStep: the UpdateTaskState(Accepted) request is
\* dropped, so the launched task stays Requested in the table.
OfferStepNoAccept ==
    /\ spc = "offers" /\ batch # <<>> /\ actorUp
    /\ LET i == SelectInSeq(snap, LAMBDA r : Fits(r.name, bnode, Head(batch)))
       IN /\ nodes' = IF ~IsNodeActive(nodes, bnode) THEN UpdateNode(nodes, bnode) ELSE nodes
          /\ IF i = 0 THEN declined' = TRUE /\ UNCHANGED toLaunch
                      ELSE toLaunch' = Append(toLaunch, snap[i]) /\ UNCHANGED declined
          /\ UNCHANGED tasks
    /\ batch' = Tail(batch)
    /\ UNCHANGED <<reg, actorUp, subscribed, spc, snap, bnode, health, admin, mesos, budget>>

\* One iteration of the loop over offers, lines 79-246: activate the node
\* (lines 106-111), then accept the first task of the snapshot that fits:
\* mark it Accepted, pin it to the node if a type or function constraint
\* chose the node, and add it to tasks_to_start; otherwise decline.
OfferStep ==
    /\ spc = "offers" /\ batch # <<>> /\ actorUp
    /\ LET o == Head(batch)
           n == bnode
           i == SelectInSeq(snap, LAMBDA r : Fits(r.name, n, o))
           t == snap[i].name
           pinned == Desc[t].node_type # "" \/ Desc[t].node_function # ""
       IN /\ nodes' = IF ~IsNodeActive(nodes, n) THEN UpdateNode(nodes, n) ELSE nodes
          /\ IF i = 0
             THEN declined' = TRUE /\ UNCHANGED <<tasks, toLaunch>>
             ELSE /\ tasks' = LET acc == SetTaskState(tasks, t, "Accepted")
                              IN IF pinned THEN SetTaskNodeName(acc, t, n) ELSE acc
                  /\ toLaunch' = Append(toLaunch, snap[i]) /\ UNCHANGED declined
    /\ batch' = Tail(batch)
    /\ UNCHANGED <<reg, actorUp, subscribed, spc, snap, bnode, health, admin, mesos, budget>>

\* Mesos handling one TaskInfo of a LAUNCH: a task id that is already in
\* use (a live container, or a terminal update not yet acknowledged) is
\* refused with TASK_ERROR, otherwise a container is staged.
LaunchOne(m, r) ==
    LET t == r.name IN
    IF m.cont[t].st # "none" \/ Unacked(t)
    THEN [m EXCEPT !.q[t] = Append(@, Status("ERROR"))]
    ELSE [m EXCEPT !.cont[t] = [st |-> "staging", k |-> m.inc[t] + 1,
                                node |-> bnode, argip |-> r.argip],
                   !.inc[t] = @ + 1]

\* offers, lines 248-254: one launch of tasks_to_start, one decline of the
\* rest (a decline changes no state).
OffersLaunch ==
    /\ spc = "offers" /\ batch = <<>>
    /\ LET m == FoldLeft(LaunchOne, [cont |-> cont, inc |-> inc, q |-> statusQ], toLaunch)
       IN cont' = m.cont /\ inc' = m.inc /\ statusQ' = m.q
    /\ spc' = "idle" /\ snap' = <<>> /\ toLaunch' = <<>> /\ declined' = FALSE /\ bnode' = NotANode
    /\ UNCHANGED <<reg, tasks, nodes, actorUp, subscribed, batch, health, admin, budget>>

\* Lines 249 and 253: launch or decline returns an error and unwrap panics
\* the scheduler thread (main.rs runs it apart from the others).  Either
\* the launch of a non-empty tasks_to_start fails, or it succeeds and the
\* decline of a non-empty offers_to_decline fails.  The tasks stay
\* Accepted, and no later OFFERS or status update is handled.
OffersLaunchFails ==
    /\ spc = "offers" /\ batch = <<>> /\ callFails < MaxCallFails
    /\ \/ toLaunch # <<>> /\ UNCHANGED mesos
       \/ declined
          /\ LET m == FoldLeft(LaunchOne, [cont |-> cont, inc |-> inc, q |-> statusQ], toLaunch)
             IN cont' = m.cont /\ inc' = m.inc /\ statusQ' = m.q
    /\ spc' = "dead" /\ callFails' = callFails + 1
    /\ UNCHANGED <<reg, tasks, nodes, actorUp, subscribed, snap, batch, bnode, toLaunch, declined,
                   health, admin, kills, fails, groupStarts, dups>>

(* register_running_task (collaborator, not in the sources): an HTTP POST  *)
(* of the task record to the controller, which keeps the last record per  *)
(* task name; a failed POST is logged and swallowed (spec 7).              *)
Entry(rec) == [id |-> rec.id, ip |-> rec.ip]
Register(rg, t, rec) == [rg EXCEPT ![t] = Entry(rec)]
NoEntry == [id |-> NoId, ip |-> NoIp]

RegisterRunningTask(t, rec) ==
    \/ registry' = Register(registry, t, rec) /\ UNCHANGED postFails
    \/ postFails < MaxPostFails /\ postFails' = postFails + 1 /\ UNCHANGED registry

\* update_task_state, state.rs lines 631-652, for the new state Running:
\* the record read back with get_task is pushed synchronously, inside the
\* actor's step; a task no longer in the table is only logged.
UpdateTaskStateRunning(tt, t) ==
    IF t \in DOMAIN tt THEN RegisterRunningTask(t, tt[t]) ELSE UNCHANGED <<registry, postFails>>

\* update, lines 261-287, with utils/docker.rs handle_inspect_data for
\* TASK_RUNNING: an empty torc IP falls back to the node table entry named
\* by the container's hostname; get_node unwraps, so a hostname that is not
\* a node panics the actor.  TASK_KILLED removes the task; every other
\* state (FINISHED, FAILED, ERROR, LOST) is ignored.
HandleRunning(t, m) ==
    IF m.ip = NoIp /\ ~GetNode(nodes, m.host).found
    THEN actorUp' = FALSE /\ UNCHANGED <<tasks, registry, postFails>>
    ELSE LET ip == IF m.ip # NoIp THEN m.ip ELSE GetNode(nodes, m.host).ip
             tt == SetTaskState(SetTaskInfo(tasks, t, m.id, ip), t, "Running")
         IN /\ tasks' = tt
            /\ UpdateTaskStateRunning(tt, t)
            /\ UNCHANGED actorUp

HandleUpdate(t) ==
    /\ spc = "idle" /\ statusQ[t] # <<>> /\ actorUp
    /\ LET m == Head(statusQ[t]) IN
          CASE m.st = "RUNNING" -> HandleRunning(t, m)
            [] m.st = "KILLED"  -> tasks' = RemoveTaskByName(tasks, t) /\ UNCHANGED <<actorUp, registry, postFails>>
            [] OTHER            -> UNCHANGED <<tasks, actorUp, registry, postFails>>

\* The driver acknowledges the update after the callback returns
\* (implicit_acknowledgements, run_scheduler.rs); the next update of the
\* task follows.
Update(t) ==
    /\ HandleUpdate(t)
    /\ statusQ' = [statusQ EXCEPT ![t] = Tail(@)]
    /\ UNCHANGED <<nodes, subscribed, sched, health, admin, cont, inc, budget, ysnap>>

\* The acknowledgement is lost: the agent resends the same update, which
\* the callback handles again (at-least-once delivery).
UpdateAckLost(t) ==
    /\ dups < MaxDups
    /\ HandleUpdate(t)
    /\ dups' = dups + 1
    /\ UNCHANGED <<nodes, subscribed, sched, health, admin, mesos, kills, fails, groupStarts, callFails, ysnap>>

-----------------------------------------------------------------------------
(* Health checker (run_health_checker.rs, lines 68-96): after each sleep,  *)
(* for every expanded system service, read its state and, if NotRunning,  *)
(* start it again.                                                         *)

\* Fault variant of HealthNext: the index is not reset after the last task.
HealthNextNoWrap ==
    /\ hpc' = IF hi = Len(SysSeq) THEN "sleep" ELSE "check"
    /\ hi' = hi + 1

HealthNext ==
    IF hi = Len(SysSeq) THEN hpc' = "sleep" /\ hi' = 1
                        ELSE hpc' = "check" /\ hi' = hi + 1

HealthWake ==
    /\ hpc = "sleep" /\ hpc' = "check" /\ hi' = 1
    /\ UNCHANGED <<reg, tasks, nodes, actorUp, subscribed, sched, admin, mesos, budget>>

HealthCheck ==
    /\ hpc = "check" /\ actorUp
    /\ IF GetTaskState(tasks, SysSeq[hi]) = "NotRunning"
       THEN hpc' = "start" /\ UNCHANGED hi
       ELSE HealthNext
    /\ UNCHANGED <<reg, tasks, nodes, actorUp, subscribed, sched, admin, mesos, budget>>

HealthStart ==
    /\ hpc = "start" /\ actorUp
    /\ tasks' = StartTask(SysSeq[hi])
    /\ HealthNext
    /\ UNCHANGED <<reg, nodes, actorUp, subscribed, sched, admin, mesos, budget>>

-----------------------------------------------------------------------------
(* Admin API (run_api.rs).                                                 *)

\* handle_start_service_group, lines 162-213: start every task of the group.
StartGroupBegin ==
    /\ apc = "idle" /\ groupStarts < MaxGroupStarts
    /\ apc' = "group" /\ ai' = 1 /\ groupStarts' = groupStarts + 1
    /\ UNCHANGED <<reg, tasks, nodes, actorUp, subscribed, sched, health, mesos, kills, fails, callFails, dups>>

StartGroupStep ==
    /\ apc = "group" /\ actorUp
    /\ tasks' = StartTask(GroupSeq[ai])
    /\ IF ai = Len(GroupSeq) THEN apc' = "idle" /\ ai' = 1
                             ELSE ai' = ai + 1 /\ UNCHANGED apc
    /\ UNCHANGED <<reg, nodes, actorUp, subscribed, sched, health, mesos, budget>>

\* client::kill_task: a KILL of task id t if the client slot is set (before
\* subscription it only logs).  Mesos kills the container and reports
\* KILLED; a kill of a task id with no container is answered with a status
\* the update callback ignores, so it is left out.
KillTask(t) ==
    /\ subscribed /\ Live(t)
    /\ cont' = [cont EXCEPT ![t] = NoContainer]
    /\ statusQ' = [statusQ EXCEPT ![t] = Append(@, Status("KILLED"))]

\* handle_service_delete, lines 143-160: kill_task of the named task.
ServiceDelete(t) ==
    /\ kills < MaxKills
    /\ KillTask(t)
    /\ kills' = kills + 1
    /\ UNCHANGED <<reg, tasks, nodes, actorUp, subscribed, sched, health, admin, inc, fails, groupStarts, callFails, dups>>

-----------------------------------------------------------------------------
(* Environment: an agent runs a staged container and reports TASK_RUNNING  *)
(* with its inspect data, or a container dies on its own (TASK_FAILED).    *)

ContainerRunning(t) ==
    /\ cont[t].st = "staging"
    /\ LET c == cont[t]
           net == Desc[t].network_type
       IN statusQ' = [statusQ EXCEPT ![t] = Append(@,
              [st |-> "RUNNING", id |-> ContainerId(t, c.k),
               ip |-> IF net = "torc" THEN ContainerId(t, c.k) ELSE NoIp,
               host |-> IF net = "host" THEN c.node ELSE NotANode])]
    /\ cont' = [cont EXCEPT ![t].st = "running"]
    /\ UNCHANGED <<reg, tasks, nodes, actorUp, subscribed, sched, health, admin, inc, budget>>

ContainerFail(t) ==
    /\ Live(t) /\ fails < MaxFails
    /\ cont' = [cont EXCEPT ![t] = NoContainer]
    /\ statusQ' = [statusQ EXCEPT ![t] = Append(@, Status("FAILED"))]
    /\ fails' = fails + 1
    /\ UNCHANGED <<reg, tasks, nodes, actorUp, subscribed, sched, health, admin, inc, kills, groupStarts, callFails, dups>>

-----------------------------------------------------------------------------
(* State-sync thread (StateManager::start_syncing, state.rs lines 574-592): *)
(* after each sleep, request the Running tasks, then push each clone to    *)
(* the controller with register_running_task, one POST per step.           *)

\* Fault variant of SyncTick: the tick lists the Requested tasks.
SyncTickRequested ==
    /\ StateSync /\ ysnap = {} /\ actorUp
    /\ ysnap' = {[name |-> t] @@ Entry(tasks[t]) : t \in GetTasksWithState(tasks, "Requested")}
    /\ UNCHANGED <<registry, postFails, tasks, nodes, actorUp, subscribed, sched, health, admin, mesos, budget>>

\* request_list_running_tasks: the snapshot, with the id and ip of each
\* clone.  The loop pushes them in the HashMap order of the reply; as any
\* order is possible, SyncPush picks the next one.
SyncTick ==
    /\ StateSync /\ ysnap = {} /\ actorUp
    /\ ysnap' = {[name |-> t] @@ Entry(tasks[t]) : t \in GetTasksWithState(tasks, "Running")}
    /\ UNCHANGED <<registry, postFails, tasks, nodes, actorUp, subscribed, sched, health, admin, mesos, budget>>

\* One register_running_task of the loop: the clone, as the tick read it.
SyncPush ==
    /\ \E r \in ysnap : RegisterRunningTask(r.name, r) /\ ysnap' = ysnap \ {r}
    /\ UNCHANGED <<tasks, nodes, actorUp, subscribed, sched, health, admin, mesos, budget>>

-----------------------------------------------------------------------------
\* StateManager::load_node_list: add_new_node for every configured node.
LoadNodeList == FoldSet(LAMBDA n, nl : AddNewNode(nl, n, NewNode(NodeIp(n))), << >>, Nodes)

(* The configuration's nodes are loaded before any thread starts           *)
(* (StateManager::new, load_node_list), inactive; the task table is empty. *)
Init ==
    /\ tasks = << >> /\ nodes = LoadNodeList
    /\ actorUp = TRUE /\ subscribed = FALSE
    /\ spc = "idle" /\ snap = <<>> /\ batch = <<>> /\ bnode = NotANode /\ toLaunch = <<>>
    /\ declined = FALSE
    /\ hpc = "sleep" /\ hi = 1
    /\ apc = "idle" /\ ai = 1
    /\ cont = [t \in TaskNames |-> NoContainer]
    /\ inc = [t \in TaskNames |-> 0]
    /\ statusQ = [t \in TaskNames |-> <<>>]
    /\ kills = 0 /\ fails = 0 /\ groupStarts = 0 /\ callFails = 0 /\ dups = 0
    /\ registry = [t \in TaskNames |-> NoEntry] /\ ysnap = {} /\ postFails = 0

Next ==
    \/ Subscribed \/ SubscribedReconcileFails
    \/ \E n \in Nodes, b \in Batches : OffersBegin(n, b)
    \/ OfferStep
    \/ OffersLaunch \/ OffersLaunchFails
    \/ \E t \in TaskNames : Update(t) \/ UpdateAckLost(t)
    \/ HealthWake \/ HealthCheck \/ HealthStart
    \/ StartGroupBegin \/ StartGroupStep
    \/ \E t \in TaskNames : ServiceDelete(t)
    \/ \E t \in TaskNames : ContainerRunning(t) \/ ContainerFail(t)
    \/ SyncTick \/ SyncPush

(* The threads and Mesos make progress; the master keeps re-offering each  *)
(* node's resources (declined offers return after the refusal timeout);   *)
(* admin requests and container failures need not happen.                  *)
Fairness ==
    /\ WF_vars(Subscribed) /\ WF_vars(OfferStep) /\ WF_vars(OffersLaunch)
    /\ \A n \in Nodes : SF_vars(OffersBegin(n, <<FullOffer>>))
    /\ \A t \in TaskNames : SF_vars(Update(t)) /\ WF_vars(ContainerRunning(t))
    /\ WF_vars(HealthWake) /\ WF_vars(HealthCheck) /\ WF_vars(HealthStart)
    /\ WF_vars(StartGroupStep)
    /\ WF_vars(SyncTick) /\ WF_vars(SyncPush)

Spec == Init /\ [][Next]_vars /\ Fairness

-----------------------------------------------------------------------------
(* Properties.                                                             *)

\* A task id gets a new container only after its last one is gone, so no
\* task id is launched more often than this.
MaxInc == 1 + MaxKills + MaxFails
Ips == {NoIp} \cup {NodeIp(n) : n \in Nodes} \cup {ContainerId(t, k) : t \in TaskNames, k \in 1..MaxInc}
Containers == [st: {"none", "staging", "running"}, k: 0..MaxInc, node: Nodes \cup {NotANode}, argip: Ips]
StatusType == [st: StatusKinds, id: Ips, ip: Ips, host: Nodes \cup {NotANode}]
\* The node record (node_list.rs Node) as far as it changes: the configured
\* ip and the active flag; found marks an entry of the table.
NodeRecord == [active: BOOLEAN, ip: Ips, found: {TRUE}]
\* The task record (task_list.rs Task) as far as it changes after StartTask.
TaskRecord == [state: TaskStates, node_name: Nodes \cup {""}, id: Ips, ip: Ips, argip: Ips]
Launchable == [name: TaskNames, argip: Ips]

\* Every variable holds a value of its type; the indices stay inside the
\* sequences the threads walk.
TypeOK ==
    /\ DOMAIN tasks \subseteq TaskNames /\ \A t \in DOMAIN tasks : tasks[t] \in TaskRecord
    /\ nodes \in [Nodes -> NodeRecord] /\ actorUp \in BOOLEAN /\ subscribed \in BOOLEAN
    /\ spc \in {"idle", "offers", "dead"} /\ snap \in Seq(Launchable) /\ toLaunch \in Seq(Launchable)
    /\ declined \in BOOLEAN
    /\ batch \in Seq(Offers) /\ bnode \in Nodes \cup {NotANode}
    /\ hpc \in {"sleep", "check", "start"} /\ hi \in 1..Len(SysSeq)
    /\ apc \in {"idle", "group"} /\ ai \in 1..Len(GroupSeq)
    /\ cont \in [TaskNames -> Containers] /\ inc \in [TaskNames -> 0..MaxInc]
    /\ statusQ \in [TaskNames -> Seq(StatusType)]
    /\ kills \in 0..MaxKills /\ fails \in 0..MaxFails /\ groupStarts \in 0..MaxGroupStarts
    /\ callFails \in 0..MaxCallFails /\ dups \in 0..MaxDups
    /\ registry \in [TaskNames -> [id: Ips, ip: Ips]] /\ postFails \in 0..MaxPostFails
    /\ ysnap \subseteq [name: TaskNames, id: Ips, ip: Ips]

\* Every container Mesos runs under a task id of this framework is known to
\* the task table as Accepted or Running, and an id the table holds for it
\* is that container's id: neither a restart by the health checker, nor an
\* admin kill, nor a status update applied late or delivered twice, leaves
\* a live container that the table forgot, re-requested or labels with
\* another container.  (A second /start/group on a running group task does
\* re-request it, run_api.rs line 186; group_restart_stuck shows that.)
LiveContainersTracked ==
    \A t \in TaskNames : Live(t) =>
        /\ GetTaskState(tasks, t) \in {"Accepted", "Running"}
        /\ tasks[t].id \in {NoId, ContainerId(t, cont[t].k)}

\* The LAUNCH that ends an offers() call never carries a task id that has
\* a live container, nor the same task id twice: the scheduler launches a
\* task only when its previous container is gone.
LaunchingOnlyDeadTasks ==
    [][OffersLaunch =>
         /\ \A i \in DOMAIN toLaunch : ~Live(toLaunch[i].name)
         /\ \A i, j \in DOMAIN toLaunch : i # j => toLaunch[i].name # toLaunch[j].name
      ]_vars

\* A task whose arguments contain $IP_DNS_SL1 is launched with the IP that
\* the table holds for dns-sl1 at launch time (spec, scenario 3: after
\* dns-sl1 reaches Running, dns-sl2 is launched with dns-sl1's stored IP).
LaunchedWithDepIp ==
    [][OffersLaunch =>
         \A i \in DOMAIN toLaunch :
            Desc[toLaunch[i].name].uses_dep_ip =>
                toLaunch[i].argip = GetTaskIpByName(tasks, DepIpTask)
      ]_vars

\* The state actor never dies: every request gets its reply (spec 4.1, "the
\* actor never crashes on malformed requests; a GetNode for a missing node
\* surfaces a not-found reply").
ActorNeverPanics == actorUp

\* Every system service of the health checker ends up Running and stays
\* so: after kills and container deaths the health loop, the offers and
\* the status updates bring every service back (spec 1: the framework
\* "restarts them when they die").
SysServicesConverge ==
    <>[](\A t \in SysTasks : GetTaskState(tasks, t) = "Running" /\ Live(t))

\* A task the admin API started (StartTask of /start/group, a restart
\* intent when the task exists, spec.md 3 and 7) does not stay Requested
\* or Accepted: the offers, the LAUNCH and the status updates make it
\* Running, unless an admin kill removes it first.
GroupStartsTakeEffect ==
    \A t \in GroupTasks :
        GetTaskState(tasks, t) = "Requested" ~> GetTaskState(tasks, t) \in {"Running", "NotRunning"}

\* Whatever a sync tick pushed late, the controller ends up holding the
\* current record of every system service and keeps it: the next tick's
\* snapshot repairs a stale push.
RegistryConverges ==
    <>[](\A t \in SysTasks : t \in DOMAIN tasks /\ registry[t] = Entry(tasks[t]))

=============================================================================
