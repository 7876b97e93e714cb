# TLA+ models of the ToRC sub-scheduler

These modules model the control plane of `torc_sub_scheduler`, a Mesos framework that
starts and supervises DNS containers. Every definition is translated from the Rust
sources under `src/src/`. `PROJECT.json` maps each definition to the lines it models.

## 1. Inventory

### Components, their state and their operations

| Component | Source | State | Operations |
|---|---|---|---|
| Config reader | `utils/config.rs`, `StateManager::read_config_file`, `load_node_list` | none after startup | `read_task`, `read_*`, instance expansion in the API |
| Task table | `state/task_list.rs` | `HashMap<name, Task>`: state, node_name, id, ip, slave_id, resolved arguments, … | add (overwrite), remove, set state / node name / info, get state / ip / name-by-id-prefix, list by state |
| Node table | `state/node_list.rs` | `HashMap<name, Node>`: ip, type, function, `active`, slave_id | add, is_active, update (sets active), get (not-found is an `Err`), list |
| State actor | `state/state.rs` | the two tables, owned by the `state-serve` thread | one request per message on an mpsc channel, one reply per request on a per-call channel. `resolve_arguments` runs in the caller and makes its own request first |
| Scheduler callbacks | `scheduler/scheduler_impl.rs` | none of its own; a local snapshot during `offers` | `subscribed` (publishes the client, empty reconcile), `offers` (snapshot of Requested tasks, per-offer node activation and first-fit match, one launch, one decline), `update` (RUNNING: inspect data, then info and state; KILLED: remove; everything else ignored). `inverse_offers`, `rescind`, `message`, `failure`, `error`, `heartbeat` and `disconnected` change no state |
| Health checker | `health/run_health_checker.rs` | the list of system services, expanded once by SLA | loop: sleep, then for each service read its state and `StartTask` it again if it is NotRunning |
| Admin HTTP API | `api/run_api.rs` | none | `/start/group` starts every task of a group. `DELETE /service` sends a Mesos KILL. The GET handlers are read-only |
| Mesos client slot | `collaborator/mesos/client.rs` | `Option<SchedulerClient>` behind a mutex | `set_mesos_client`; `kill_task`, which does nothing before subscription |
| Inspect handling | `utils/docker.rs` | none | parse the inspect JSON. If there is no torc IP, look up the node named by the container's hostname (`get_node` unwraps) |
| Registry sync | `start_syncing`, `register_running_task` (not in the sources) | external | a push on every `UpdateTaskState(Running)`, and a periodic push of all Running tasks |

### How the components interact

The actor is the only owner of the tables. All other threads call it through
`StateManager`: the Mesos driver callbacks, the API handlers (a thread pool), the health
checker and the state-sync thread. Each call is a blocking request and reply. A handler
that makes several calls can therefore be interleaved with other threads between any two
of them. The scheduler reacts to Mesos events one at a time. Mesos drives the task
lifecycle: Requested → Accepted (offer matched, LAUNCH sent) → Running (status
TASK_RUNNING) → removed (TASK_KILLED). The health checker and the admin API are the only
sources of Requested records.

### What is hard

- **Interleaving.** The health checker reads a task's state and starts the task in two
  separate requests. The scheduler takes one snapshot of Requested tasks per OFFERS event
  and acts on it across several requests.
- **Stale state.** The offers snapshot goes stale. `$IP_DNS_SL1` is resolved when a task is
  started, not when it is launched.
- **Ordering.** Status updates are applied by task name, whichever container they came from.
- **Failure.** Only TASK_KILLED removes a task; TASK_FAILED/LOST/ERROR are ignored. A
  `get_node` miss panics the actor thread, and every caller dies on its next send or
  recv. A failed `launch`, and a parameter string with an odd token count, panic the
  scheduler thread after tasks have been marked Accepted. Mesos delivers status updates
  at least once. A `request_*` method that gets a reply of another variant does not
  fail: it returns a default such as `NotRunning`.
- **Liveness.** The system only works if every system service eventually comes back.
- **Registry.** The state-sync thread pushes clones it read before its POSTs. A service
  restarted in between has had its new record pushed by `update_task_state`, and the
  late POST puts the dead container's record back. A failed POST is swallowed.

### Properties that make each component correct

- **Task table and state actor:** a live container is always known to the table, and
  under the right id. The actor never dies. The channel protocol behaves as atomic
  requests, and each reply reaches its caller, whose method returns it rather than its
  default (`StateActorRefined`).
- **Scheduler:** a LAUNCH never targets a task id that is live, or the same id twice
  (`LaunchingOnlyDeadTasks`, which `double_launch` shows the code breaks). A
  task is launched with the current value of its substituted arguments. A boundary-sized
  offer matches. A task's `--k=v` parameters reach Docker as its pairs
  (`DockerParamsMatchReference`).
- **Health checker:** every system service ends up Running, after kills and after
  container failures.
- **Admin API:** a requested group task is eventually Running or removed (`GroupStartsTakeEffect`).
- **Registry sync:** the controller ends up holding the current record of every system
  service, whatever a late sync POST or a failed POST did (`RegistryConverges`).
- **Config reader:** a well-typed service entry is read without a panic, into its keys
  over the specified defaults (`ReadTaskMatchesReference`).

## 2. Plan

1. **`TaskTable`** and **`NodeTable`** (done): the operations of `TaskList` and
   `NodeList` as operators on a function.
2. **`Torc`** (done): the composed control plane. It contains the task and node tables,
   the scheduler callbacks, the health loop, the admin start-group and delete handlers,
   and an environment for the Mesos master and agents (staging, running, kill, failure,
   per-task FIFO status updates, refusal of duplicate task ids). `MCTorc` instantiates it.
3. **`StateActorChannel`** (done): the actor at message level, with an inbox sequence,
   per-call reply channels and client threads. It is shown by `INSTANCE ... WITH` to
   refine the abstract `StateActor`, whose requests are atomic, as `Torc` assumes.
4. **Duplicate delivery and failed cluster calls** in `Torc` (done): at-least-once
   status updates (a lost acknowledgement), and a reconcile, LAUNCH or DECLINE call that
   fails and panics the scheduler thread.
5. **Repeated group starts** (done): `group_restart_stuck`. Still open: a service group
   that overlaps the system services, for the health/admin check-then-start race.
6. **Pure algorithms**, as operators checked against reference definitions over bounded
   inputs:
   - `ServiceExpansion` (done): the SLA expansion and the group instance names;
   - `DockerParams` (done): the `--net=` rewrite, the split on `- = space` and the
     pairing of tokens, which panics on an odd or empty token list;
   - `GetTaskNameById` (done, as a request of `StateActorChannel`): the prefix lookup;
   - `Config` (done): `read_task` and its defaults, composed into both expansions.
7. **Registry sync in `Torc`** (done): the synchronous push of `update_task_state` and
   the state-sync thread, from the code. `register_running_task` is not in the sources,
   so the POST is modelled from spec 4.4 and 7.

## 3. What is modelled now

### `TaskTable.tla`

The task table is a function whose domain is the set of names present. `AddNewTask`
overwrites, which is the "restart intent" of the spec. The setters leave the table
unchanged for a missing name, as the code's `None => {}` does. `GetTaskState` answers
NotRunning for a missing name. Empty strings are `NoId`/`NoIp`.

### `NodeTable.tla`

The node table is a function from node name to a record with the `active` flag and the
configured IP. `UpdateNode` sets `active` on a known node and ignores an unknown one.
`GetNode` answers a record with `found = FALSE` for an unknown name. The code answers
`Err` there, which `StateManager::get_node` unwraps, so `Torc` kills the actor on it.

### `ServiceExpansion.tla`

The two places that derive task names from the configuration, as pure operators:

- `HealthExpand` is the health checker's SLA expansion (`run_health_checker.rs` 37-66).
- `InstanceNames` and `GroupNames` are the instance naming of `/start/group`
  (`run_api.rs` 177-185). `Decimal` prints a count as `format!` does. No property reads
  them: distinct counts print distinct decimals, so the instances of one service never
  share a name.

Names are sequences of characters, so a concatenated name can equal a declared one.
`MCServiceExpansion` builds every configuration of a small universe one YAML entry at a
time: up to two system services with distinct names, two nodes and one group service.
The entries are YAML mappings, and both expansions read them with `read_task` (`Config`),
as the code does. It checks the operators against a reference written from the SLA
rules of spec.md.

### `Config.tla`

`Config` translates `utils/config.rs`. A YAML mapping is a function from the keys it has
to values `[kind, v]`, where `kind` names the `yaml_rust::Yaml` variant. An absent key is
`BadValue` (`IsBadValue`).

- `ReadString`, `ReadBool`, `ReadFloat`, `ReadInt`, `ReadVolumes` and `ReadSla` are the
  `read_*` helpers: the default for an absent key, the unwrapped value otherwise.
- `ReadTask` is `read_task`. `ReadTaskReturns` says when it returns at all. `name`,
  `image_name` and `network_type` are unwrapped as strings, so a missing one panics. Any
  other key that is present must be of the variant its reader unwraps.
- `DEFAULT_MEMORY` and `DEFAULT_CPU` live in `utils/mod.rs`, which is not among the
  sources. They are opaque tokens.

yaml-rust's `as_f64` unwraps only a `Real`. So `memory: 64`, written as an integer,
panics the reading thread. spec.md types `memory` and `cpu` as floats, and the checked
universe writes them as floats.

### `DockerParams.tla`

This module covers the part of `offers` that turns `network_type` and `parameters` into
Docker parameters (`scheduler_impl.rs` 171-206). Strings are sequences of characters.

- `NetParameters` appends ` --net=<type>` for a custom network.
- `Tokens` is the split on `-`, `=` and space, with empty tokens dropped.
- `PairFrom` is the pairing loop. It reads `elmts[count]` and `elmts[count + 1]`,
  either of which can be past the end, and that panic is `Panic`.

`MCServiceExpansion` gives each group service a `parameters` string of up to three
`--k=v` entries and a `network_type`, known or custom. It compares the result with the
pairs spec.md asks for. The keys checked have no separator, which is the precondition
spec.md states (line 298). A key such as `cap-add` gives an odd token count, and
`elmts[count]` panics the scheduler thread (hazard at `scheduler_impl.rs:192`).

### `StateRequests.tla`, `StateActor.tla`, `StateActorChannel.tla`

`StateRequests` is the actor's request vocabulary. A request is a record whose `op`
names the `StateRequestMsg` variant. `Outcomes(st, r)` is the set of pairs
<<new state, reply>> the handler of `start_serving`'s match can produce. It has several
members only for `GetTaskNameById`, whose answer depends on HashMap order. `get_node` of
a node that is not configured panics: the new state has `up = FALSE` and no reply. A
reply is a one-field record named after the variant, standing for `StateResponseMsg`.
`Returned(r, v)` is the client side: what the `StateManager` method that sent `r`
returns when `recv` gives it `v`. The `send_*` methods and `send_ping` discard the reply
(`Discarded`). Each `request_*` method returns the field of the variant it matches and
its `_ =>` default for any other variant (`Default`: `NotRunning`, `""`, an empty list,
`false`, `None`).

`StateActor` is the abstract actor: a request of a client takes effect and fixes what
its call returns in one step (`Call`). That value is the reply itself, or unit where
the method discards it (`Delivered`). The client later reads it (`Return`), and after
the actor has died a client that calls, or waits without a reply, dies (`Fail`).

`StateActorChannel` is the code's protocol:

- `ClientSend` is a `StateManager` method up to `self.sender.send(msg).unwrap()`. It
  panics the client once the actor is gone.
- `Serve` is one turn of `start_serving`'s loop. It takes the head of the inbox and
  answers on the sender's reply channel. After a panic the queued messages are never read.
- `ClientRecv` and `ClientRecvFails` are `receiver.recv().unwrap()`. The second returns
  `Err` once the reply sender has been dropped unanswered. `creq` keeps the pending
  call's request, which the method's match depends on.

The refinement mapping: a client whose message is still queued is idle at the abstract
level, and a client whose message was served is busy. Its abstract value is what its
method returns (`Returned`) for the head of its reply channel. So a reply of another
variant reaching a call, which the code would silently turn into the default, violates
the refinement. The request takes effect, abstractly, when `Serve` handles it.
`MCStateActorChannel` has two clients, two tasks, a configured node and an unconfigured
one, and a request of every variant. Ids `a` and `ab` make the prefix lookup ambiguous.

### `Torc.tla`

Each variable corresponds to code or to a piece of the environment:

| Variable | Corresponds to |
|---|---|
| `tasks` | the task table |
| `nodes` | the node table (`NodeTable`), loaded by `LoadNodeList` |
| `actorUp` | whether the state-serve thread is alive |
| `subscribed` | the `MESOS` client slot |
| `spc`, `snap`, `batch`, `bnode`, `toLaunch`, `declined` | an `offers` call in progress: its snapshot, the offers not yet handled, the node, `tasks_to_start`, and whether `offers_to_decline` is non-empty |
| `hpc`, `hi` | the health checker's position in its loop |
| `apc`, `ai` | the position of the start-group handler |
| `cont`, `inc`, `statusQ` | Mesos: the live container per task id, the number of launches, and the status updates not yet delivered to the scheduler (one FIFO per task id, as Mesos orders updates per task) |
| `kills`, `fails`, `groupStarts`, `callFails`, `dups` | environment budgets: admin kills, container failures, group starts, failed cluster calls, lost acknowledgements |
| `registry` | the external controller: the record (id, ip) last pushed for each task name |
| `ysnap` | the state-sync thread: the clones of its last tick not yet pushed |
| `postFails` | environment budget: registry POSTs that failed |

Each request to the actor is one step. Handlers are split at the requests where another
thread can change the outcome:

- **`OffersBegin`** takes the snapshot of Requested tasks, in any order (it is HashMap
  order in the code).
- **`OfferStep`** handles one offer of the loop at line 79. It activates the node, then takes the
  first task in the snapshot that `Fits`: placement, dependency read live from the table,
  cpus and mem. The step marks that task Accepted and pins it to the node when a type or
  function constraint applied, and appends it to `tasks_to_start` (line 228); an offer
  no task fits is declined (lines 242-244). Its map entry names lines 79-143; the
  `TaskInfo` it appends is built at lines 145-233, which `DockerParams` models.
- **`OffersLaunch`** sends the LAUNCH.
- **`Update`** handles one status update, including `handle_inspect_data`.
- **`HealthCheck`** and **`HealthStart`** are the health checker's read and its
  `StartTask`.
- **`StartGroupStep`** starts one task of the group.
- **`ServiceDelete`** is the admin KILL.
- **`SyncTick`** is the sync thread's `request_list_running_tasks`. **`SyncPush`** is one
  `register_running_task` of its loop. The loop pushes in HashMap order, and any order
  is possible, so `SyncPush` picks any clone not yet pushed.
- **`UpdateTaskStateRunning`** is the push that `update_task_state` makes inside the actor
  when the new state is Running, part of `Update`.

`RegisterRunningTask` is the POST: the controller stores the record under the task
name, or the POST fails and is swallowed. The constant `StateSync` says whether the sync
thread is in the model. Its steps write only `registry` and `ysnap`, so runs whose
properties read neither leave it out. It makes `core_safety` about four times larger.

Two simplifications:

- `resolve_arguments`' IP request is folded into the `StartTask` that follows it.
- The three requests of a RUNNING update (get_node, update info, update state) are one
  step.
- The requests of one offer are one step (`OfferStep`): `request_is_node_active` and
  `send_update_node` (lines 106-111), the dependency's `request_task_state` (line 127,
  inside `Fits`), `send_update_task_state(Accepted)` (line 139) and
  `send_update_task_node_name` (line 142). Only the scheduler writes the node table, so
  the node fold loses nothing. The other folds hide one order: a health or admin
  `StartTask` of the accepted task, or an admin kill of its dependency, landing between
  the dependency read and the Accepted write. The model explores each of those writes
  only after the Accepted write.

`StateActorChannel` justifies taking one request as one step. Folding two requests
into one step is still an abstraction: no other thread's request is interleaved
between them.

The environment has two faults:

- **`SubscribedReconcileFails` and `OffersLaunchFails`:** the cluster call returns
  `Err`. The `unwrap` panics the scheduler thread (`spc = "dead"`), and with it every
  later callback. In `offers` either the launch fails, or the launch reaches Mesos and
  the decline fails; `declined` records that `offers_to_decline` is non-empty. The table keeps what the callback had written, for example Accepted.
- **`UpdateAckLost(t)`:** the scheduler handles a status update, but its implicit
  acknowledgement is lost, and Mesos delivers the update again.
  The master keeps a task id in use until its terminal update is acknowledged
  (`Unacked`), so a LAUNCH of that id is refused meanwhile.

The IP of a container on the torc network is named after the container (`<<t, k>>`). A
node's IP is `<<n>>`. A host-network container reports its node as hostname. A bridge or
none network container reports neither an IP nor a node name.

### Runs

| Run | cfg | Result | What it shows |
|---|---|---|---|
| core_safety | `MCTorc.cfg` | pass | `LiveContainersTracked`: every live container is Accepted/Running in the table under its own id. Checked with events of up to two offers (so one call launches and declines, and the same task can be accepted twice), one admin kill, one container failure, one group start of a task not yet running, one failed cluster call (reconcile, launch, or decline after a successful launch) and one lost acknowledgement or redelivered update, over 3.47M states in about 1m40. A second group start on a running task breaks it: the overwrite at `run_api.rs:186` re-requests a live task (TLC finds this under `MCTorcGroupRestart.cfg`), and `group_restart_stuck` shows where that ends |
| core_liveness | `MCTorcLive.cfg` | pass | `SysServicesConverge`: with an admin kill but no spontaneous failures, both system services end up Running with a live container. `GroupStartsTakeEffect`: after one group start, the requested group task ends up Running or removed by the kill, and never stays Requested or Accepted. 50k states |
| double_launch | `MCTorcDoubleLaunch.cfg` | violation | with two offers in one event, the same Requested task is accepted twice and launched twice in one LAUNCH (code bug, `scheduler_impl.rs:113`) |
| failed_service_down | `MCTorcFailedDown.cfg` | violation | a system service whose container fails stays Running in the table and is never restarted (`scheduler_impl.rs:285`) |
| stale_dep_ip | `MCTorcDepIp.cfg` | violation | dns-sl2 is started in the same health tick as dns-sl1 and launched with an empty `$IP_DNS_SL1` (`state.rs:708`) |
| expansion_reference | `MCServiceExpansion.cfg` | pass | `HealthExpandMatchesReference`: the expansion polls exactly one task per service and target node, pinned and suffixed. `DockerParamsMatchReference`: a group service's parameters of up to three `--k=v` entries with plain keys, on a known or a custom network, become exactly their pairs plus `net`, without a panic. `ReadTaskMatchesReference`: `read_task` reads every entry, with optional keys absent or present, without a panic, into the entry's keys over the defaults spec.md gives. 1.09M states in about 1m15 |
| derived_name_collision | `MCServiceExpansionNames.cfg` | violation | services `d-s` (no SLA) and `d` (`singleton_each_node`) with node `s` give two health entries named `d-s`; spec.md says a name is unique, and nothing checks it (`run_health_checker.rs:49`) |
| inspect_panic | `MCTorcBridge.cfg` | violation | a bridge-network task's RUNNING update makes `get_node` unwrap a missing node and the actor dies (`state.rs:747`) |
| group_restart_stuck | `MCTorcGroupRestart.cfg` | violation | a second `/start/group` while `g1` runs overwrites it as Requested. The relaunch of the same task id is refused by Mesos (TASK_ERROR), `update` ignores the refusal, and `g1` stays Accepted forever while its old container runs untracked. spec.md calls the overwrite a restart intent (`run_api.rs:186`) |
| launch_fail_stuck | `MCTorcLaunchFail.cfg` | violation | a LAUNCH that fails leaves its task Accepted, and the scheduler thread is dead. Nothing re-requests the task, since the health checker only restarts NotRunning tasks, so `SysServicesConverge` fails. spec.md §7 says the next cycle re-drives convergence (`scheduler_impl.rs:249`) |
| registry_sync | `MCTorcRegistry.cfg` | pass | `RegistryConverges`: with the sync thread, one admin kill and one failed POST, the controller ends up with the current record of both system services. A tick that pushes a restarted service's old record, and a failed synchronous push, are both repaired by a later tick |
| state_actor_refinement | `MCStateActorChannel.cfg` | pass | `StateActorRefined`: the channel protocol implements `StateActor`, with fairness. Every reply goes to its caller and reflects exactly the requests served before it. Every method returns what its `match` makes of the served reply. `Reply` tags a reply with the request's own operation, so a reply of the wrong variant cannot be expressed and the `_ =>` defaults are reached only for the discarded `send_*` replies. No request takes effect after the panic, and no waiting caller waits forever. 145k states |

Each property of a passing run has a mutant in the module it is about, a plausible bug that the run
catches:

| Property | Mutant | The bug |
|---|---|---|
| `TypeOK` | `HealthNextNoWrap` | the loop index is not reset |
| `LiveContainersTracked` | `OfferStepNoAccept` | the Accepted update is dropped |
| `SysServicesConverge` | `FitsStrict` | a strict resource comparison |
| `HealthExpandMatchesReference` | `ExpandServiceNoSlaveFilter` | singleton_each_slave clones on masters too |
| `DockerParamsMatchReference` | `PairFromLate` | the loop's break test is off by one |
| `ReadTaskMatchesReference` | `ReadIntZero` | `read_int` returns 0, not its default, for an absent key |
| `GroupStartsTakeEffect` | `FitsMemStrict` | the memory test rejects an offer equal to the need |
| `RegistryConverges` | `SyncTickRequested` | the sync tick lists the Requested tasks |
| `StateActorRefined` | `ClientRecvShared` | a caller reads a reply from another caller's channel |

### Bounds and why they are enough

The cluster has two nodes (a slave with function `dns`, and a master). In `core_safety`
both nodes have function `dns`, so `sl2` can be placed on either node and is pinned to
the one it is accepted on. It has three tasks:

- `sl1`: pinned to n1, torc network;
- `sl2`: depends on `sl1`, uses `$IP_DNS_SL1`, host network, needs 2 cpus;
- `g1`: a group task for a master node, needs 2 mem.

Offers carry 1 or 2 cpus and mem, except in `core_safety`, whose offers carry 2 cpus and 1 or 2 mem. The bounds:

- **Resource boundary:** every task fits only some offers, and `sl2` and `g1` fit only at
  the boundary.
- **Kills and failures:** one each, which is enough for a restart cycle and for a failed
  container.
- **Group starts:** one, of a task not yet started; two in `group_restart_stuck`.
- **Offers per event:** two in `core_safety` and `double_launch`, one elsewhere. Two
  offers are needed for a call that both launches and declines; with 1-cpu offers as
  well `core_safety` takes close to five minutes, and the cpu boundary is checked by
  `core_liveness`.

For `ServiceExpansion`, two names, two nodes and one group service are enough. The
`number_of_instances` key is absent (read as 1) or 0 or 2. That covers every SLA
branch, a slave and a master, a derived name equal to a declared one, and the
defaulted and explicit counts `read_task` reads. A group entry has no optional keys, or a
float `memory` together with `is_job`. A system service has the `sla` key or not.
`derived_name_collision` also lists an explicit count of 1.

`core_safety` allows one failed cluster call and one lost acknowledgement. That
covers a redelivered KILLED arriving after the task was restarted. `core_liveness`
allows neither:

- A failed call kills the scheduler thread for good; `launch_fail_stuck` shows it.
- A lost acknowledgement triples the liveness graph, and two liveness properties then
  take close to four minutes.

Every hazard above needs at most two of these events. `core_safety` has about 3.47M
states, `core_liveness` about 50k and `registry_sync` about 56k. Every run finishes
within two minutes.

`registry_sync` has one admin kill, one failed POST and no group start. The kill gives a
restart with a tick in progress, and the POST can fail on either path. Group starts
and lost acknowledgements are left out: with them the liveness graph takes over three
minutes. A lost acknowledgement only pushes the same record again.

For `StateActorChannel`, two clients are enough to interleave requests and replies on
one inbox. `GetNode` of an unconfigured node gives the panic with a message of the other
client still queued or already answered.

### Fairness

The driver, health, admin and Mesos-agent steps are weakly fair, because these threads
run to completion. `OffersBegin(n, <<FullOffer>>)` is strongly fair for every node:
Mesos re-offers declined resources after the refusal timeout, so a full offer from each
node recurs. `Update(t)` is strongly fair because Mesos retries status updates until they
are acknowledged. Kills, container failures and group starts are not fair, because they
are user and environment events, as are failed calls, lost acknowledgements and failed
POSTs. `SyncTick` and `SyncPush` are weakly fair: the sync thread loops forever, sleeping
between ticks.

In `StateActorChannel`, `Serve`, `ClientRecv` and `ClientRecvFails` are weakly fair.
The state-serve thread loops on `rx.recv()`, and a thread blocked in `recv` wakes up
when a reply arrives or the channel closes. A client's next request is not fair,
since callers make requests when their own logic asks for one.

## 4. Not modelled, and why

- **The read-only API handlers** change no state.
- **Formatting and JSON encoding** are left out.
- **`node_type`/`node_function` refresh in `update_node`:** offer attributes are constant
  per node.
- **Offers from several agents in one event:** the code assumes one agent per event (see
  hazards).
- **YAML parsing:** `YamlLoader::load_from_str` in `read_config_file` is library code.
  `read_task`, which turns parsed entries into descriptors, is `Config`, checked in
  `MCServiceExpansion`. In `Torc` the descriptors are constants of `MCTorc`.
- **Process startup (`main.rs`):** it parses the command line and spawns the api and
  scheduler threads, discarding the spawn results. It then joins the health thread
  only. The state it reaches is `Init` of `Torc`: the actor is serving, the nodes are
  loaded and the task table is empty. Every thread starts with `send_ping`, which the
  already running actor answers, so the start order creates no race. A dead scheduler
  or api thread is never noticed, which is the `launch_fail_stuck` finding. A dead
  health thread ends the process. State is in memory only (spec.md, non-goals), so
  there is nothing to recover.
- **The scheduler callbacks `inverse_offers`, `rescind`, `message`, `failure`, `error`,
  `heartbeat` and `disconnected`** only print a line.
