-------------------------- MODULE ServiceExpansion --------------------------
(***************************************************************************)
(* The two places that derive task names from the configuration:          *)
(*   - the health checker's SLA expansion of the system services           *)
(*     (health/run_health_checker.rs, before its loop), and                *)
(*   - the admin API's instance expansion of a service group               *)
(*     (api/run_api.rs, handle_start_service_group).                       *)
(* Both build a name with format!("{}-{}", ...).  Names are sequences of   *)
(* characters, so that a concatenation that yields the name of another     *)
(* service is visible; a character is a one-letter string.                 *)
(*                                                                         *)
(* A service is the descriptor read_task (Config) returns for its YAML     *)
(* entry: both places call read_task before they expand.  A node is        *)
(* [name, node_type], in the order request_list_nodes returns them         *)
(* (HashMap order, chosen by the caller).                                  *)
(***************************************************************************)
EXTENDS Config
LOCAL INSTANCE Naturals
LOCAL INSTANCE Sequences
LOCAL INSTANCE SequencesExt

\* format!("{}-{}", name, suffix).
Suffixed(name, suffix) == name \o <<"-">> \o suffix

\* The expansion of one system service over the node list: its task with
\* the name unchanged for SLA None; otherwise one clone per node (per slave
\* node for SingletonEachSlave), pinned to the node and named after it.
ExpandOn(s, nodes) ==
    [i \in 1..Len(nodes) |-> [name      |-> Suffixed(s.name, nodes[i].name),
                              node_name |-> nodes[i].name]]

\* Fault variant of ExpandService: the node_type filter of
\* SingletonEachSlave is dropped, so masters get a clone too.
ExpandServiceNoSlaveFilter(s, nodes) ==
    CASE s.sla = "None" -> <<[name |-> s.name, node_name |-> s.node_name]>>
      [] OTHER                   -> ExpandOn(s, nodes)

ExpandService(s, nodes) ==
    CASE s.sla = "None"              -> <<[name |-> s.name, node_name |-> s.node_name]>>
      [] s.sla = "SingletonEachNode" -> ExpandOn(s, nodes)
      [] OTHER -> ExpandOn(s, SelectSeq(nodes, LAMBDA n : n.node_type = "slave"))

\* The list of tasks the health checker polls: the expansions of the
\* system services, in the order the configuration lists them.
HealthExpand(services, nodes) ==
    FoldLeft(LAMBDA acc, s : acc \o ExpandService(s, nodes), << >>, services)

\* The decimal digits of a count, as format! prints an integer.
DigitChar == [d \in 0..9 |-> CASE d = 0 -> "0" [] d = 1 -> "1" [] d = 2 -> "2"
                                [] d = 3 -> "3" [] d = 4 -> "4" [] d = 5 -> "5"
                                [] d = 6 -> "6" [] d = 7 -> "7" [] d = 8 -> "8"
                                [] OTHER -> "9"]

RECURSIVE Decimal(_)
Decimal(k) == IF k < 10 THEN <<DigitChar[k]>> ELSE Decimal(k \div 10) \o <<DigitChar[k % 10]>>

\* The names handle_start_service_group starts for one service: the name
\* itself for one instance, name-0, name-1, ... for several, none for 0.
InstanceNames(s) ==
    [i \in 1..s.number_of_instances |->
        IF s.number_of_instances > 1 THEN Suffixed(s.name, Decimal(i - 1)) ELSE s.name]

\* The names one start of a group requests, in order.
GroupNames(services) ==
    FoldLeft(LAMBDA acc, s : acc \o InstanceNames(s), << >>, services)

=============================================================================
