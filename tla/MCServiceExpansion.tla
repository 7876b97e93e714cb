------------------------- MODULE MCServiceExpansion -------------------------
(***************************************************************************)
(* Checks the name expansions of ServiceExpansion over every configuration *)
(* of a small universe: a configuration is built one YAML entry at a time  *)
(* (a system service, a node, a service of the started group), and every   *)
(* state is a configuration the program may be started with.  Service      *)
(* entries are YAML mappings, read with read_task as the program does.     *)
(***************************************************************************)
EXTENDS Naturals, Sequences, FiniteSets, Functions, SequencesExt, ServiceExpansion, DockerParams

CONSTANTS
    ServiceNames,     \* names a service may have (sequences of characters)
    NodeNames,        \* names a node may have
    SlaStrings,       \* values of the "sla" key; "" is the absent key
    NodeTypes,        \* values of a node's "type" key
    InstanceCounts,   \* values of number_of_instances
    MaxServices,      \* bound on the length of healthcheck.system_services
    MaxNodes,         \* bound on the length of nodes
    MaxGroup,         \* bound on the services of the started group
    ParamKeys,        \* names of the "--k=v" entries of a service's parameters
    ParamValues,      \* their values
    Networks,         \* values of network_type
    MaxParams,        \* bound on the entries of one parameters string
    Extras            \* optional keys a group entry may also carry

VARIABLES svc, nds, grp
vars == <<svc, nds, grp>>

Init == svc = << >> /\ nds = << >> /\ grp = << >>

\* A YAML string scalar.
Str(s) == [kind |-> "str", v |-> s]

\* An entry with the keys read_task requires, and the entry y with the key
\* k set to val when present holds.
Entry(nm, net) == [name |-> Str(nm), image_name |-> Str(<<"i">>), network_type |-> Str(net)]
WithKey(y, k, present, val) == IF present THEN y @@ (k :> val) ELSE y

MCHost == <<"h", "o", "s", "t">>
MCTorcNet == <<"t", "o", "r", "c">>
MCNetworks == {MCHost, MCTorcNet}
MCParamKeys == {<<"k">>, <<"e", "n", "v">>}
MCParamValues == {<<"v">>, <<"1", "2">>}

\* Optional keys of a group entry: none, or a float memory and is_job.
MCExtras == {<< >>, ("memory" :> [kind |-> "real", v |-> "64.0"])
                    @@ ("is_job" :> [kind |-> "bool", v |-> TRUE])}

\* A descriptor's parameters string, "--k1=v1 --k2=v2 ...".
ParamString(es) ==
    FlattenSeq([i \in DOMAIN es |-> (IF i = 1 THEN << >> ELSE <<" ">>)
                                     \o <<"-", "-">> \o es[i].k \o <<"=">> \o es[i].v])

\* The descriptors read_task gives the entries of a list.
Tasks(ys) == [i \in DOMAIN ys |-> ReadTask(ys[i])]

\* The configuration declares each system service once (spec.md: a name
\* is unique); only the derived names may collide.
AddSystemService ==
    /\ Len(svc) < MaxServices
    /\ \E nm \in ServiceNames \ {svc[i].name.v : i \in DOMAIN svc}, sla \in SlaStrings :
          svc' = Append(svc, WithKey(Entry(nm, MCHost), "sla", sla # "", Str(sla)))
    /\ UNCHANGED <<nds, grp>>

\* Node names are the node table's keys, hence distinct.
AddNode ==
    /\ Len(nds) < MaxNodes
    /\ \E nm \in NodeNames \ {nds[i].name : i \in DOMAIN nds}, ty \in NodeTypes :
          nds' = Append(nds, [name |-> nm, node_type |-> ty])
    /\ UNCHANGED <<svc, grp>>

AddGroupService ==
    /\ Len(grp) < MaxGroup
    /\ \E nm \in ServiceNames, k \in InstanceCounts, kset \in BOOLEAN, x \in Extras,
         ps \in SeqOf([k: ParamKeys, v: ParamValues], MaxParams), net \in Networks :
          LET y == WithKey(WithKey(Entry(nm, net), "number_of_instances", kset,
                                   [kind |-> "int", v |-> k]),
                           "parameters", ps # << >>, Str(ParamString(ps)))
          IN grp' = Append(grp, [yaml |-> x @@ y, params |-> ps])
    /\ UNCHANGED <<svc, nds>>

Next == AddSystemService \/ AddNode \/ AddGroupService

Spec == Init /\ [][Next]_vars

-----------------------------------------------------------------------------
\* The universe of names: "d-s" is also what "d" cloned on node "s" is named.
MCServiceNames == {<<"d">>, <<"d", "-", "s">>}
MCNodeNames == {<<"s">>, <<"m">>}

\* The raw "sla" string of the i-th system service, "" for an absent key.
RawSla(i) == IF "sla" \in DOMAIN svc[i] THEN svc[i]["sla"].v ELSE ""

\* The clones the specification (spec.md, Health Supervisor) asks of one
\* service, as pairs <<service index, node index>>, 0 standing for the
\* service itself: SLA None keeps the task, singleton_each_node clones it
\* on every node, singleton_each_slave on every node of type "slave".
RefTargets(i) ==
    CASE RawSla(i) = "singleton_each_node"  -> DOMAIN nds
      [] RawSla(i) = "singleton_each_slave" -> {j \in DOMAIN nds : nds[j].node_type = "slave"}
      [] OTHER                               -> {0}

RefTask(i, j) ==
    IF j = 0 THEN [name |-> svc[i].name.v, node_name |-> << >>]
    ELSE [name |-> svc[i].name.v \o <<"-">> \o nds[j].name, node_name |-> nds[j].name]

RefPairs == UNION {{<<i, j>> : j \in RefTargets(i)} : i \in DOMAIN svc}

\* The health checker's expansion (run_health_checker.rs, lines 37-66)
\* polls exactly the tasks the specification's SLA rules call for: one per
\* service and target node, each pinned to its node and suffixed with its
\* name, and no other.

HealthExpandMatchesReference ==
    LET E == HealthExpand(Tasks(svc), nds)
    IN /\ Len(E) = Cardinality(RefPairs)
       /\ Range(E) = {RefTask(p[1], p[2]) : p \in RefPairs}

\* spec.md: a task's name is its unique identifier.  The health checker
\* polls a list in which no two entries share a name.
HealthTaskNamesUnique ==
    LET E == HealthExpand(Tasks(svc), nds)
    IN IsInjective([k \in DOMAIN E |-> E[k].name])

-----------------------------------------------------------------------------
\* spec.md, Configuration document: a task descriptor is its entry's keys
\* over the defaults, number_of_instances 1, memory and cpu the built-in
\* constants, an empty string or list, false, and no SLA; the "sla" string
\* names one of the two singleton SLAs, else none.
SpecDefaults ==
    [node_name |-> << >>, node_type |-> << >>, node_function |-> << >>,
     number_of_instances |-> 1, dependent_service |-> << >>, arguments |-> << >>,
     parameters |-> << >>, memory |-> DEFAULT_MEMORY, cpu |-> DEFAULT_CPU,
     volumes |-> << >>, privileged |-> FALSE, sla |-> "None", is_metered |-> FALSE,
     is_job |-> FALSE]
SpecSla == [s \in {"singleton_each_node", "singleton_each_slave"} |->
               IF s = "singleton_each_node" THEN "SingletonEachNode" ELSE "SingletonEachSlave"]
KeyOf(f) == IF f = "image" THEN "image_name" ELSE f
SpecValue(y, f) ==
    LET v == y[KeyOf(f)].v
    IN IF f = "sla" THEN (IF v \in DOMAIN SpecSla THEN SpecSla[v] ELSE "None") ELSE v
SpecDescriptor(y) ==
    [f \in DOMAIN SpecDefaults \cup {"name", "image", "network_type"} |->
        IF KeyOf(f) \in DOMAIN y THEN SpecValue(y, f) ELSE SpecDefaults[f]]

\* read_task (config.rs, lines 47-68), called by the health checker and by
\* the start-group handler on every entry of their service lists, returns
\* without panicking on an entry whose keys have the types spec.md gives,
\* and yields the entry's values over exactly the specified defaults.
ReadTaskMatchesReference ==
    \A y \in {svc[i] : i \in DOMAIN svc} \cup {grp[i].yaml : i \in DOMAIN grp} :
        ReadTaskReturns(y) /\ ReadTask(y) = SpecDescriptor(y)

-----------------------------------------------------------------------------
\* What spec.md asks: each entry passed through as one <<key, value>>, and a
\* custom network_type as the parameter <<"net", type>>.
ParamRefPairs(es, nt) ==
    [i \in DOMAIN es |-> <<es[i].k, es[i].v>>]
    \o (IF nt \in KnownNetworks THEN << >> ELSE <<<<<<"n", "e", "t">>, nt>>>>)

\* The offers callback (scheduler_impl.rs, lines 171-206) passes every
\* "--k=v" entry of a started task's parameters, and its custom network, to
\* Docker as exactly those key/value pairs, in order, without panicking the
\* scheduler thread.
DockerParamsMatchReference ==
    \A i \in DOMAIN grp :
        LET t == ReadTask(grp[i].yaml)
        IN DockerParameters(t.parameters, t.network_type)
               = Done(ParamRefPairs(grp[i].params, grp[i].yaml["network_type"].v))


=============================================================================
