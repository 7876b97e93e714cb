------------------------------- MODULE Config -------------------------------
(***************************************************************************)
(* The configuration reader (src/utils/config.rs): read_task turns one     *)
(* YAML entry of a service list into a task descriptor.                    *)
(*                                                                         *)
(* A YAML mapping is a function from the keys it has to its values; a     *)
(* value is [kind, v] with kind the yaml_rust::Yaml variant ("str", "int", *)
(* "real", "bool", "seq").  Indexing a mapping by a key it lacks gives    *)
(* Yaml::BadValue.  An as_str()/as_bool()/as_f64()/as_i64()/as_vec()      *)
(* followed by unwrap() on a value of another variant panics the thread    *)
(* that reads the entry.  Strings are sequences of characters, so "" is   *)
(* << >>; a float is kept as the token of its literal.                     *)
(***************************************************************************)
LOCAL INSTANCE Naturals
LOCAL INSTANCE Sequences

\* super::DEFAULT_MEMORY and super::DEFAULT_CPU (utils/mod.rs, not among
\* the sources): only their identity matters.
DEFAULT_MEMORY == "DEFAULT_MEMORY"
DEFAULT_CPU == "DEFAULT_CPU"

\* Yaml's is_badvalue() on service[key].
IsBadValue(y, k) == k \notin DOMAIN y

\* service[key].as_<kind>().unwrap() returns: the key is there, of that variant.
Unwraps(y, k, kind) == ~IsBadValue(y, k) /\ y[k].kind = kind

\* read_string, read_bool, read_float and read_int: the default for an absent
\* key, the unwrapped value otherwise.  Readable is whether the unwrap holds.
Readable(y, k, kind) == IsBadValue(y, k) \/ y[k].kind = kind
ReadString(y, k) == IF IsBadValue(y, k) THEN << >> ELSE y[k].v
ReadBool(y, k) == IF IsBadValue(y, k) THEN FALSE ELSE y[k].v
ReadFloat(y, k, default) == IF IsBadValue(y, k) THEN default ELSE y[k].v

\* Fault variant of ReadInt: the absent key reads as 0, not as the default.
ReadIntZero(y, k, default) == IF IsBadValue(y, k) THEN 0 ELSE y[k].v

ReadInt(y, k, default) == IF IsBadValue(y, k) THEN default ELSE y[k].v

\* read_volumes_for_service: no volumes for an absent key; otherwise a list
\* whose every element has the three keys, each unwrapped.
VolumeReadable(m) ==
    /\ Unwraps(m, "host_path", "str") /\ Unwraps(m, "container_path", "str")
    /\ Unwraps(m, "read_only_mode", "bool")
VolumesReadable(y) ==
    \/ IsBadValue(y, "volumes")
    \/ Unwraps(y, "volumes", "seq") /\ \A i \in DOMAIN y["volumes"].v : VolumeReadable(y["volumes"].v[i])
ReadVolumes(y) ==
    IF IsBadValue(y, "volumes") THEN << >>
    ELSE [i \in DOMAIN y["volumes"].v |->
            LET m == y["volumes"].v[i]
            IN [host_path |-> m["host_path"].v, container_path |-> m["container_path"].v,
                read_only_mode |-> m["read_only_mode"].v]]

\* read_sla: SLA::None for an absent key or an unknown string.
ReadSla(y) ==
    IF IsBadValue(y, "sla") THEN "None"
    ELSE CASE y["sla"].v = "singleton_each_node"  -> "SingletonEachNode"
           [] y["sla"].v = "singleton_each_slave" -> "SingletonEachSlave"
           [] OTHER                               -> "None"

\* The keys read_task reads with each reader.
RequiredKeys == {"name", "image_name", "network_type"}
StringKeys == {"node_name", "node_type", "node_function", "dependent_service",
               "arguments", "parameters"}
BoolKeys == {"privileged", "is_metered", "is_job"}
FloatKeys == {"memory", "cpu"}

\* Whether read_task returns: name, image_name and network_type are
\* unwrapped as strings, and every other key present must be of the
\* variant its reader unwraps.  Otherwise the reading thread panics.
ReadTaskReturns(y) ==
    /\ \A k \in RequiredKeys : Unwraps(y, k, "str")
    /\ \A k \in StringKeys \cup {"sla"} : Readable(y, k, "str")
    /\ \A k \in BoolKeys : Readable(y, k, "bool")
    /\ \A k \in FloatKeys : Readable(y, k, "real")
    /\ Readable(y, "number_of_instances", "int")
    /\ VolumesReadable(y)

\* read_task: the descriptor (utils::config::Task), for an entry on which it
\* returns.
ReadTask(y) ==
    [name |-> y["name"].v, image |-> y["image_name"].v,
     node_name |-> ReadString(y, "node_name"), node_type |-> ReadString(y, "node_type"),
     node_function |-> ReadString(y, "node_function"),
     number_of_instances |-> ReadInt(y, "number_of_instances", 1),
     dependent_service |-> ReadString(y, "dependent_service"),
     arguments |-> ReadString(y, "arguments"), parameters |-> ReadString(y, "parameters"),
     memory |-> ReadFloat(y, "memory", DEFAULT_MEMORY), cpu |-> ReadFloat(y, "cpu", DEFAULT_CPU),
     volumes |-> ReadVolumes(y), privileged |-> ReadBool(y, "privileged"),
     sla |-> ReadSla(y), is_metered |-> ReadBool(y, "is_metered"),
     is_job |-> ReadBool(y, "is_job"), network_type |-> y["network_type"].v]

=============================================================================
