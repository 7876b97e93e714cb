----------------------------- MODULE NodeTable -----------------------------
(***************************************************************************)
(* The node table of the state actor (src/state/node_list.rs): a map from *)
(* node name to node record, each operation an operator on the table.  A  *)
(* record keeps the configured ip and the active flag; the type, function *)
(* and slave id that update_node copies from an offer's attributes are     *)
(* constant per node in the composing module and left out.                *)
(***************************************************************************)
LOCAL INSTANCE TLC

\* What get_node answers for a name that is not in the table (its Err).
NodeNotFound == [active |-> FALSE, ip |-> <<>>, found |-> FALSE]

\* StateManager::send_add_node: the record of a configured node, inactive.
NewNode(ip) == [active |-> FALSE, ip |-> ip, found |-> TRUE]

\* NodeList::add_new_node: HashMap::insert, which overwrites.
AddNewNode(nl, n, rec) == (n :> rec) @@ nl

\* NodeList::is_node_active: FALSE for an unknown name.
IsNodeActive(nl, n) == n \in DOMAIN nl /\ nl[n].active

\* NodeList::update_node: sets active on an existing entry; an unknown name
\* is only logged.
UpdateNode(nl, n) == IF n \in DOMAIN nl THEN [nl EXCEPT ![n].active = TRUE] ELSE nl

\* NodeList::get_node.
GetNode(nl, n) == IF n \in DOMAIN nl THEN nl[n] ELSE NodeNotFound

=============================================================================
