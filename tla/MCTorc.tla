------------------------------- MODULE MCTorc -------------------------------
(***************************************************************************)
(* A two-node cluster: n1 a slave with function "dns", n2 the master.      *)
(* System services (run by the health checker): sl1 pinned to n1 on the   *)
(* torc network, and sl2, which needs sl1 Running and whose arguments      *)
(* carry $IP_DNS_SL1, on the host network.  The admin service group holds *)
(* g1, for a master node.  Offers carry 1 or 2 cpus and 1 or 2 units of    *)
(* memory, so sl2 (2 cpus) and g1 (2 mem) fit only offers at the boundary. *)
(***************************************************************************)
EXTENDS Torc

CONSTANTS n1, n2, sl1, sl2, g1, nowhere

MCNodes == {n1, n2}
MCNodeType == (n1 :> "slave") @@ (n2 :> "master")
MCNodeFunction == (n1 :> "dns") @@ (n2 :> "none")
\* Both nodes run the dns function, so sl2 (function dns) may be placed on
\* either and offers() pins it to the node it is accepted on.
MCNodeFunctionDns == (n1 :> "dns") @@ (n2 :> "dns")
MCTaskNames == {sl1, sl2, g1}

Descr(nn, nt, nf, dep, c, m, net, dip) ==
    [node_name |-> nn, node_type |-> nt, node_function |-> nf,
     dependent_service |-> dep, cpu |-> c, memory |-> m,
     network_type |-> net, uses_dep_ip |-> dip]

MCDesc ==
    (sl1 :> Descr(n1, "slave", "", "", 1, 1, "torc", FALSE)) @@
    (sl2 :> Descr("", "", "dns", sl1, 2, 1, "host", TRUE)) @@
    (g1  :> Descr("", "master", "", "", 1, 2, "torc", FALSE))

\* The same cluster with g1 on the bridge network: its inspect data has no
\* torc IP and its hostname is the container's, not a node's.
MCDescBridge == [MCDesc EXCEPT ![g1].network_type = "bridge"]

MCSysSeq == <<sl1, sl2>>
MCGroupSeq == <<g1>>
=============================================================================
