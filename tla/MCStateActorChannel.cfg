CONSTANTS
    c1 = c1  c2 = c2  t1 = t1  t2 = t2  n1 = n1  nx = nx
    Clients <- MCClients
    Requests <- MCRequests
    St0 <- MCSt0
SPECIFICATION Spec
PROPERTY StateActorRefined
\* After get_node panics the actor, every caller dies on its next send or
\* recv: the run ends with no step enabled, as the threads do.
CHECK_DEADLOCK FALSE
