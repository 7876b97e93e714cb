\* Safety of the composed system: events of up to two offers, so that one
\* offers() call both launches and declines (and a launch can succeed before
\* the decline fails); offers carry full cpus, so declines come from the
\* placement filters and the memory test.
CONSTANTS
    n1 = n1  n2 = n2  sl1 = sl1  sl2 = sl2  g1 = g1  nowhere = nowhere
    Nodes <- MCNodes
    NodeType <- MCNodeType
    NodeFunction <- MCNodeFunctionDns
    TaskNames <- MCTaskNames
    Desc <- MCDesc
    SysSeq <- MCSysSeq
    GroupSeq <- MCGroupSeq
    DepIpTask = sl1
    NotANode = nowhere
    Cpus = {2}
    Mems = {1, 2}
    MaxOffers = 2
    MaxKills = 1
    MaxFails = 1
    MaxGroupStarts = 1
    MaxCallFails = 1
    MaxDups = 1
    MaxPostFails = 0
    StateSync = FALSE
SPECIFICATION Spec
INVARIANT TypeOK
INVARIANT LiveContainersTracked
