CONSTANTS
    n1 = n1  n2 = n2  sl1 = sl1  sl2 = sl2  g1 = g1  nowhere = nowhere
    Nodes <- MCNodes
    NodeType <- MCNodeType
    NodeFunction <- MCNodeFunction
    TaskNames <- MCTaskNames
    Desc <- MCDesc
    SysSeq <- MCSysSeq
    GroupSeq <- MCGroupSeq
    DepIpTask = sl1
    NotANode = nowhere
    Cpus = {1, 2}
    Mems = {1, 2}
    MaxOffers = 1
    MaxKills = 0
    MaxFails = 1
    MaxGroupStarts = 1
    MaxCallFails = 0
    MaxDups = 0
    MaxPostFails = 0
    StateSync = FALSE
SPECIFICATION Spec
PROPERTY SysServicesConverge
