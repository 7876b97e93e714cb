\* Every configuration of up to two system services, two nodes and one group
\* service over a universe in which one derived name equals a given one.
CONSTANTS
    ServiceNames <- MCServiceNames
    NodeNames <- MCNodeNames
    SlaStrings = {"", "singleton_each_node", "singleton_each_slave", "singleton"}
    NodeTypes = {"slave", "master"}
    InstanceCounts = {0, 2}
    MaxServices = 2
    MaxNodes = 2
    MaxGroup = 1
    ParamKeys <- MCParamKeys
    ParamValues <- MCParamValues
    Networks <- MCNetworks
    MaxParams = 3
    Extras <- MCExtras
SPECIFICATION Spec
INVARIANTS HealthExpandMatchesReference DockerParamsMatchReference
    ReadTaskMatchesReference
\* Building a configuration ends when every list is at its bound.
CHECK_DEADLOCK FALSE
