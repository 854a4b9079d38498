CONSTANTS
    a = a
    b = b
    Clusters = {a, b}
    Resources = {cluster, machines}
    Cases <- MCCases
SPECIFICATION Spec
INVARIANTS MachinesManaged SuccessMeans
PROPERTIES CommandsEnd KeepsCustody
CHECK_DEADLOCK FALSE
