CONSTANTS
    a = a
    b = b
    Clusters = {a, b}
    Versions = {1, 2}
    Worlds <- MCWorlds
SPECIFICATION Spec
INVARIANTS TemplatesSound StagingWorks
PROPERTIES LatestAndSettled CommandsEnd
CHECK_DEADLOCK FALSE
