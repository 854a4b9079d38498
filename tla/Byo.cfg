CONSTANTS
    Machines = {m1, m2, m3}
    Files <- MCFiles
    Worlds <- MCWorlds
    MaxCommands = 4
SPECIFICATION ByoSpec
INVARIANTS NodesAsAsked JoinsAdmit
PROPERTY StartsIgnite
CHECK_DEADLOCK FALSE
