CONSTANTS
    Procs = {p, q}
    Nodes = {n1, n2}
    Dest = d1
    Actions = {"join-node"}
    Scripts = {"updateNodeScript"}
    Envs <- MCEnvs
    None = None
    MaxCommands = 2
    MaxErrors = 2
    Worlds <- MCWorlds
SPECIFICATION Spec
CHECK_DEADLOCK FALSE
INVARIANTS RunsOwnScript RemovedWasTold JoinsCleanly
PROPERTIES Arrives
