CONSTANTS
    Procs = {p, q}
    Nodes = {n1, n2}
    n1 = n1
    n2 = n2
    Actions = {"tag-images", "check-ips", "upgrade-vips"}
    Scripts <- MCScripts
    Envs = {""}
    None = None
    MaxCommands = 2
    MaxErrors = 2
    Worlds <- MCWorlds
SPECIFICATION Spec
CHECK_DEADLOCK FALSE
INVARIANTS ChangesInOrder ScriptsTidy CleanUpdateSettles
PROPERTIES CommandsEnd
