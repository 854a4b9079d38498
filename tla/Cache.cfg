CONSTANTS
    Procs = {p1, p2}
    NoFile = NoFile
    NoPid = NoPid
    Clusters = {a}
    Configs = {v1, v2}
    NoEntry = NoEntry
    NoJob = NoJob
    NilMap = NilMap
    Worlds <- MCWorlds
SPECIFICATION Spec
INVARIANTS NoTornRead CacheAgrees
PROPERTIES LockKept CommandsEnd
CHECK_DEADLOCK FALSE
