CONSTANTS
    Procs = {p1, p2}
    NoFile = NoFile
    NoPid = NoPid
    Clusters = {a, b}
    FirstPort = 6443
    EndPort = 6445
    FirstIP = 201
    EndIP = 202
    GivenIPs = {}
    Localhost = Localhost
    Allocate = Allocate
    NoEntry = NoEntry
    NoJob = NoJob
    Worlds <- MCWorlds
SPECIFICATION Spec
INVARIANTS PortsConsistent FileDescribesVMs
SYMMETRY Symmetry
CHECK_DEADLOCK FALSE
