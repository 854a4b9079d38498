CONSTANTS
    ClusterNames = {a, b}
    First = First
    Others = {w}
    Nobody = Nobody
    Stale = Stale
    MaxPKI = 2
    Faults = {FALSE, TRUE}
SPECIFICATION DriverSpec
INVARIANTS HostSafe FaultlessDeliver
SYMMETRY Symmetry
