SPECIFICATION UpgradeSpec
CONSTANTS
    p = p
    c1 = c1
    w = w
    Procs = {p}
    Nodes = {c1, w}
    ControlPlane = {c1}
    Start = 30
    MaxVersion = 32
    NoJob = NoJob
    NoList = NoList
    Overlap = FALSE
    Hasty = FALSE
    Forced = FALSE
    PartialStage = FALSE
    NodeFailures = TRUE
SYMMETRY Symmetry
INVARIANTS SkewPolicy RebootsDrained
PROPERTIES NoDowngrade
