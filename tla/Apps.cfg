CONSTANTS
    N = 4
    NumBuiltIn = 1
    Unnamed = {4}
    Unplaced = {3}
    Elsewhere = {}
    NumCatalogs = 2
    Community = {FALSE, TRUE}
    MaxCommands = 3
    Faults = TRUE
    ListFaults = {FALSE, TRUE}
SPECIFICATION Spec
INVARIANTS StartedHasReleases StartsWhatIsMissing
PROPERTIES ReleaseSteps CommandsReturn
CHECK_DEADLOCK FALSE
