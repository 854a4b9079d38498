CONSTANTS
    N = 4
SPECIFICATION WaiterSpec
INVARIANTS ReportsFailures SerialInOrder
PROPERTIES ReturnsAtTheEnd
CHECK_DEADLOCK FALSE
