CONSTANTS
    None = None
    Client = {c1, c2, stranger}
    Foreign = {stranger}
    Cases <- MCCases
SPECIFICATION Spec
INVARIANTS
    StatusBacked
    TypeOK
    NothingUnapproved
    RiskMonotone
    ArrivalOrderFree
    AutonomyFailSafe
PROPERTIES
    TraceKept
SYMMETRY Symmetric
CHECK_DEADLOCK FALSE
