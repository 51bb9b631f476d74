SPECIFICATION Spec
CONSTANTS
    Policies <- MCPolicies
    Phases = 4
    MaxWork = 2
    MaxClock = 7
INVARIANTS
    TypeOK
    NeverOverflows
PROPERTIES
    HeartbeatsSent
CHECK_DEADLOCK FALSE
