SPECIFICATION Spec
CONSTANTS
    Period <- MCPeriod
    Latency = 0
    Timeout = 4
    MaxSpurious = 1
\* main ends.
CHECK_DEADLOCK FALSE
INVARIANTS
    OnlyRealAlarms
