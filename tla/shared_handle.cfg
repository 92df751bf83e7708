SPECIFICATION Spec
CONSTANTS
    Services = {1, 2}
    ClientOf <- TwoWay
    KeepsHandle = TRUE
    Retries = 2
    HandleSpan = 4
    MaxData = 0
    MaxSessions <- MaxSessions22
INVARIANTS
    Paired
CHECK_DEADLOCK FALSE
