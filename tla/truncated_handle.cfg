SPECIFICATION Spec
CONSTANTS
    Services = {1}
    ClientOf <- OneWay
    KeepsHandle = FALSE
    Retries = 2
    HandleSpan = 4
    MaxData = 0
    MaxSessions <- MaxSessions12
INVARIANTS
    HandleMapsSession
CHECK_DEADLOCK FALSE
