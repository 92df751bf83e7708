SPECIFICATION FairSpec
CONSTANTS
    Services = {1}
    ClientOf <- OneWay
    KeepsHandle = TRUE
    Retries = 2
    HandleSpan = 4
    MaxData = 1
    MaxSessions <- MaxSessions23
INVARIANTS
    TypeOK
    Paired
    Isolated
    HandleMapsSession
    NoSessionWithoutRule
PROPERTIES
    ConnectSettles
CHECK_DEADLOCK FALSE
