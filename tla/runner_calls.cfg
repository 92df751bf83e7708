SPECIFICATION FairSpec
CONSTANTS
    Threads = {t1, t2}
    Runners = {n1}
    Contexts = {c1, c2}
    Rules = {r1, r2}
    Names = {1, 2}
    None = none
    Serial = {"create", "free", "dump"}
    DistinctNames = TRUE
    MaxCalls = 4
INVARIANTS
    TypeOK
    OwnedUntilFreed
    EventsBelong
    NoUseAfterFree
    RunnerWithContexts
    HeldUntilDeleted
    NoDeadlock
PROPERTIES
    CallsReturn
    ImplementsApi
CHECK_DEADLOCK FALSE
