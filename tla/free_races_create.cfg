SPECIFICATION Spec
CONSTANTS
    Threads = {t1, t2}
    Runners = {n1}
    Contexts = {c1, c2}
    Rules = {r1}
    Names = {1}
    None = none
    Serial = {"create"}
    DistinctNames = TRUE
    MaxCalls = 2
INVARIANTS
    NoEventsBind
CHECK_DEADLOCK FALSE
