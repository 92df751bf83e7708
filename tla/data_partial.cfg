SPECIFICATION Spec
CONSTANTS
    SeqSpan = 8
    Window <- Window22
    MaxWindow = 2
    NewWindows = {0, 3}
    StartSeq = 6
    ReadSizes = {2}
    WriteResults = {"partial"}
    SizeofInt = 4
    MaxMsg <- MaxMsg20
    MaxDebt = 1
    MaxChunks = 3
INVARIANTS
    NoLostWakeup
    QueuesAgree
CHECK_DEADLOCK FALSE
