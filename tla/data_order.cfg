SPECIFICATION Spec
CONSTANTS
    SeqSpan = 8
    Window <- Window22
    MaxWindow = 2
    NewWindows = {}
    StartSeq = 6
    ReadSizes = {1}
    WriteResults = {"block", "error"}
    SizeofInt = 4
    MaxMsg <- MaxMsg40
    MaxDebt = 1
    MaxChunks = 3
INVARIANTS
    TypeOK
    InOrder
    NothingForgotten
    NoLostWakeup
    QueuesAgree
    Agreement
CHECK_DEADLOCK FALSE
