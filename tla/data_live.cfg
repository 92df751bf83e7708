SPECIFICATION FairSpec
CONSTANTS
    SeqSpan = 8
    Window <- Window22
    MaxWindow = 2
    NewWindows = {}
    StartSeq = 6
    ReadSizes = {1}
    WriteResults = {"block", "error"}
    SizeofInt = 4
    MaxMsg <- MaxMsg30
    MaxDebt = 1
    MaxChunks = 3
    MaxLoss = 3
PROPERTIES
    Delivery
    ReadsOn
CHECK_DEADLOCK FALSE
