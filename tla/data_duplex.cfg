SPECIFICATION Spec
CONSTANTS
    SeqSpan = 8
    Window <- Window21
    MaxWindow = 2
    NewWindows = {}
    StartSeq = 6
    ReadSizes = {1}
    WriteResults = {"block", "error"}
    SizeofInt = 4
    MaxMsg <- MaxMsg21
    MaxDebt = 1
    MaxChunks = 3
INVARIANTS
    NothingForgotten
PROPERTIES
    ImplementsStreams
CHECK_DEADLOCK FALSE
