SPECIFICATION Spec
CONSTANTS
    SeqSpan = 8
    Window <- Window22
    MaxWindow = 2
    NewWindows = {}
    StartSeq = 0
    ReadSizes = {1}
    WriteResults = {}
    SizeofInt = 4
    MaxMsg <- MaxMsg21
    MaxDebt = 1
    MaxChunks = 3
INVARIANTS
    DeletedWhenFlushed
CHECK_DEADLOCK FALSE
