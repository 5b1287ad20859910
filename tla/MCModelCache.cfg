CONSTANTS
    p1 = p1
    p2 = p2
    f1 = f1
    f2 = f2
    Procs = {p1, p2}
    Files <- MCFiles
    Chunks = 2
    Content <- MCContent
    Empty = "none"
    NoProc = NoProc
SPECIFICATION Spec
PROPERTIES
    SuccessIsWhole
    GoodFilesStay
    TryingAgainHeals
