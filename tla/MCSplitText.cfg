CONSTANTS
    Texts <- MCTexts
    White = {"space", "newline"}
    Scenarios <- MCScenarios
    SizeInputs <- MCSizes
    OverlapInputs <- MCOverlaps
    Word = 16
SPECIFICATION Spec
INVARIANTS
    TotalIsExtent
    DocumentsFit
    ChunksFit
    NothingIsLost
