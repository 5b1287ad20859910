CONSTANTS
    p1 = p1
    p2 = p2
    Procs = {p1, p2}
    Docs = {d1, d2}
    MaxIds = 3
    TopK <- MCTopK
    Foreign = foreign
    Collections = {a, b, c}
    NoCollection = none
    Scenarios <- MCScenarios
SPECIFICATION Spec
SYMMETRY MCSymmetry
INVARIANTS
    NothingLeaks
PROPERTIES
    StoreKeepsPromise
    ClearForgets
    OnlyFaultsKill
