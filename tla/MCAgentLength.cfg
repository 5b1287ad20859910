CONSTANTS
    a = a
    b = b
    Json <- MCJson
    Tools = {a, b}
    RuntimeTools = {b}
    MaxQueries = 2
    MaxInfers = 2
    Scenarios <- MCScenarios
    NoQuery = none
SPECIFICATION Spec
CHECK_DEADLOCK FALSE
PROPERTIES
    InferenceFinishes
