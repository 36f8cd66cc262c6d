CONSTANTS
    BackoffLimit = 1
    MaxReady = 1
    MaxEntries = 0
    MaxBacklog = 3
    InitSpecs = {"unnamed", "invalid"}
    Budgets <- OneEdit
SPECIFICATION Spec
PROPERTIES RejectsOnlyInvalid
