CONSTANTS
    BackoffLimit = 1
    MaxReady = 1
    MaxEntries = 0
    MaxBacklog = 2
    InitSpecs = {"unnamed", "invalid"}
    Budgets <- Smooth
SPECIFICATION FairSpec
PROPERTIES CompletionRecorded
