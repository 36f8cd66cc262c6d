CONSTANTS
    BackoffLimit = 1
    MaxReady = 1
    MaxEntries = 1
    MaxBacklog = 2
    InitSpecs = {"unnamed", "invalid"}
    Budgets <- OneTrouble
SPECIFICATION FairSpec
INVARIANTS TypeOK ConditionFollowsPhase CountsSound
PROPERTIES EndsUnready InvalidFails
