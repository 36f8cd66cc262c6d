CONSTANTS
    Jobs = {"a", "b"}
    Period = 10
    ResyncPeriods <- JitteredPeriods
    Budgets <- CreateDeleteFail
SPECIFICATION FairSpec
INVARIANTS TypeOK SlotInTime
PROPERTIES LoneJobOptimized
