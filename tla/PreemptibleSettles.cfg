CONSTANTS
    NumTasks = 1
    TaskType <- OneTask
    MaxReplicas = 2
    Preemptible = TRUE
    BackoffLimit = 1
    CleanPodPolicy = "Running"
    Nodes = {"a", "b"}
    InitWant <- TwoReplicas
    Wants <- NeverScaled
    InitAllocation <- BothNodes
    Allocations <- SwappedOrShort
    Lagging = TRUE
    MaxBacklog = 3
    Budgets <- FailureAndReallocation
SPECIFICATION FairSpec
INVARIANTS PanicsExplained
PROPERTIES SettlesOrStuck
