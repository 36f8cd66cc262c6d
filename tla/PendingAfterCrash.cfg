CONSTANTS
    NumTasks = 1
    TaskType <- OneTask
    MaxReplicas = 2
    Preemptible = FALSE
    BackoffLimit = 1
    CleanPodPolicy = "Running"
    Nodes = {}
    InitWant <- TwoReplicas
    Wants <- NeverScaled
    InitAllocation <- NoAllocation
    Allocations <- NeverReallocated
    Lagging = FALSE
    MaxBacklog = 3
    Budgets <- OneCrash
SPECIFICATION FairSpec
PROPERTIES PendingProgresses
