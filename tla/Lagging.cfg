CONSTANTS
    NumTasks = 1
    TaskType <- OneTask
    MaxReplicas = 2
    Preemptible = FALSE
    BackoffLimit = 1
    CleanPodPolicy = "Running"
    Nodes = {}
    InitWant <- TwoReplicas
    Wants <- OneOrTwo
    InitAllocation <- NoAllocation
    Allocations <- NeverReallocated
    Lagging = TRUE
    MaxBacklog = 3
    Budgets <- OneTrouble
SPECIFICATION FairSpec
INVARIANTS RestartsNotOvercounted NoEarlyFailure
PROPERTIES SettlesOrStuck
