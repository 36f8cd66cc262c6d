CONSTANTS
    NumTasks = 1
    TaskType <- OneTask
    MaxReplicas = 2
    Preemptible = TRUE
    BackoffLimit = 1
    CleanPodPolicy = "Running"
    Nodes = {"a", "b"}
    InitWant <- TwoReplicas
    Wants <- NeverScaled
    InitAllocation <- NoAllocation
    Allocations <- NeverReallocated
    Lagging = FALSE
    MaxBacklog = 3
    Budgets <- Undisturbed
SPECIFICATION Spec
INVARIANTS NoPanic
