CONSTANTS
    NumTasks = 1
    TaskType <- OneTask
    MaxReplicas = 2
    Preemptible = FALSE
    BackoffLimit = 1
    CleanPodPolicy = "Running"
    Nodes = {}
    InitWant <- OneReplica
    Wants <- OneOrTwo
    InitAllocation <- NoAllocation
    Allocations <- NeverReallocated
    Lagging = FALSE
    MaxBacklog = 3
    Budgets <- Troubles
SPECIFICATION FairServerSpec
INVARIANTS ServerTypeOK SteadyAnswers
PROPERTIES FollowsLossyLifecycle RestartsNeverFall ServiceKept RunningIsServed ServiceRemoved RunningIsAnswered
