CONSTANTS
    NumTasks = 2
    TaskType <- TwoTasks
    MaxReplicas = 2
    Preemptible = FALSE
    BackoffLimit = 1
    CleanPodPolicy = "Running"
    Nodes = {}
    InitWant <- OneEach
    Wants <- MovedGrownOrGone
    InitAllocation <- NoAllocation
    Allocations <- NeverReallocated
    Lagging = FALSE
    MaxBacklog = 3
    Budgets <- FailuresOrScaling
SPECIFICATION FairSpec
INVARIANTS TypeOK RanksDistinct BackoffRespected RestartsExact
PROPERTIES TerminalAbsorbing ReadyPodsKept FollowsLifecycle SettlesOrStuck
