--------------------------- MODULE DIJobController ---------------------------
(***************************************************************************)
(* The DIJob controller of the operator: one job, its pods, the pass of    *)
(* the reconciler that compares the two (pkg/controllers/dijob.go and      *)
(* dijob_controller.go), the event handler that counts restarts            *)
(* (pkg/controllers/handler.go), and what surrounds them: the user, the    *)
(* kubelet, and the informer caches the operator reads from.               *)
(*                                                                         *)
(* Reads go to caches that trail the API server, writes go to the API      *)
(* server.  A status write takes the cached object, overwrites its own     *)
(* fields and is refused unless the cached object is the current one; it   *)
(* is retried for a second and then given up.  A pass never returns an     *)
(* error, so nothing is requeued: the next pass comes with the next event  *)
(* or with the periodic resync.                                            *)
(***************************************************************************)
EXTENDS Naturals, Sequences, FiniteSets

CONSTANTS
    NumTasks,        \* tasks the spec of the job may list, in this order
    TaskType,        \* the type of each task
    MaxReplicas,     \* bound on spec.tasks[].replicas
    Preemptible,     \* spec.preemptible
    BackoffLimit,    \* spec.backoffLimit
    CleanPodPolicy,  \* spec.cleanPodPolicy
    Nodes,           \* names of cluster nodes, for status.allocation
    InitWant,        \* spec.tasks[].replicas when the job is submitted
    Wants,           \* what the user may change them to; 0: no such task
    InitAllocation,  \* status.allocation when the controller first sees it
    Allocations,     \* what status.allocation may be changed to
    Lagging,         \* FALSE: a pass starts and lists with caught-up caches
    MaxBacklog,      \* bound on the job versions the handler has not seen
    Budgets          \* how often each kind of disruption may happen, one
                     \* budget for each story a run tells

Tasks == 1..NumTasks
Slots == Tasks \X (0..(MaxReplicas - 1))

Kinds == {"fail", "reject", "evict", "scale", "alloc",
          "fault", "timeout", "crash"}

Replicas(want) == Cardinality({s \in Slots : s[2] < want[s[1]]})

NoNode == "no node"

ASSUME TasksAssumption ==
    /\ NumTasks \in Nat \ {0}
    /\ MaxReplicas \in Nat \ {0}
    /\ TaskType \in [Tasks -> STRING]
ASSUME SpecAssumption ==
    /\ Preemptible \in BOOLEAN
    /\ BackoffLimit \in Nat
    /\ CleanPodPolicy \in {"Running", "All", "None"}
    /\ Wants \subseteq [Tasks -> 0..MaxReplicas]
    /\ InitWant \in [Tasks -> 0..MaxReplicas]
ASSUME AllocationAssumption ==
    /\ NoNode \notin Nodes
    /\ Allocations \subseteq Seq(Nodes)
    /\ InitAllocation \in Seq(Nodes)
ASSUME BoundsAssumption ==
    /\ Lagging \in BOOLEAN
    /\ MaxBacklog \in Nat \ {0}
    /\ Budgets \subseteq [Kinds -> Nat]

VARIABLES
    jobs,    \* versions of the job: the handler has seen up to the first,
             \* the API server holds the last
    seen,    \* index in jobs of the version in the informer cache
    pods,    \* the pods on the API server, by task and local rank
    pcache,  \* the pods in the informer cache
    rec,     \* the pass of the reconciler
    left     \* what is left of the budget of disruptions

vars == <<jobs, seen, pods, pcache, rec, left>>

-----------------------------------------------------------------------------
(* The job.  entries is a history variable: how often the phase became     *)
(* Restarting up to this version.                                          *)

Phases == {"Pending", "Starting", "Running", "Restarting", "Rescheduling",
           "Succeeded", "Failed"}
Terminal == {"Succeeded", "Failed"}

JobVersion == [phase : Phases, restarts : Nat, entries : Nat,
               want : [Tasks -> 0..MaxReplicas], alloc : Seq(Nodes)]

InitJob == [phase |-> "Pending", restarts |-> 0, entries |-> 0,
            want |-> InitWant, alloc |-> InitAllocation]

Latest == jobs[Len(jobs)]
Cached == jobs[seen]
CacheIsFresh == seen = Len(jobs)

\* A write that changes nothing makes no new version.
With(versions, v) ==
    IF v = versions[Len(versions)] THEN versions ELSE Append(versions, v)

\* Mutant: a job that runs again counts its restarts anew.
CountsAnew(v, p) ==
    [v EXCEPT !.phase = p, !.restarts = IF p = "Running" THEN 0 ELSE @,
              !.entries = IF p = "Restarting" /\ v.phase # p THEN @ + 1 ELSE @]

WithPhase(v, p) ==
    [v EXCEPT !.phase = p,
              !.entries = IF p = "Restarting" /\ v.phase # p THEN @ + 1 ELSE @]

-----------------------------------------------------------------------------
(* The pods.  st abstracts status.phase, the container's state and the     *)
(* reason: "Killed" is Failed with exit code 143, "Rejected" is Failed     *)
(* with reason UnexpectedAdmissionError or one that begins with Outof.     *)
(* The phase Unknown, which IsPodFailed takes like Failed, is left out.    *)

PodStates == {"None", "Pending", "Scheduled", "Ready",
              "Succeeded", "Failed", "Killed", "Rejected"}

Pod == [st : PodStates, term : BOOLEAN, rank : Nat, of : Nat,
        node : Nodes \cup {NoNode}]

NoPod == [st |-> "None", term |-> FALSE, rank |-> 0, of |-> 0, node |-> NoNode]

AllPods(p) == {s \in Slots : p[s].st # "None"}
LivePods(p) == {s \in AllPods(p) : ~p[s].term}
InState(p, S, states) == {s \in S : p[s].st \in states}

\* CountReadyPods and CountScheduledPods for pods of one container.
ReadyPods(p) == InState(p, LivePods(p), {"Ready"})
ScheduledPods(p, S) == S \ InState(p, S, {"Pending"})

IsPodFailed(pod) ==
    /\ pod.st \in {"Failed", "Killed"}
    /\ ~(Preemptible /\ pod.st = "Killed")
    /\ ~pod.term

SucceededPods(p, S) == InState(p, S, {"Succeeded"})
FailedPods(p, S) == {s \in S : IsPodFailed(p[s])}

\* BuildPod: allocation[rank] is read when len(allocation) >= rank.
BuildPanics(v, rank) == Preemptible /\ rank = Len(v.alloc)
BuildPod(v, rank) ==
    [st |-> "Pending", term |-> FALSE, rank |-> rank, of |-> Replicas(v.want),
     node |-> IF Preemptible /\ rank < Len(v.alloc) THEN v.alloc[rank + 1]
                                                    ELSE NoNode]

\* Tasks in the order of the spec, and the replicas of a task in turn.
Before(s, t) == s[1] < t[1] \/ (s[1] = t[1] /\ s[2] < t[2])
Desired(v) == {s \in Slots : s[2] < v.want[s[1]]}

-----------------------------------------------------------------------------
(* The pass of the reconciler: job is the object it read, phase the phase  *)
(* it will write, doomed the pods still to delete and missing those still  *)
(* to create, the first of them with global rank next.                     *)

Pass == [pc : {"idle", "list", "work", "panicked"},
         job : JobVersion, phase : Phases,
         doomed : SUBSET Slots,
         swallow : BOOLEAN,        \* deletion goes on after an error
         missing : SUBSET Slots,
         next : Nat,
         undo : BOOLEAN]           \* a failed creation deletes what was built

Idle == [pc |-> "idle", job |-> InitJob, phase |-> "Pending",
         doomed |-> {}, swallow |-> FALSE, missing |-> {}, next |-> 0,
         undo |-> FALSE]

Init ==
    /\ jobs = <<InitJob>>
    /\ seen = 1
    /\ pods = [s \in Slots |-> NoPod]
    /\ pcache = pods
    /\ rec = Idle
    /\ left \in Budgets

Spend(kind) == left[kind] > 0 /\ left' = [left EXCEPT ![kind] = @ - 1]

Set(p) == rec' = [rec EXCEPT !.pc = "work", !.phase = p]
Delete(S, swallow) ==
    rec' = [rec EXCEPT !.pc = "work", !.doomed = S, !.swallow = swallow]
Panic == rec' = [rec EXCEPT !.pc = "panicked"]

\* Mutants: the last restart is not given, or one too many is.
OneRestartShort(v) ==
    IF v.restarts + 1 < BackoffLimit THEN "Restarting" ELSE "Failed"
OneRestartMore(v) ==
    IF v.restarts <= BackoffLimit THEN "Restarting" ELSE "Failed"

\* UpdateJobStatusByBackoffLimit
ByBackoffLimit(v) ==
    IF v.restarts < BackoffLimit THEN "Restarting" ELSE "Failed"

-----------------------------------------------------------------------------
(* Starting a pass: the cached object is read first; writing the default   *)
(* task names then waits until the cache is fresh, or gives up; the pods   *)
(* are listed last.                                                        *)

BeginPass ==
    /\ rec.pc = "idle"
    /\ Lagging \/ Len(jobs) = 1
    /\ rec' = [Idle EXCEPT !.pc = "list", !.job = Cached,
                           !.phase = Cached.phase]
    /\ UNCHANGED <<jobs, seen, pods, pcache, left>>

ListPods ==
    /\ rec.pc = "list"
    /\ Lagging \/ pcache = pods
    /\ \/ CacheIsFresh /\ UNCHANGED left
       \/ ~CacheIsFresh /\ Spend("timeout")
    /\ UNCHANGED <<jobs, seen, pods, pcache>>

Live == LivePods(pcache)
Expected == Replicas(rec.job.want)

\* Mutant: ranks are counted from 1.
CountsFromOne(p) ==
    \/ /\ Preemptible /\ Expected > Len(rec.job.alloc)
       /\ Panic
    \/ /\ ~(Preemptible /\ Expected > Len(rec.job.alloc))
       /\ rec' = [rec EXCEPT !.pc = "work", !.phase = p, !.undo = TRUE,
                             !.missing = Desired(rec.job), !.next = 1]

BuildAndCreatePods(p) ==
    \/ /\ Preemptible /\ Expected > Len(rec.job.alloc)
       /\ Panic
    \/ /\ ~(Preemptible /\ Expected > Len(rec.job.alloc))
       /\ rec' = [rec EXCEPT !.pc = "work", !.phase = p, !.undo = TRUE,
                             !.missing = Desired(rec.job), !.next = 0]

ReconcilePending ==
    /\ rec.job.phase = "Pending"
    /\ ListPods
    /\ \/ /\ Expected # 0 /\ AllPods(pcache) = {}
          /\ BuildAndCreatePods("Pending")
       \/ /\ Expected # 0 /\ AllPods(pcache) # {}
          /\ \/ Cardinality(Live) = Expected /\ Set("Starting")
             \/ /\ Cardinality(Live) # Expected /\ Live # AllPods(pcache)
                /\ Delete(AllPods(pcache), TRUE)
             \/ /\ Cardinality(Live) # Expected /\ Live = AllPods(pcache)
                /\ Set("Pending")
       \/ Expected = 0 /\ Set("Pending")

AllSucceeded == Live # {} /\ SucceededPods(pcache, Live) = Live
SomeFailed == FailedPods(pcache, Live) # {}

CheckPodsCompletion ==
    \/ AllSucceeded /\ Set("Succeeded")
    \/ ~AllSucceeded /\ SomeFailed /\ Set(ByBackoffLimit(rec.job))

\* Mutant: the node of a pod is not compared.
DiffersInNumber(pod) == pod.of # Len(rec.job.alloc)

\* detectReschedule stops at the first pod that differs, in any order.
Differs(pod) ==
    \/ pod.of # Len(rec.job.alloc)
    \/ pod.rank < Len(rec.job.alloc) /\ pod.node # rec.job.alloc[pod.rank + 1]
OutOfRange(pod) == pod.of = Len(rec.job.alloc) /\ pod.rank >= pod.of

\* Mutant: surplus pods are not noticed.
NoticesMissing ==
    IF Preemptible THEN \E s \in Live : Differs(pcache[s])
                   ELSE Cardinality(Live) < Expected

MayReschedule ==
    IF Preemptible THEN \E s \in Live : Differs(pcache[s])
                   ELSE Cardinality(Live) # Expected
MayPanic == Preemptible /\ \E s \in Live : OutOfRange(pcache[s])

\* Mutant: a running job goes straight back to Starting.
SkipsRescheduling ==
    \/ MayReschedule /\ Set("Starting")
    \/ MayPanic /\ Panic

DetectReschedule ==
    \/ MayReschedule /\ Set("Rescheduling")
    \/ MayPanic /\ Panic

ReconcileStarting ==
    /\ rec.job.phase = "Starting"
    /\ ListPods
    /\ \/ CheckPodsCompletion
       \/ /\ ~AllSucceeded /\ ~SomeFailed
          /\ Cardinality(ScheduledPods(pcache, Live)) # Expected
          /\ DetectReschedule
       \/ /\ ~AllSucceeded /\ ~SomeFailed
          /\ \/ Cardinality(ScheduledPods(pcache, Live)) = Expected
             \/ ~MayReschedule /\ ~MayPanic
          /\ Set(IF Cardinality(ReadyPods(pcache)) = Expected
                 THEN "Running" ELSE "Starting")

\* Mutant: a failed job is treated like a running one.
ReconcilesFailed ==
    /\ rec.job.phase \in {"Running", "Failed"}
    /\ ListPods
    /\ \/ CheckPodsCompletion
       \/ ~AllSucceeded /\ ~SomeFailed /\ DetectReschedule
       \/ /\ ~AllSucceeded /\ ~SomeFailed /\ ~MayReschedule /\ ~MayPanic
          /\ Set(rec.job.phase)

ReconcileRunning ==
    /\ rec.job.phase = "Running"
    /\ ListPods
    /\ \/ CheckPodsCompletion
       \/ ~AllSucceeded /\ ~SomeFailed /\ DetectReschedule
       \/ /\ ~AllSucceeded /\ ~SomeFailed /\ ~MayReschedule /\ ~MayPanic
          /\ Set("Running")

\* Of each type as many pods are kept as the last task of that type asks
\* for; which ones, the order of the list decides.
OfType(S, type) == {s \in S : TaskType[s[1]] = type}
TypeNum(v, type) ==
    LET listed == {t \in Tasks : TaskType[t] = type /\ v.want[t] > 0}
    IN  IF listed = {} THEN 0
        ELSE v.want[CHOOSE t \in listed : \A u \in listed : u <= t]

\* Mutant: the limit of a type is off by one.
KeepsOneMore(keep, type) ==
    LET kept == Cardinality(OfType(keep, type))
        num == TypeNum(rec.job, type) + 1
    IN  \/ kept = num
        \/ kept < num /\ OfType(keep, type) = OfType(Live, type)

KeepsEnough(keep, type) ==
    LET kept == Cardinality(OfType(keep, type))
        num == TypeNum(rec.job, type)
    IN  \/ kept = num
        \/ kept < num /\ OfType(keep, type) = OfType(Live, type)

DeleteRedundantReplicas ==
    \E keep \in SUBSET Live :
        /\ \A t \in Tasks : KeepsEnough(keep, TaskType[t])
        /\ Delete(Live \ keep, FALSE)

\* A pod whose local rank the task no longer has ends the pass: what the
\* tasks before it miss has been created by then.
HasStrayReplica(t) ==
    /\ rec.job.want[t] > 0
    /\ \E s \in Live : s[1] = t /\ s[2] >= rec.job.want[t]

\* Mutant: the highest rank in use is given out again.
ReusesMaxRank(doomed) ==
    \E maxGlobalRank \in {0} \cup {pcache[s].rank : s \in Live} :
        /\ \A s \in Live : pcache[s].rank <= maxGlobalRank
        /\ rec' = [rec EXCEPT
                !.pc = "work", !.doomed = doomed, !.swallow = TRUE,
                !.missing = {s \in Desired(rec.job) \ Live :
                                \A t \in 1..s[1] : ~HasStrayReplica(t)},
                !.next = maxGlobalRank]

CreateMissedReplicas(doomed) ==
    \E maxGlobalRank \in {0} \cup {pcache[s].rank : s \in Live} :
        /\ \A s \in Live : pcache[s].rank <= maxGlobalRank
        /\ rec' = [rec EXCEPT
                !.pc = "work", !.doomed = doomed, !.swallow = TRUE,
                !.missing = {s \in Desired(rec.job) \ Live :
                                \A t \in 1..s[1] : ~HasStrayReplica(t)},
                !.next = maxGlobalRank + 1]

\* Mutant: every pod is deleted, not only the failed ones.
RestartsEveryPod ==
    /\ rec.job.phase = "Restarting"
    /\ ListPods
    /\ \/ Cardinality(Live) > Expected /\ DeleteRedundantReplicas
       \/ Cardinality(Live) < Expected /\ CreateMissedReplicas({})
       \/ /\ Cardinality(Live) = Expected
          /\ \/ ~SomeFailed /\ Set("Starting")
             \/ SomeFailed /\ Delete(Live, FALSE)

ReconcileRestarting ==
    /\ rec.job.phase = "Restarting"
    /\ ListPods
    /\ \/ Cardinality(Live) > Expected /\ DeleteRedundantReplicas
       \/ Cardinality(Live) < Expected /\ CreateMissedReplicas({})
       \/ /\ Cardinality(Live) = Expected
          /\ \/ ~SomeFailed /\ Set("Starting")
             \/ SomeFailed /\ Delete(FailedPods(pcache, Live), FALSE)

ReconcileRescheduling ==
    /\ rec.job.phase = "Rescheduling"
    /\ ListPods
    /\ \/ Preemptible /\ Live # {} /\ Delete(Live, TRUE)
       \/ Preemptible /\ Live = {} /\ BuildAndCreatePods("Starting")
       \/ /\ ~Preemptible /\ Cardinality(Live) > Expected
          /\ DeleteRedundantReplicas
       \/ /\ ~Preemptible /\ Cardinality(Live) < Expected
          /\ CreateMissedReplicas(AllPods(pcache) \ Live)
       \/ /\ ~Preemptible /\ Cardinality(Live) = Expected
          /\ Set(IF Expected = 0 THEN "Pending" ELSE "Starting")

\* DeletePodsAndServices, for the pods.
CleanUp ==
    /\ rec.job.phase \in Terminal
    /\ ListPods
    /\ Delete(CASE CleanPodPolicy = "All" -> Live
                 [] CleanPodPolicy = "Running" ->
                        InState(pcache, Live, {"Pending", "Scheduled", "Ready"})
                 [] CleanPodPolicy = "None" -> {},
              FALSE)

-----------------------------------------------------------------------------
(* The calls of a pass, one at a time, and the status write that ends it.  *)

Working == rec.pc = "work"

\* By name and without grace: whatever has the name now is gone at once.
DeletePod ==
    /\ Working
    /\ \E s \in rec.doomed :
        \/ /\ pods' = [pods EXCEPT ![s] = NoPod]
           /\ rec' = [rec EXCEPT !.doomed = @ \ {s}]
           /\ UNCHANGED left
        \/ /\ Spend("fault")
           /\ rec' = IF rec.swallow
                     THEN [rec EXCEPT !.doomed = @ \ {s}]
                     ELSE [rec EXCEPT !.doomed = {}, !.missing = {}]
           /\ UNCHANGED pods
    /\ UNCHANGED <<jobs, seen, pcache>>

FirstMissing == CHOOSE s \in rec.missing :
                    \A t \in rec.missing \ {s} : Before(s, t)

\* A pod of that name that exists already counts as created.
CreatePod ==
    /\ Working /\ rec.doomed = {} /\ rec.missing # {}
    /\ ~BuildPanics(rec.job, rec.next)
    /\ pods' = [pods EXCEPT ![FirstMissing] =
                    IF @.st = "None" THEN BuildPod(rec.job, rec.next) ELSE @]
    /\ rec' = [rec EXCEPT !.missing = @ \ {FirstMissing}, !.next = @ + 1]
    /\ UNCHANGED <<jobs, seen, pcache, left>>

CreateFails ==
    /\ Working /\ rec.doomed = {} /\ rec.missing # {}
    /\ ~BuildPanics(rec.job, rec.next)
    /\ Spend("fault")
    /\ rec' = IF rec.undo
              THEN [rec EXCEPT
                      !.missing = {}, !.doomed = Desired(rec.job),
                      !.swallow = TRUE,
                      !.phase = IF rec.job.phase = "Rescheduling" THEN @
                                ELSE ByBackoffLimit(rec.job)]
              ELSE [rec EXCEPT !.missing = {}]
    /\ UNCHANGED <<jobs, seen, pods, pcache>>

BuildPodPanics ==
    /\ Working /\ rec.doomed = {} /\ rec.missing # {}
    /\ BuildPanics(rec.job, rec.next)
    /\ Panic
    /\ UNCHANGED <<jobs, seen, pods, pcache, left>>

FinishPass ==
    /\ Working /\ rec.doomed = {} /\ rec.missing = {}
    /\ \/ /\ rec.phase = rec.job.phase
          /\ UNCHANGED <<jobs, left>>
       \/ /\ rec.phase # rec.job.phase
          /\ CacheIsFresh /\ Len(jobs) < MaxBacklog
          /\ jobs' = With(jobs, WithPhase(Latest, rec.phase))
          /\ UNCHANGED left
       \/ /\ rec.phase # rec.job.phase
          /\ Spend("timeout")
          /\ UNCHANGED jobs
    /\ rec' = Idle
    /\ UNCHANGED <<seen, pods, pcache>>

-----------------------------------------------------------------------------
(* The update handler takes the versions one by one.  It writes both       *)
(* counters when either changed, restarts as the version it was given has  *)
(* it, whatever the current object holds by then.                          *)

\* Mutants: no handler for Starting -> Restarting, or one for
\* Restarting -> Restarting.
MissesStarting(old, new) ==
    new.phase = "Restarting" /\ old.phase \notin {new.phase, "Starting"}
CountsEveryUpdate(old, new) == new.phase = "Restarting"

CountsRestart(old, new) == new.phase = "Restarting" /\ old.phase # new.phase
CountsReschedule(old, new) ==
    new.phase = "Rescheduling" /\ old.phase \notin {new.phase, "Succeeded"}

\* Mutant: a restart is counted down.
CountsDown(old, new) ==
    IF CountsRestart(old, new) THEN new.restarts - 1 ELSE new.restarts

CountedRestarts(old, new) ==
    IF CountsRestart(old, new) THEN new.restarts + 1 ELSE new.restarts

HandleJobUpdate ==
    /\ seen >= 2
    /\ LET old == jobs[1]
           new == jobs[2]
           writes == CountsRestart(old, new) \/ CountsReschedule(old, new)
       IN  \/ /\ ~writes
              /\ jobs' = Tail(jobs)
              /\ UNCHANGED left
           \/ /\ writes /\ CacheIsFresh
              /\ jobs' = With(Tail(jobs), [Latest EXCEPT
                                  !.restarts = CountedRestarts(old, new)])
              /\ UNCHANGED left
           \/ /\ writes /\ Spend("timeout")
              /\ jobs' = Tail(jobs)
    /\ seen' = seen - 1
    /\ UNCHANGED <<pods, pcache, rec>>

SyncJob ==
    /\ seen < Len(jobs)
    /\ seen' = seen + 1
    /\ UNCHANGED <<jobs, pods, pcache, rec, left>>

\* The list skips to what the API server has by now: it is of one moment, and
\* not of those between two stale ones.
SyncPods ==
    /\ pcache # pods
    /\ pcache' = pods
    /\ UNCHANGED <<jobs, seen, pods, rec, left>>

\* The operator restarts: the pass and the events not handled yet are gone,
\* and the caches are filled from the API server.
Recover ==
    /\ jobs' = <<Latest>> /\ seen' = 1
    /\ pcache' = pods
    /\ rec' = Idle
    /\ UNCHANGED pods

Crash == rec.pc # "panicked" /\ Spend("crash") /\ Recover
Restart == rec.pc = "panicked" /\ Recover /\ UNCHANGED left

-----------------------------------------------------------------------------
(* What surrounds the operator: the kubelet and the scheduler, the user,   *)
(* and whoever writes status.allocation.                                   *)

Move(s, states, st) ==
    /\ pods[s].st \in states /\ ~pods[s].term
    /\ pods' = [pods EXCEPT ![s].st = st]

SchedulePod(s) ==
    /\ Move(s, {"Pending"}, "Scheduled")
    /\ UNCHANGED <<jobs, seen, pcache, rec, left>>

PodGetsReady(s) ==
    /\ Move(s, {"Scheduled"}, "Ready")
    /\ UNCHANGED <<jobs, seen, pcache, rec, left>>

PodCompletes(s) ==
    /\ Move(s, {"Ready"}, "Succeeded")
    /\ UNCHANGED <<jobs, seen, pcache, rec, left>>

PodFails(s) ==
    /\ \E st \in {"Failed", "Killed"} : Move(s, {"Scheduled", "Ready"}, st)
    /\ Spend("fail")
    /\ UNCHANGED <<jobs, seen, pcache, rec>>

NodeRejects(s) ==
    /\ Move(s, {"Pending"}, "Rejected")
    /\ Spend("reject")
    /\ UNCHANGED <<jobs, seen, pcache, rec>>

\* A node is drained or the pod is deleted by somebody else, with grace.
EvictPod(s) ==
    /\ pods[s].st # "None" /\ ~pods[s].term
    /\ pods' = [pods EXCEPT ![s].term = TRUE]
    /\ Spend("evict")
    /\ UNCHANGED <<jobs, seen, pcache, rec>>

ReapPod(s) ==
    /\ pods[s].term
    /\ pods' = [pods EXCEPT ![s] = NoPod]
    /\ UNCHANGED <<jobs, seen, pcache, rec, left>>

Edit(v) ==
    /\ Len(jobs) < MaxBacklog
    /\ v # Latest
    /\ jobs' = Append(jobs, v)
    /\ UNCHANGED <<seen, pods, pcache, rec>>

Scale == \E want \in Wants :
            Edit([Latest EXCEPT !.want = want]) /\ Spend("scale")
Reallocate == \E alloc \in Allocations :
            Edit([Latest EXCEPT !.alloc = alloc]) /\ Spend("alloc")

-----------------------------------------------------------------------------
ReconcileByPhase ==
    \/ ReconcilePending \/ ReconcileStarting \/ ReconcileRunning
    \/ ReconcileRestarting \/ ReconcileRescheduling \/ CleanUp

PassStep ==
    \/ BeginPass \/ ReconcileByPhase
    \/ DeletePod \/ CreatePod \/ CreateFails \/ BuildPodPanics \/ FinishPass

OperatorStep == PassStep \/ HandleJobUpdate \/ SyncJob \/ SyncPods

PodStep(s) ==
    \/ SchedulePod(s) \/ PodGetsReady(s) \/ PodCompletes(s) \/ ReapPod(s)
    \/ PodFails(s) \/ NodeRejects(s) \/ EvictPod(s)

Next ==
    \/ OperatorStep \/ Crash \/ Restart
    \/ \E s \in Slots : PodStep(s)
    \/ Scale \/ Reallocate

Spec == Init /\ [][Next]_vars

\* The worker takes the next pass at the latest with the periodic resync,
\* watches deliver, the operator is restarted after a panic, and the cluster
\* runs the pods; nothing forces a disruption, nor a pod to complete.
Fairness ==
    /\ WF_vars(PassStep) /\ WF_vars(HandleJobUpdate)
    /\ WF_vars(SyncJob) /\ WF_vars(SyncPods) /\ WF_vars(Restart)
    /\ \A s \in Slots : /\ WF_vars(SchedulePod(s))
                        /\ WF_vars(PodGetsReady(s))
                        /\ WF_vars(ReapPod(s))

FairSpec == Spec /\ Fairness

-----------------------------------------------------------------------------
(* Properties.                                                             *)

\* Every variable has the type its declaration gives; what a pass has still
\* to create and delete are replicas the job may have.
TypeOK ==
    /\ jobs \in Seq(JobVersion) /\ Len(jobs) >= 1
    /\ seen \in 1..Len(jobs)
    /\ pods \in [Slots -> Pod] /\ pcache \in [Slots -> Pod]
    /\ rec \in Pass
    /\ left \in [Kinds -> Nat]

\* Two live pods never carry the same global rank: buildAndCreatePods counts
\* from 0, createMissedReplicas from the highest rank it listed.
RanksDistinct ==
    \A s, t \in LivePods(pods) : s # t => pods[s].rank # pods[t].rank

\* The reconciler gives a job up only after it has restarted it as often as
\* spec.backoffLimit allows, however late, lost or repeated the counting is.
NoEarlyFailure ==
    \A i \in 1..Len(jobs) :
        jobs[i].phase = "Failed" => jobs[i].entries >= BackoffLimit

\* The job never restarts more often than spec.backoffLimit.
BackoffRespected == Latest.entries <= BackoffLimit

\* A job that has succeeded or failed stays so.
TerminalAbsorbing ==
    [][Latest.phase \in Terminal => Latest'.phase = Latest.phase]_vars

\* To whoever watches the job, its phase moves as JobLifecycle says.
Lifecycle == INSTANCE JobLifecycle WITH
                phase <- Latest.phase, entries <- Latest.entries
FollowsLifecycle == Lifecycle!Spec

\* Restarts may go uncounted when a write is lost or the operator crashes; the
\* phase still moves along the lifecycle, and no job is given up early.
FollowsLossyLifecycle == Lifecycle!LossySpec

\* How many pods of a type a job wants: the replicas of all its tasks of it.
Wanted(v, type) == Cardinality(OfType(Desired(v), type))

\* Once a job has started, the operator deletes a pod that is ready only while
\* more pods of its type live than the job it has read wants of that type.
ReadyPodsKept ==
    [][DeletePod /\ rec.job.phase \in Phases \ ({"Pending"} \cup Terminal)
        => \A s \in ReadyPods(pods) :
              pods'[s] = NoPod
                => Cardinality(OfType(LivePods(pods), TaskType[s[1]]))
                      > Wanted(rec.job, TaskType[s[1]])]_vars

\* A restart is counted at most once in status.restarts.
RestartsNotOvercounted ==
    \A i \in 1..Len(jobs) : jobs[i].restarts <= jobs[i].entries

\* What the job shows of its restarts never goes down, although the handler
\* writes them from the version it was given, and over a later one.
RestartsNeverFall == [][Latest.restarts <= Latest'.restarts]_vars

\* When the handler has caught up, status.restarts is the number of restarts.
RestartsExact == Len(jobs) = 1 => Latest.restarts = Latest.entries

\* The operator never indexes status.allocation out of range.
NoPanic == rec.pc # "panicked"

\* What makes the operator panic: a job with more replicas than nodes allocated
\* to it, or pods that a restart created with ranks beyond the others.
PanicsExplained ==
    rec.pc = "panicked" => \/ Expected > Len(rec.job.alloc)
                           \/ Latest.entries > 0

\* Over, or going about its work: running, or starting with a replica that
\* was done before the others were ready (the phase then stays Starting).
AsAllocated(pod) ==
    /\ pod.of = Len(Latest.alloc) /\ pod.rank < pod.of
    /\ pod.node = Latest.alloc[pod.rank + 1]

Settled ==
    LET done == SucceededPods(pods, Desired(Latest))
    IN  \/ Latest.phase \in Terminal
        \/ Desired(Latest) = {} /\ LivePods(pods) = {}
        \/ /\ LivePods(pods) = Desired(Latest)
           /\ FailedPods(pods, Desired(Latest)) = {}
           /\ done # Desired(Latest)
           /\ \/ /\ Latest.phase = "Running"
                 /\ Preemptible => \A s \in Desired(Latest) : AsAllocated(pods[s])
              \/ Latest.phase = "Starting" /\ done # {}

\* Where a job stays for good, whatever the passes do: some of its pods exist
\* when it is Pending, and none is terminating;
PendingStuck ==
    /\ Latest.phase = "Pending"
    /\ LivePods(pods) = AllPods(pods) /\ LivePods(pods) # {}
    /\ Cardinality(LivePods(pods)) # Cardinality(Desired(Latest))

\* a pod counts neither as ready nor as failed;
IgnoredStuck ==
    \E s \in LivePods(pods) :
        \/ pods[s].st = "Rejected"
        \/ pods[s].st = "Killed" /\ Preemptible

\* a replica the spec no longer has stays while others are missing;
StrayStuck ==
    /\ Latest.phase \in {"Restarting", "Rescheduling"}
    /\ LivePods(pods) \ Desired(Latest) # {}
    /\ Cardinality(LivePods(pods)) < Cardinality(Desired(Latest))

\* the pods have the right number, but are other tasks' replicas; or the job
\* is preemptible, where the number is not looked at.
MisplacedStuck ==
    /\ Latest.phase \in {"Starting", "Running"}
    /\ LivePods(pods) # Desired(Latest)
    /\ Preemptible \/ Cardinality(LivePods(pods)) = Cardinality(Desired(Latest))

Stuck == PendingStuck \/ IgnoredStuck \/ StrayStuck \/ MisplacedStuck

\* Once the disruptions are over, the job settles, or it is stuck in one of
\* the ways above, or the operator panics over and over again.
SettlesOrStuck ==
    \/ <>[](Settled \/ Stuck)
    \/ []<>(rec.pc = "panicked")

-----------------------------------------------------------------------------
(* What comments, docs and tests say of the program, and it does not do.   *)

\* "After di-operator creates the workers, DIJob enters the Starting phase":
\* a job that wants replicas does not stay Pending.
PendingProgresses == Latest.phase = "Pending" ~> Latest.phase # "Pending"

\* "When all workers are Succeeded, DIJob enters Succeeded phase": not while
\* one of them is listed and still at work.
SucceededMeansAll ==
    [][rec.pc = "list" /\ rec'.pc = "work" /\ rec'.phase = "Succeeded"
        => rec.job.phase = "Succeeded"
           \/ \A s \in Desired(rec.job) :
                pcache[s].st \notin {"Pending", "Scheduled", "Ready"}]_vars
=============================================================================
