------------------------ MODULE DIJobControllerProofs ------------------------
(***************************************************************************)
(* What holds of DIJobController for every value of its constants.         *)
(***************************************************************************)
EXTENDS DIJobController, FiniteSetTheorems, SequenceTheorems, TLAPS

-----------------------------------------------------------------------------
(* The operators return what they are meant to.                            *)

\* The replicas a spec asks for are finitely many.
LEMMA ReplicasNat == \A want : Replicas(want) \in Nat
<1>1. IsFiniteSet(Slots)
  <2>1. IsFiniteSet(1..NumTasks) /\ IsFiniteSet(0..(MaxReplicas - 1))
    BY FS_Interval, TasksAssumption
  <2>2. QED BY <2>1, FS_Product DEF Slots, Tasks
<1>2. QED BY <1>1, FS_Subset, FS_CardinalityType DEF Replicas

\* The job as submitted is a job.
LEMMA InitJobType == InitJob \in JobVersion
BY SpecAssumption, AllocationAssumption DEF InitJob, JobVersion, Phases

\* The versions the API server and the cache hold are jobs.
LEMMA VersionTypes ==
    ASSUME TypeOK
    PROVE  Latest \in JobVersion /\ Cached \in JobVersion
BY ElementOfSeq DEF TypeOK, Latest, Cached

\* A write appends at most one version.
LEMMA WithType ==
    ASSUME NEW versions \in Seq(JobVersion), Len(versions) >= 1,
           NEW v \in JobVersion
    PROVE  /\ With(versions, v) \in Seq(JobVersion)
           /\ Len(With(versions, v)) \in {Len(versions), Len(versions) + 1}
           /\ With(versions, v)[Len(With(versions, v))] = v
           /\ \A i \in 1..Len(versions) : With(versions, v)[i] = versions[i]
BY AppendProperties DEF With

\* Writing the phase makes a job of a job.
LEMMA WithPhaseType ==
    ASSUME NEW v \in JobVersion, NEW p \in Phases
    PROVE  WithPhase(v, p) \in JobVersion
<1>1. CASE p = "Restarting" /\ v.phase # p
  <2>1. WithPhase(v, p) = [v EXCEPT !.phase = p, !.entries = v.entries + 1]
    BY <1>1 DEF WithPhase
  <2>2. v.entries + 1 \in Nat
    BY DEF JobVersion
  <2>3. QED BY <2>1, <2>2 DEF JobVersion
<1>2. CASE ~(p = "Restarting" /\ v.phase # p)
  <2>1. WithPhase(v, p) = [v EXCEPT !.phase = p, !.entries = v.entries]
    BY <1>2 DEF WithPhase
  <2>2. QED BY <2>1 DEF JobVersion
<1>3. QED BY <1>1, <1>2

\* What BuildPod builds is a pod.
LEMMA BuildPodType ==
    ASSUME NEW v \in JobVersion, NEW rank \in Nat
    PROVE  BuildPod(v, rank) \in Pod
<1>1. ASSUME rank < Len(v.alloc)
      PROVE  v.alloc[rank + 1] \in Nodes
  BY <1>1, ElementOfSeq DEF JobVersion
<1>2. QED BY <1>1, ReplicasNat DEF BuildPod, Pod, PodStates, JobVersion

\* There is a pod's worth of nothing.
LEMMA NoPodType == NoPod \in Pod
BY DEF NoPod, Pod, PodStates

\* An idle reconciler is a pass.
LEMMA IdleType == Idle \in Pass
BY InitJobType DEF Idle, Pass, Phases

\* The phase a failure leads to is a phase.
LEMMA ByBackoffLimitType == \A v : ByBackoffLimit(v) \in Phases
BY DEF ByBackoffLimit, Phases

\* The pods of a listing are slots.
LEMMA PodSetTypes ==
    \A p : AllPods(p) \subseteq Slots /\ LivePods(p) \subseteq Slots
BY DEF AllPods, LivePods

\* What planning does to a pass: the job that was read is kept, the plan is to
\* fail it only when its restarts have reached the limit, and pods are created
\* from a rank above those of all pods listed.
PlanMade ==
    /\ rec' \in Pass
    /\ rec'.job = rec.job
    /\ rec'.phase = "Failed" => \/ rec.phase = "Failed"
                                \/ rec.job.restarts >= BackoffLimit
    /\ \/ rec'.missing = rec.missing
       \/ \A s \in Live : pcache[s].rank < rec'.next

\* Deciding on a phase is a plan, if giving up is decided at the limit.
LEMMA SetPlans ==
    ASSUME rec \in Pass, NEW p \in Phases, Set(p),
           p = "Failed" => rec.job.restarts >= BackoffLimit
    PROVE  PlanMade
BY DEF Set, Pass, PlanMade

\* Deciding to delete pods is a plan.
LEMMA DeletePlans ==
    ASSUME rec \in Pass, NEW S \in SUBSET Slots, NEW b \in BOOLEAN, Delete(S, b)
    PROVE  PlanMade
BY DEF Delete, Pass, PlanMade

\* A panic leaves the plan as it was.
LEMMA PanicPlans ==
    ASSUME rec \in Pass, Panic
    PROVE  PlanMade
BY DEF Panic, Pass, PlanMade

\* What is left of the budget stays a number.
LEMMA SpendType ==
    ASSUME left \in [Kinds -> Nat], NEW k \in Kinds, Spend(k)
    PROVE  left' \in [Kinds -> Nat]
BY DEF Spend

-----------------------------------------------------------------------------
(* Type correctness.                                                       *)

\* Listing the pods leaves everything but the pass and the budget alone.
LEMMA ListPodsType ==
    ASSUME TypeOK, ListPods
    PROVE  /\ left' \in [Kinds -> Nat]
           /\ UNCHANGED <<jobs, seen, pods, pcache>>
BY SpendType DEF TypeOK, ListPods, Kinds

\* Whatever the phase, a pass that has listed the pods makes a plan.
LEMMA ReconcilePlans ==
    ASSUME TypeOK, ReconcileByPhase
    PROVE  ListPods /\ PlanMade
<1>1. /\ rec \in Pass /\ rec.phase \in Phases /\ rec.job \in JobVersion
      /\ pcache \in [Slots -> Pod]
  BY DEF TypeOK, Pass
<1>2. Live \subseteq Slots /\ AllPods(pcache) \subseteq Slots
      /\ Live \subseteq AllPods(pcache)
  BY DEF Live, LivePods, AllPods
<1>3. {"Pending", "Starting", "Running", "Restarting", "Rescheduling",
       "Succeeded", "Failed"} \subseteq Phases
  BY DEF Phases
<1>4. Desired(rec.job) \in SUBSET Slots
  BY DEF Desired
<1>5. ASSUME NEW p \in Phases, p # "Failed", BuildAndCreatePods(p), Live = {}
      PROVE  PlanMade
  <2>1. CASE Panic
    BY <2>1, <1>1, PanicPlans
  <2>2. CASE rec' = [rec EXCEPT !.pc = "work", !.phase = p, !.undo = TRUE,
                                !.missing = Desired(rec.job), !.next = 0]
    BY <1>1, <1>4, <1>5, <2>2 DEF Pass, PlanMade
  <2>3. QED BY <1>5, <2>1, <2>2 DEF BuildAndCreatePods
<1>6. ASSUME CheckPodsCompletion
      PROVE  PlanMade
  <2>1. rec.job.restarts \in Nat
    BY <1>1 DEF JobVersion
  <2>2. CASE rec.job.restarts < BackoffLimit
    <3>1. ByBackoffLimit(rec.job) = "Restarting"
      BY <2>2 DEF ByBackoffLimit
    <3>2. QED BY <1>1, <1>3, <1>6, <3>1, SetPlans DEF CheckPodsCompletion
  <2>3. CASE ~(rec.job.restarts < BackoffLimit)
    <3>1. rec.job.restarts >= BackoffLimit
      BY <2>1, <2>3, SpecAssumption
    <3>2. QED BY <1>1, <1>3, <1>6, <3>1, SetPlans, ByBackoffLimitType
              DEF CheckPodsCompletion
  <2>4. QED BY <2>2, <2>3
<1>7. ASSUME DetectReschedule
      PROVE  PlanMade
  BY <1>7, <1>1, <1>3, SetPlans, PanicPlans DEF DetectReschedule
<1>8. ASSUME DeleteRedundantReplicas
      PROVE  PlanMade
  BY <1>8, <1>1, <1>2, DeletePlans DEF DeleteRedundantReplicas
<1>9. ASSUME NEW S \in SUBSET Slots, CreateMissedReplicas(S)
      PROVE  PlanMade
  <2> DEFINE missing == {s \in Desired(rec.job) \ Live :
                            \A t \in 1..s[1] : ~HasStrayReplica(t)}
  <2>1. missing \in SUBSET Slots
    BY <1>4
  <2>2. PICK m \in {0} \cup {pcache[s].rank : s \in Live} :
           /\ \A s \in Live : pcache[s].rank <= m
           /\ rec' = [rec EXCEPT !.pc = "work", !.doomed = S, !.swallow = TRUE,
                                 !.missing = missing, !.next = m + 1]
    BY <1>9 DEF CreateMissedReplicas
  <2>3. \A s \in Live : pcache[s].rank \in Nat
    BY <1>1, <1>2 DEF Pod
  <2>4. m \in Nat /\ m + 1 \in Nat
    BY <2>3
  <2> HIDE DEF missing
  <2>5. PICK n \in Nat :
           /\ n = m + 1
           /\ rec' = [rec EXCEPT !.pc = "work", !.doomed = S, !.swallow = TRUE,
                                 !.missing = missing, !.next = n]
    BY <2>2, <2>4
  <2>6. /\ rec' \in Pass /\ rec'.job = rec.job /\ rec'.phase = rec.phase
        /\ rec'.next = n
    BY <2>1, <2>5, <1>1 DEF Pass
  <2>7. \A s \in Live : pcache[s].rank < n
    BY <2>2, <2>3, <2>4, <2>5
  <2>8. QED BY <2>6, <2>7 DEF PlanMade
<1>10. CASE ReconcilePending
  BY <1>10, <1>1, <1>2, <1>3, <1>5, SetPlans, DeletePlans DEF ReconcilePending
<1>11. CASE ReconcileStarting
  BY <1>11, <1>1, <1>3, <1>6, <1>7, SetPlans DEF ReconcileStarting
<1>12. CASE ReconcileRunning
  BY <1>12, <1>1, <1>3, <1>6, <1>7, SetPlans DEF ReconcileRunning
<1>13. CASE ReconcileRestarting
  <2>1. FailedPods(pcache, Live) \in SUBSET Slots
    BY <1>2 DEF FailedPods
  <2>2. QED BY <1>13, <1>1, <1>3, <1>8, <1>9, <2>1, SetPlans, DeletePlans
            DEF ReconcileRestarting
<1>14. CASE ReconcileRescheduling
  BY <1>14, <1>1, <1>2, <1>3, <1>5, <1>8, <1>9, SetPlans, DeletePlans
     DEF ReconcileRescheduling
<1>15. CASE CleanUp
  <2>1. InState(pcache, Live, {"Pending", "Scheduled", "Ready"}) \in SUBSET Slots
    BY <1>2 DEF InState
  <2>2. QED BY <1>15, <1>1, <1>2, <2>1, DeletePlans, SpecAssumption DEF CleanUp
<1>16. QED
  BY <1>10, <1>11, <1>12, <1>13, <1>14, <1>15
     DEF ReconcileByPhase, ReconcilePending, ReconcileStarting, ReconcileRunning,
         ReconcileRestarting, ReconcileRescheduling, CleanUp

\* The work of a pass changes pods and what is left of the work, and ends by
\* making at most one new version of the job.
LEMMA PassStepType ==
    ASSUME TypeOK, PassStep
    PROVE  TypeOK'
<1> USE DEF TypeOK
<1>1. rec \in Pass /\ rec.job \in JobVersion /\ rec.phase \in Phases
  BY DEF Pass
<1>2. CASE BeginPass
  <2>1. Cached \in JobVersion /\ Cached.phase \in Phases
    BY VersionTypes DEF JobVersion
  <2>2. rec' \in Pass
    BY <1>2, <2>1, IdleType DEF BeginPass, Pass
  <2>3. QED BY <1>2, <2>2 DEF BeginPass
<1>3. CASE ReconcileByPhase
  BY <1>3, ReconcilePlans, ListPodsType DEF PlanMade
<1>4. CASE DeletePod
  <2>1. PICK s \in rec.doomed :
          \/ /\ pods' = [pods EXCEPT ![s] = NoPod]
             /\ rec' = [rec EXCEPT !.doomed = @ \ {s}]
             /\ UNCHANGED left
          \/ /\ Spend("fault")
             /\ \/ rec' = [rec EXCEPT !.doomed = @ \ {s}]
                \/ rec' = [rec EXCEPT !.doomed = {}, !.missing = {}]
             /\ UNCHANGED pods
    BY <1>4 DEF DeletePod
  <2>2. s \in Slots
    BY <1>1 DEF Pass
  <2>3. rec' \in Pass
    BY <2>1, <1>1 DEF Pass
  <2>4. pods' \in [Slots -> Pod]
    BY <2>1, <2>2, NoPodType
  <2>5. left' \in [Kinds -> Nat]
    BY <2>1, SpendType DEF Kinds
  <2>6. QED BY <1>4, <2>3, <2>4, <2>5 DEF DeletePod
<1>5. CASE CreatePod
  <2> DEFINE f == FirstMissing
             built == IF pods[f].st = "None" THEN BuildPod(rec.job, rec.next)
                                             ELSE pods[f]
  <2>1. rec.next \in Nat /\ rec.missing \subseteq Slots
    BY <1>1 DEF Pass
  <2>2. rec' = [rec EXCEPT !.missing = @ \ {f}, !.next = @ + 1]
    BY <1>5 DEF CreatePod
  <2>3. pods' = [pods EXCEPT ![f] = built]
    BY <1>5 DEF CreatePod
  <2>4. f \in Slots => built \in Pod
    BY <2>1, <1>1, BuildPodType
  <2> HIDE DEF f, built
  <2>5. pods' \in [Slots -> Pod]
    BY <2>3, <2>4
  <2>6. rec.next + 1 \in Nat
    BY <2>1
  <2>7. rec' \in Pass
    BY <2>1, <2>2, <2>6, <1>1 DEF Pass
  <2>8. QED BY <1>5, <2>5, <2>7 DEF CreatePod
<1>6. CASE CreateFails
  <2>1. Desired(rec.job) \in SUBSET Slots
    BY DEF Desired
  <2>2. PICK p \in Phases :
          \/ rec' = [rec EXCEPT !.missing = {}, !.doomed = Desired(rec.job),
                                !.swallow = TRUE, !.phase = p]
          \/ rec' = [rec EXCEPT !.missing = {}]
    BY <1>6, <1>1, ByBackoffLimitType DEF CreateFails
  <2>3. rec' \in Pass
    BY <1>1, <2>1, <2>2 DEF Pass
  <2>4. left' \in [Kinds -> Nat]
    BY <1>6, SpendType DEF CreateFails, Kinds
  <2>5. QED BY <1>6, <2>3, <2>4 DEF CreateFails
<1>7. CASE BuildPodPanics
  BY <1>7, PanicPlans DEF BuildPodPanics, PlanMade
<1>8. CASE FinishPass
  <2>1. left' \in [Kinds -> Nat]
    BY <1>8, SpendType DEF FinishPass, Kinds
  <2>2. jobs' \in Seq(JobVersion) /\ Len(jobs') >= Len(jobs)
    <3>1. WithPhase(Latest, rec.phase) \in JobVersion
      BY <1>1, VersionTypes, WithPhaseType
    <3>2. jobs' = jobs \/ jobs' = With(jobs, WithPhase(Latest, rec.phase))
      BY <1>8 DEF FinishPass
    <3>3. QED BY <3>1, <3>2, WithType
  <2>3. QED BY <1>8, <2>1, <2>2, IdleType DEF FinishPass
<1>9. QED
  BY <1>2, <1>3, <1>4, <1>5, <1>6, <1>7, <1>8 DEF PassStep

\* Handling an update drops the oldest version and may add one.
LEMMA HandleJobUpdateType ==
    ASSUME TypeOK, HandleJobUpdate
    PROVE  TypeOK'
<1> USE DEF TypeOK
<1> DEFINE counted == [Latest EXCEPT !.restarts =
                                CountedRestarts(jobs[1], jobs[2])]
<1>1. Len(jobs) >= 2 /\ seen - 1 \in 1..(Len(jobs) - 1)
  BY DEF HandleJobUpdate
<1>2. counted \in JobVersion
  <2>1. jobs[2] \in JobVersion /\ Latest \in JobVersion
    BY <1>1, ElementOfSeq, VersionTypes
  <2>2. jobs[2].restarts \in Nat
    BY <2>1 DEF JobVersion
  <2>3. CountedRestarts(jobs[1], jobs[2]) \in {jobs[2].restarts,
                                                jobs[2].restarts + 1}
    BY DEF CountedRestarts
  <2>4. CountedRestarts(jobs[1], jobs[2]) \in Nat
    BY <2>2, <2>3
  <2>5. QED BY <2>1, <2>4 DEF JobVersion
<1>3. jobs' \in {Tail(jobs), With(Tail(jobs), counted)}
  BY DEF HandleJobUpdate
<1> HIDE DEF counted
<1>4. jobs' \in Seq(JobVersion) /\ Len(jobs') >= Len(jobs) - 1
  <2> DEFINE t == Tail(jobs)
             w == With(t, counted)
  <2>1. t \in Seq(JobVersion) /\ Len(t) = Len(jobs) - 1
    BY <1>1, HeadTailProperties
  <2>2. Len(t) \in Nat /\ Len(t) >= 1
    BY <1>1, <2>1
  <2> HIDE DEF t
  <2>3. w \in Seq(JobVersion) /\ Len(w) \in {Len(t), Len(t) + 1}
    BY <1>2, <2>1, <2>2, WithType
  <2> HIDE DEF w
  <2>4. jobs' \in {t, w}
    BY <1>3 DEF t, w
  <2>5. QED BY <2>1, <2>2, <2>3, <2>4
<1>5. left' \in [Kinds -> Nat]
  BY SpendType DEF HandleJobUpdate, Kinds
<1>6. QED BY <1>1, <1>4, <1>5 DEF HandleJobUpdate

\* The caches catch up, or the operator starts anew.
LEMMA RecoverType ==
    ASSUME TypeOK, Recover, left' \in [Kinds -> Nat]
    PROVE  TypeOK'
BY VersionTypes, IdleType DEF TypeOK, Recover

\* The kubelet moves pods through their states.
LEMMA PodStepType ==
    ASSUME TypeOK, NEW s \in Slots, PodStep(s)
    PROVE  TypeOK'
<1> USE DEF TypeOK
<1>1. ASSUME NEW states, NEW st \in PodStates, Move(s, states, st)
      PROVE  pods' \in [Slots -> Pod]
  BY <1>1 DEF Move, Pod
<1>2. ASSUME NEW k \in Kinds, Spend(k)
      PROVE  left' \in [Kinds -> Nat]
  BY <1>2, SpendType
<1>3. {"Scheduled", "Ready", "Succeeded", "Failed", "Killed", "Rejected"}
        \subseteq PodStates
  BY DEF PodStates
<1>4. "fail" \in Kinds /\ "reject" \in Kinds /\ "evict" \in Kinds
  BY DEF Kinds
<1>5. CASE SchedulePod(s) BY <1>5, <1>1, <1>3 DEF SchedulePod
<1>6. CASE PodGetsReady(s) BY <1>6, <1>1, <1>3 DEF PodGetsReady
<1>7. CASE PodCompletes(s) BY <1>7, <1>1, <1>3 DEF PodCompletes
<1>8. CASE PodFails(s) BY <1>8, <1>1, <1>2, <1>3, <1>4 DEF PodFails
<1>9. CASE NodeRejects(s) BY <1>9, <1>1, <1>2, <1>3, <1>4 DEF NodeRejects
<1>10. CASE EvictPod(s)
  <2>1. pods' \in [Slots -> Pod]
    BY <1>10 DEF EvictPod, Pod
  <2>2. QED BY <1>10, <2>1, <1>2, <1>4 DEF EvictPod
<1>11. CASE ReapPod(s)
  BY <1>11, NoPodType DEF ReapPod
<1>12. QED
  BY <1>5, <1>6, <1>7, <1>8, <1>9, <1>10, <1>11 DEF PodStep

\* An edit makes a new version.
LEMMA EditType ==
    ASSUME TypeOK, NEW v \in JobVersion, Edit(v), NEW k \in Kinds, Spend(k)
    PROVE  TypeOK'
BY AppendProperties, SpendType DEF TypeOK, Edit

\* Every step keeps every variable's type.
LEMMA StepType ==
    ASSUME TypeOK, [Next]_vars
    PROVE  TypeOK'
<1>1. CASE PassStep BY <1>1, PassStepType
<1>2. CASE HandleJobUpdate BY <1>2, HandleJobUpdateType
<1>3. CASE SyncJob BY <1>3 DEF SyncJob, TypeOK
<1>4. CASE SyncPods BY <1>4 DEF SyncPods, TypeOK
<1>5. CASE Crash
  BY <1>5, SpendType, RecoverType DEF Crash, TypeOK, Kinds
<1>6. CASE Restart
  BY <1>6, RecoverType DEF Restart, TypeOK
<1>7. CASE \E s \in Slots : PodStep(s) BY <1>7, PodStepType
<1>8. CASE Scale
  <2>1. PICK want \in Wants : Edit([Latest EXCEPT !.want = want])
    BY <1>8 DEF Scale
  <2>2. [Latest EXCEPT !.want = want] \in JobVersion
    BY VersionTypes, SpecAssumption DEF JobVersion
  <2>3. QED BY <1>8, <2>1, <2>2, EditType DEF Scale, Kinds
<1>9. CASE Reallocate
  <2>1. PICK alloc \in Allocations : Edit([Latest EXCEPT !.alloc = alloc])
    BY <1>9 DEF Reallocate
  <2>2. [Latest EXCEPT !.alloc = alloc] \in JobVersion
    BY VersionTypes, AllocationAssumption DEF JobVersion
  <2>3. QED BY <1>9, <2>1, <2>2, EditType DEF Reallocate, Kinds
<1>10. CASE UNCHANGED vars BY <1>10 DEF vars, TypeOK
<1>11. QED
  BY <1>1, <1>2, <1>3, <1>4, <1>5, <1>6, <1>7, <1>8, <1>9, <1>10
     DEF Next, OperatorStep

\* Types hold at the start.
LEMMA InitType == Init => TypeOK
<1> SUFFICES ASSUME Init PROVE TypeOK
  OBVIOUS
<1>1. jobs \in Seq(JobVersion) /\ Len(jobs) = 1
  BY InitJobType DEF Init
<1>2. QED BY <1>1, NoPodType, IdleType, BoundsAssumption DEF Init, TypeOK

\* Every variable keeps its type, for every job and every bound.
THEOREM TypeCorrect == Spec => []TypeOK
<1>1. TypeOK /\ [Next]_vars => TypeOK'
  BY StepType
<1>2. QED BY <1>1, InitType, PTL DEF Spec

-----------------------------------------------------------------------------
(* Counting restarts.  Versions are pending for the handler, so the number *)
(* of restarts a job may have been given is read off the oldest of them.   *)

\* The versions in order: no more restarts are counted than the handler has
\* seen, the number of restarts never falls and rises with each of them, and
\* a job has failed only with its limit used up.
Counted(versions) ==
    /\ \A i \in 1..Len(versions) : versions[i].restarts <= versions[1].entries
    /\ \A i, j \in 1..Len(versions) :
            i <= j => versions[i].entries <= versions[j].entries
    /\ \A i \in 1..(Len(versions) - 1) :
            CountsRestart(versions[i], versions[i + 1])
                => versions[i].entries < versions[i + 1].entries
    /\ \A i \in 1..Len(versions) :
            versions[i].phase = "Failed" => versions[i].entries >= BackoffLimit

\* What the pass knows is no later than what the handler has seen.
CountInv ==
    /\ Counted(jobs)
    /\ rec.job.restarts <= jobs[1].entries
    /\ rec.phase = "Failed" /\ rec.job.phase # "Failed"
            => jobs[1].entries >= BackoffLimit

\* A version may follow another one.
Follows(v, u, first) ==
    /\ v.restarts <= first.entries
    /\ u.entries <= v.entries
    /\ CountsRestart(u, v) => u.entries < v.entries
    /\ v.phase = "Failed" => v.entries >= BackoffLimit

\* The entries of the versions are numbers.
LEMMA EntriesNat ==
    ASSUME NEW versions \in Seq(JobVersion), NEW i \in 1..Len(versions)
    PROVE  versions[i].entries \in Nat /\ versions[i].restarts \in Nat
<1>1. versions[i] \in JobVersion
  BY ElementOfSeq
<1>2. QED BY <1>1 DEF JobVersion

\* Writing a version that may follow the last one keeps the versions counted.
LEMMA WithCounted ==
    ASSUME NEW versions \in Seq(JobVersion), Len(versions) >= 1,
           Counted(versions), NEW v \in JobVersion,
           Follows(v, versions[Len(versions)], versions[1])
    PROVE  /\ Counted(With(versions, v))
           /\ With(versions, v)[1] = versions[1]
<1> DEFINE w == With(versions, v)
           n == Len(versions)
<1>1. CASE w = versions
  BY <1>1
<1>2. CASE w # versions
  <2>1. /\ w \in Seq(JobVersion) /\ n \in Nat /\ Len(w) = n + 1
        /\ w[n + 1] = v
        /\ \A i \in 1..n : w[i] = versions[i]
    BY <1>2, AppendProperties DEF With
  <2> HIDE DEF w
  <2>2. \A i \in 1..n : versions[i].entries \in Nat
    BY EntriesNat
  <2>3. v.entries \in Nat
    BY DEF JobVersion
  <2>4. \A i \in 1..Len(w) : w[i].restarts <= w[1].entries
    BY <2>1 DEF Counted, Follows
  <2>5. ASSUME NEW i \in 1..Len(w), NEW j \in 1..Len(w), i <= j
        PROVE  w[i].entries <= w[j].entries
    <3>1. CASE j \in 1..n
      BY <2>1, <2>5, <3>1 DEF Counted
    <3>2. CASE j = n + 1 /\ i \in 1..n
      <4>1. versions[i].entries <= versions[n].entries
        BY <2>1, <3>2 DEF Counted
      <4>2. QED BY <2>1, <2>2, <2>3, <3>2, <4>1 DEF Follows
    <3>3. CASE i = n + 1 /\ j = n + 1
      BY <2>1, <2>3, <3>3
    <3>4. QED BY <2>1, <2>5, <3>1, <3>2, <3>3
  <2>6. ASSUME NEW i \in 1..(Len(w) - 1), CountsRestart(w[i], w[i + 1])
        PROVE  w[i].entries < w[i + 1].entries
    <3>1. CASE i \in 1..(n - 1)
      BY <2>1, <2>6, <3>1 DEF Counted
    <3>2. CASE i = n
      BY <2>1, <2>6, <3>2 DEF Follows
    <3>3. QED BY <2>1, <3>1, <3>2
  <2>7. \A i \in 1..Len(w) :
            w[i].phase = "Failed" => w[i].entries >= BackoffLimit
    BY <2>1 DEF Counted, Follows
  <2>8. Counted(w)
    BY <2>4, <2>5, <2>6, <2>7 DEF Counted
  <2>9. QED BY <2>1, <2>8 DEF w
<1>3. QED BY <1>1, <1>2

\* Handling a version keeps the others counted, from the next one on.
LEMMA TailCounted ==
    ASSUME NEW versions \in Seq(JobVersion), Len(versions) >= 2,
           Counted(versions)
    PROVE  /\ Counted(Tail(versions))
           /\ Tail(versions)[1] = versions[2]
           /\ versions[1].entries <= versions[2].entries
<1> DEFINE t == Tail(versions)
           n == Len(versions)
<1>1. /\ t \in Seq(JobVersion) /\ n \in Nat /\ Len(t) = n - 1
      /\ \A i \in 1..(n - 1) : t[i] = versions[i + 1]
  BY HeadTailProperties
<1> HIDE DEF t
<1>2. \A i \in 1..n : versions[i].entries \in Nat /\ versions[i].restarts \in Nat
  BY EntriesNat
<1>3. versions[1].entries <= versions[2].entries
  BY <1>1 DEF Counted
<1>4. ASSUME NEW i \in 1..Len(t)
      PROVE  t[i].restarts <= t[1].entries
  <2>1. versions[i + 1].restarts <= versions[1].entries
    BY <1>1 DEF Counted
  <2>2. QED BY <1>1, <1>2, <1>3, <2>1
<1>5. \A i, j \in 1..Len(t) : i <= j => t[i].entries <= t[j].entries
  BY <1>1 DEF Counted
<1>6. \A i \in 1..(Len(t) - 1) :
            CountsRestart(t[i], t[i + 1]) => t[i].entries < t[i + 1].entries
  BY <1>1 DEF Counted
<1>7. \A i \in 1..Len(t) : t[i].phase = "Failed" => t[i].entries >= BackoffLimit
  BY <1>1 DEF Counted
<1>8. Counted(t)
  BY <1>4, <1>5, <1>6, <1>7 DEF Counted
<1>9. QED BY <1>1, <1>3, <1>8 DEF t

\* The oldest version has no more entries than the latest one.
LEMMA OldestAndLatest ==
    ASSUME TypeOK, CountInv
    PROVE  /\ jobs[1].entries \in Nat /\ Latest.entries \in Nat
           /\ Latest.restarts \in Nat
           /\ Latest.restarts <= jobs[1].entries
           /\ jobs[1].entries <= Latest.entries
           /\ Latest.phase = "Failed" => Latest.entries >= BackoffLimit
<1>1. 1 \in 1..Len(jobs) /\ Len(jobs) \in 1..Len(jobs) /\ 1 <= Len(jobs)
  BY DEF TypeOK
<1>2. QED BY <1>1, EntriesNat DEF TypeOK, CountInv, Counted, Latest

\* What writing the phase changes in the job.
LEMMA WithPhaseFields ==
    ASSUME NEW v \in JobVersion, NEW p \in Phases
    PROVE  /\ WithPhase(v, p).restarts = v.restarts
           /\ WithPhase(v, p).phase = p
           /\ v.entries <= WithPhase(v, p).entries
           /\ CountsRestart(v, WithPhase(v, p))
                => v.entries < WithPhase(v, p).entries
<1>1. v.entries \in Nat
  BY DEF JobVersion
<1>2. CASE p = "Restarting" /\ v.phase # p
  <2>1. WithPhase(v, p) = [v EXCEPT !.phase = p, !.entries = v.entries + 1]
    BY <1>2 DEF WithPhase
  <2>2. QED BY <1>1, <2>1 DEF JobVersion
<1>3. CASE ~(p = "Restarting" /\ v.phase # p)
  <2>1. WithPhase(v, p) = [v EXCEPT !.phase = p, !.entries = v.entries]
    BY <1>3 DEF WithPhase
  <2>2. WithPhase(v, p).phase = p /\ WithPhase(v, p).entries = v.entries
        /\ WithPhase(v, p).restarts = v.restarts
    BY <2>1 DEF JobVersion
  <2>3. QED BY <1>1, <1>3, <2>2 DEF CountsRestart
<1>4. QED BY <1>2, <1>3

\* A step that leaves the pass's job and phase alone keeps what it knows.
LEMMA PassKeepsCount ==
    ASSUME TypeOK, TypeOK', CountInv, Counted(jobs)',
           jobs[1].entries <= jobs'[1].entries,
           rec'.job = rec.job,
           rec'.phase = "Failed" /\ rec.job.phase # "Failed"
                => jobs[1].entries >= BackoffLimit
    PROVE  CountInv'
<1>1. jobs[1].entries \in Nat /\ jobs'[1].entries \in Nat
  BY EntriesNat DEF TypeOK
<1>2. rec.job.restarts \in Nat
  BY DEF TypeOK, Pass, JobVersion
<1>3. QED BY <1>1, <1>2, SpecAssumption DEF CountInv

\* When the pass is over it knows nothing.
LEMMA IdleKeepsCount ==
    ASSUME TypeOK', Counted(jobs)', rec' = Idle
    PROVE  CountInv'
<1>1. jobs'[1].entries \in Nat
  BY EntriesNat DEF TypeOK
<1>2. rec'.job.restarts = 0 /\ rec'.phase = "Pending"
  BY DEF Idle, InitJob
<1>3. QED BY <1>1, <1>2 DEF CountInv

\* The steps of a pass count nothing twice, and fail no job early.
LEMMA PassStepCounts ==
    ASSUME TypeOK, TypeOK', CountInv, PassStep
    PROVE  CountInv'
<1>1. rec \in Pass /\ rec.phase \in Phases /\ rec.job.restarts \in Nat
  BY DEF TypeOK, Pass, JobVersion
<1>2. /\ jobs[1].entries \in Nat /\ jobs \in Seq(JobVersion) /\ Len(jobs) >= 1
      /\ Counted(jobs) /\ Latest \in JobVersion
  BY OldestAndLatest, VersionTypes DEF TypeOK, CountInv
<1>3. ASSUME jobs' = jobs, rec'.job = rec.job,
             rec'.phase = "Failed" => \/ rec.phase = "Failed"
                                      \/ rec.job.restarts >= BackoffLimit
      PROVE  CountInv'
  <2>1. Counted(jobs)' /\ jobs[1].entries <= jobs'[1].entries
    BY <1>2, <1>3 DEF Counted
  <2>2. rec.job.restarts >= BackoffLimit => jobs[1].entries >= BackoffLimit
    BY <1>1, <1>2, SpecAssumption DEF CountInv
  <2>3. QED BY <1>3, <2>1, <2>2, PassKeepsCount DEF CountInv
<1>4. CASE BeginPass
  <2>1. rec'.job = Cached /\ rec'.phase = Cached.phase
    BY <1>4 DEF BeginPass, Idle
  <2>2. Cached.restarts <= jobs[1].entries
    BY DEF TypeOK, CountInv, Counted, Cached
  <2>3. jobs' = jobs /\ Counted(jobs)'
    BY <1>2, <1>4 DEF BeginPass, Counted
  <2>4. QED BY <2>1, <2>2, <2>3 DEF CountInv
<1>5. CASE ReconcileByPhase
  BY <1>3, <1>5, ReconcilePlans, ListPodsType DEF PlanMade
<1>6. CASE DeletePod
  <2>1. rec'.job = rec.job /\ rec'.phase = rec.phase
    BY <1>1, <1>6 DEF DeletePod, Pass
  <2>2. QED BY <1>3, <1>6, <2>1 DEF DeletePod
<1>7. CASE CreatePod
  <2>1. rec'.job = rec.job /\ rec'.phase = rec.phase
    BY <1>1, <1>7 DEF CreatePod, Pass
  <2>2. QED BY <1>3, <1>7, <2>1 DEF CreatePod
<1>8. CASE CreateFails
  <2>1. rec'.job = rec.job
        /\ rec'.phase \in {rec.phase, ByBackoffLimit(rec.job)}
    BY <1>1, <1>8 DEF CreateFails, Pass
  <2>2. ByBackoffLimit(rec.job) = "Failed" => rec.job.restarts >= BackoffLimit
    BY <1>1, SpecAssumption DEF ByBackoffLimit
  <2>3. QED BY <1>3, <1>8, <2>1, <2>2 DEF CreateFails
<1>9. CASE BuildPodPanics
  <2>1. rec'.job = rec.job /\ rec'.phase = rec.phase
    BY <1>1, <1>9 DEF BuildPodPanics, Panic, Pass
  <2>2. QED BY <1>3, <1>9, <2>1 DEF BuildPodPanics
<1>10. CASE FinishPass
  <2>1. CASE jobs' = jobs
    <3>1. Counted(jobs)'
      BY <1>2, <2>1 DEF Counted
    <3>2. QED BY <1>10, <3>1, IdleKeepsCount DEF FinishPass
  <2>2. CASE /\ rec.phase # rec.job.phase
             /\ jobs' = With(jobs, WithPhase(Latest, rec.phase))
    <3> DEFINE v == WithPhase(Latest, rec.phase)
    <3>1. v \in JobVersion /\ v.entries \in Nat /\ Latest.entries \in Nat
      BY <1>1, <1>2, WithPhaseType DEF JobVersion
    <3>2. /\ v.restarts = Latest.restarts /\ v.phase = rec.phase
          /\ Latest.entries <= v.entries
          /\ CountsRestart(Latest, v) => Latest.entries < v.entries
      BY <1>1, <1>2, WithPhaseFields
    <3> HIDE DEF v
    <3>3. v.phase = "Failed" => v.entries >= BackoffLimit
      BY <1>2, <2>2, <3>1, <3>2, OldestAndLatest, SpecAssumption DEF CountInv
    <3>4. Follows(v, jobs[Len(jobs)], jobs[1])
      BY <3>2, <3>3, OldestAndLatest DEF Follows, Latest
    <3>5. jobs' = With(jobs, v)
      BY <2>2 DEF v
    <3>6. Counted(jobs')
      BY <1>2, <3>1, <3>4, <3>5, WithCounted
    <3>7. Counted(jobs)'
      BY <3>6 DEF Counted
    <3>8. QED BY <1>10, <3>7, IdleKeepsCount DEF FinishPass
  <2>3. QED BY <1>10, <2>1, <2>2 DEF FinishPass
<1>11. QED
  BY <1>4, <1>5, <1>6, <1>7, <1>8, <1>9, <1>10
     DEF PassStep

\* The handler counts a restart only once it is given the version that shows it.
LEMMA HandlerCounts ==
    ASSUME TypeOK, TypeOK', CountInv, HandleJobUpdate
    PROVE  CountInv'
<1> DEFINE counted == [Latest EXCEPT !.restarts =
                                CountedRestarts(jobs[1], jobs[2])]
           t == Tail(jobs)
<1>1. /\ jobs \in Seq(JobVersion) /\ Len(jobs) \in Nat /\ Len(jobs) >= 2
      /\ Latest \in JobVersion /\ Counted(jobs)
  BY VersionTypes DEF TypeOK, CountInv, HandleJobUpdate
<1>2. jobs[2] \in JobVersion /\ jobs[2].restarts \in Nat
      /\ jobs[2].entries \in Nat /\ jobs[1].entries \in Nat
  <2>1. 1 \in 1..Len(jobs) /\ 2 \in 1..Len(jobs)
    BY <1>1
  <2>2. QED BY <1>1, <2>1, ElementOfSeq, EntriesNat
<1>3. /\ t \in Seq(JobVersion) /\ Len(t) = Len(jobs) - 1
      /\ t[Len(t)] = Latest /\ t[1] = jobs[2] /\ Counted(t)
      /\ jobs[1].entries <= jobs[2].entries
  BY <1>1, TailCounted, HeadTailProperties DEF Latest
<1>4. CountedRestarts(jobs[1], jobs[2]) \in Nat
      /\ CountedRestarts(jobs[1], jobs[2]) <= jobs[2].entries
  <2>1. jobs[2].restarts <= jobs[1].entries
    BY <1>1 DEF Counted
  <2>2. CASE CountsRestart(jobs[1], jobs[2])
    <3>1. jobs[1].entries < jobs[2].entries
      BY <1>1, <2>2 DEF Counted
    <3>2. CountedRestarts(jobs[1], jobs[2]) = jobs[2].restarts + 1
      BY <2>2 DEF CountedRestarts
    <3>3. QED BY <1>2, <2>1, <3>1, <3>2
  <2>3. CASE ~CountsRestart(jobs[1], jobs[2])
    <3>1. CountedRestarts(jobs[1], jobs[2]) = jobs[2].restarts
      BY <2>3 DEF CountedRestarts
    <3>2. QED BY <1>2, <1>3, <2>1, <3>1
  <2>4. QED BY <2>2, <2>3
<1>5. /\ counted \in JobVersion
      /\ counted.restarts = CountedRestarts(jobs[1], jobs[2])
      /\ counted.phase = Latest.phase /\ counted.entries = Latest.entries
  BY <1>1, <1>4 DEF JobVersion
<1>6. jobs' \in {t, With(t, counted)} /\ rec' = rec
  BY DEF HandleJobUpdate
<1> HIDE DEF counted, t
<1>7. Follows(counted, t[Len(t)], t[1])
  BY <1>3, <1>4, <1>5, OldestAndLatest DEF Follows, CountsRestart
<1>8. Len(t) >= 1
  BY <1>1, <1>3
<1>9. Counted(With(t, counted)) /\ With(t, counted)[1] = t[1]
  BY <1>3, <1>5, <1>7, <1>8, WithCounted
<1>10. Counted(jobs') /\ jobs'[1] = jobs[2]
  BY <1>3, <1>6, <1>9
<1>11. Counted(jobs)' /\ jobs[1].entries <= jobs'[1].entries
  BY <1>3, <1>10 DEF Counted
<1>12. QED BY <1>6, <1>11, PassKeepsCount DEF CountInv

\* After a restart of the operator only the latest version is left.
LEMMA RecoverCounts ==
    ASSUME TypeOK, TypeOK', CountInv, Recover
    PROVE  CountInv'
<1>1. jobs' = <<Latest>> /\ rec' = Idle
  BY DEF Recover
<1>2. Counted(<<Latest>>)
  BY OldestAndLatest DEF Counted, CountsRestart
<1>3. Counted(jobs)'
  BY <1>1, <1>2 DEF Counted
<1>4. QED BY <1>1, <1>3, IdleKeepsCount

\* An edit of the spec or the allocation counts nothing.
LEMMA EditCounts ==
    ASSUME TypeOK, TypeOK', CountInv, NEW v \in JobVersion, Edit(v),
           v.phase = Latest.phase, v.restarts = Latest.restarts,
           v.entries = Latest.entries
    PROVE  CountInv'
<1>1. Follows(v, jobs[Len(jobs)], jobs[1])
  BY OldestAndLatest DEF Follows, CountsRestart, Latest
<1>2. jobs' = With(jobs, v) /\ rec' = rec
  BY DEF Edit, With, Latest
<1>3. Counted(jobs') /\ jobs'[1] = jobs[1]
  BY <1>1, <1>2, WithCounted DEF TypeOK, CountInv
<1>4. Counted(jobs)' /\ jobs[1].entries <= jobs'[1].entries
  BY <1>3, OldestAndLatest DEF Counted
<1>5. QED BY <1>2, <1>4, PassKeepsCount DEF CountInv

\* The versions and the pass stay as they are.
LEMMA StutterCounts ==
    ASSUME CountInv, UNCHANGED <<jobs, rec>>
    PROVE  CountInv'
BY DEF CountInv, Counted

\* Every step of the system counts.
LEMMA StepCounts ==
    ASSUME TypeOK, TypeOK', CountInv, [Next]_vars
    PROVE  CountInv'
<1>1. CASE PassStep BY <1>1, PassStepCounts
<1>2. CASE HandleJobUpdate BY <1>2, HandlerCounts
<1>3. CASE SyncJob BY <1>3, StutterCounts DEF SyncJob
<1>4. CASE SyncPods BY <1>4, StutterCounts DEF SyncPods
<1>5. CASE Crash BY <1>5, RecoverCounts DEF Crash
<1>6. CASE Restart BY <1>6, RecoverCounts DEF Restart
<1>7. ASSUME NEW s \in Slots, PodStep(s)
      PROVE  CountInv'
  BY <1>7, StutterCounts
     DEF PodStep, SchedulePod, PodGetsReady, PodCompletes, ReapPod, PodFails,
         NodeRejects, EvictPod
<1>8. CASE Scale
  <2>1. PICK want \in Wants : Edit([Latest EXCEPT !.want = want])
    BY <1>8 DEF Scale
  <2> DEFINE v == [Latest EXCEPT !.want = want]
  <2>2. /\ v \in JobVersion /\ v.phase = Latest.phase
        /\ v.restarts = Latest.restarts /\ v.entries = Latest.entries
    BY VersionTypes, SpecAssumption DEF JobVersion
  <2>3. Edit(v)
    BY <2>1
  <2> HIDE DEF v
  <2>4. QED BY <2>2, <2>3, EditCounts
<1>9. CASE Reallocate
  <2>1. PICK alloc \in Allocations : Edit([Latest EXCEPT !.alloc = alloc])
    BY <1>9 DEF Reallocate
  <2> DEFINE v == [Latest EXCEPT !.alloc = alloc]
  <2>2. /\ v \in JobVersion /\ v.phase = Latest.phase
        /\ v.restarts = Latest.restarts /\ v.entries = Latest.entries
    BY VersionTypes, AllocationAssumption DEF JobVersion
  <2>3. Edit(v)
    BY <2>1
  <2> HIDE DEF v
  <2>4. QED BY <2>2, <2>3, EditCounts
<1>10. CASE UNCHANGED vars BY <1>10, StutterCounts DEF vars
<1>11. QED
  BY <1>1, <1>2, <1>3, <1>4, <1>5, <1>6, <1>7, <1>8, <1>9, <1>10
     DEF Next, OperatorStep

\* However the caches trail, the handler is late, writes are lost and the
\* operator crashes: the versions of the job are counted.
THEOREM RestartsCounted == Spec => []CountInv
<1>1. Init => CountInv
  <2> SUFFICES ASSUME Init PROVE CountInv
    OBVIOUS
  <2>1. jobs = <<InitJob>> /\ rec = Idle
    BY DEF Init
  <2>2. QED BY <2>1 DEF CountInv, Counted, CountsRestart, Idle, InitJob
<1>2. TypeOK /\ TypeOK' /\ CountInv /\ [Next]_vars => CountInv'
  BY StepCounts
<1>3. QED BY <1>1, <1>2, TypeCorrect, PTL DEF Spec

\* Restarts so counted are neither counted twice nor cut short.
LEMMA CountedSoundly ==
    ASSUME TypeOK, CountInv
    PROVE  RestartsNotOvercounted /\ NoEarlyFailure
<1>1. NoEarlyFailure
  BY DEF CountInv, Counted, NoEarlyFailure
<1>2. ASSUME NEW i \in 1..Len(jobs)
      PROVE  jobs[i].restarts <= jobs[i].entries
  <2>1. 1 \in 1..Len(jobs) /\ 1 <= i
    OBVIOUS
  <2>2. jobs[i].restarts <= jobs[1].entries /\ jobs[1].entries <= jobs[i].entries
    BY <2>1 DEF CountInv, Counted
  <2>3. QED BY <2>1, <2>2, EntriesNat DEF TypeOK
<1>3. QED BY <1>1, <1>2 DEF RestartsNotOvercounted

\* No job fails before it was restarted as often as its limit allows.
THEOREM FailuresAreLate == Spec => []NoEarlyFailure
<1>1. TypeOK /\ CountInv => NoEarlyFailure
  BY CountedSoundly
<1>2. QED BY <1>1, TypeCorrect, RestartsCounted, PTL

\* No restart is counted twice.
THEOREM CountingIsSound == Spec => []RestartsNotOvercounted
<1>1. TypeOK /\ CountInv => RestartsNotOvercounted
  BY CountedSoundly
<1>2. QED BY <1>1, TypeCorrect, RestartsCounted, PTL

-----------------------------------------------------------------------------
(* Global ranks, when the caches keep up.                                  *)

\* While pods are to be created, their ranks lie above those of all live pods.
RankInv ==
    /\ RanksDistinct
    /\ rec.pc \in {"idle", "list"} => rec.missing = {}
    /\ rec.missing # {} => \A s \in LivePods(pods) : pods[s].rank < rec.next

\* Live pods come to an end, and no rank changes.
Wanes ==
    /\ LivePods(pods') \subseteq LivePods(pods)
    /\ \A s \in LivePods(pods') : pods'[s].rank = pods[s].rank

\* When pods only come to an end and no pod is added to those to be created,
\* ranks stay distinct and new ones above them.
LEMMA WaneKeepsRanks ==
    ASSUME RankInv, Wanes,
           rec'.pc \in {"idle", "list"} => rec'.missing = {},
           rec'.missing = {} \/ (rec'.missing = rec.missing /\ rec'.next = rec.next)
    PROVE  RankInv'
<1>1. RanksDistinct'
  BY DEF RankInv, RanksDistinct, Wanes
<1>2. rec'.missing # {} =>
        \A s \in LivePods(pods') : pods'[s].rank < rec'.next
  BY DEF RankInv, Wanes
<1>3. QED BY <1>1, <1>2 DEF RankInv, LivePods, AllPods

\* The kubelet and the scheduler end pods, and change no rank.
LEMMA PodStepWanes ==
    ASSUME TypeOK, NEW s \in Slots, PodStep(s)
    PROVE  Wanes
<1>1. pods \in [Slots -> Pod]
  BY DEF TypeOK
<1>2. ASSUME NEW states, NEW st, "None" \notin states, Move(s, states, st)
      PROVE  Wanes
  <2>1. /\ s \in LivePods(pods)
        /\ \A q \in Slots : pods'[q].term = pods[q].term
                          /\ pods'[q].rank = pods[q].rank
        /\ \A q \in Slots : q # s => pods'[q] = pods[q]
    BY <1>1, <1>2 DEF Move, Pod, LivePods, AllPods
  <2>2. QED BY <2>1 DEF Wanes, LivePods, AllPods
<1>3. CASE EvictPod(s)
  <2>1. /\ pods'[s].term /\ \A q \in Slots : q # s => pods'[q] = pods[q]
    BY <1>1, <1>3 DEF EvictPod, Pod
  <2>2. QED BY <2>1 DEF Wanes, LivePods, AllPods
<1>4. CASE ReapPod(s)
  <2>1. /\ pods'[s] = NoPod /\ \A q \in Slots : q # s => pods'[q] = pods[q]
    BY <1>1, <1>4 DEF ReapPod
  <2>2. QED BY <2>1 DEF Wanes, LivePods, AllPods, NoPod
<1>5. QED
  BY <1>2, <1>3, <1>4
     DEF PodStep, SchedulePod, PodGetsReady, PodCompletes, PodFails, NodeRejects

\* The steps of a pass keep ranks distinct when it lists the pods as they are.
LEMMA PassStepRanks ==
    ASSUME TypeOK, RankInv, PassStep, ~Lagging
    PROVE  RankInv'
<1>1. /\ rec \in Pass /\ rec.missing \subseteq Slots /\ rec.next \in Nat
      /\ pods \in [Slots -> Pod]
  BY DEF TypeOK, Pass
<1>2. ASSUME UNCHANGED pods
      PROVE  Wanes
  BY <1>2 DEF Wanes
<1>3. CASE BeginPass
  <2>1. rec'.missing = {}
    BY <1>3 DEF BeginPass, Idle
  <2>2. QED BY <1>2, <1>3, <2>1, WaneKeepsRanks DEF BeginPass
<1>4. CASE ReconcileByPhase
  <2>1. /\ rec.pc = "list" /\ pcache = pods /\ pods' = pods /\ rec.missing = {}
    BY <1>4, ReconcilePlans, ListPodsType DEF ListPods, RankInv
  <2>2. rec'.pc \notin {"idle", "list"}
    BY <1>1, <1>4 DEF ReconcileByPhase, ReconcilePending, ReconcileStarting,
       ReconcileRunning, ReconcileRestarting, ReconcileRescheduling, CleanUp,
       BuildAndCreatePods, CheckPodsCompletion, DetectReschedule,
       DeleteRedundantReplicas, CreateMissedReplicas, Set, Delete, Panic, Pass
  <2>3. rec'.missing = {} \/ \A s \in LivePods(pods) : pods[s].rank < rec'.next
    BY <1>4, <2>1, ReconcilePlans DEF PlanMade, Live
  <2>4. QED BY <2>1, <2>2, <2>3 DEF RankInv, RanksDistinct, LivePods, AllPods
<1>5. CASE DeletePod
  <2>1. PICK s \in rec.doomed :
          \/ pods' = [pods EXCEPT ![s] = NoPod]
          \/ pods' = pods
    BY <1>5 DEF DeletePod
  <2>2. Wanes
    BY <1>1, <2>1 DEF Wanes, LivePods, AllPods, NoPod
  <2>3. /\ rec'.pc = "work" /\ rec'.next = rec.next
        /\ rec'.missing = {} \/ rec'.missing = rec.missing
    BY <1>1, <1>5 DEF DeletePod, Working, Pass
  <2>4. QED BY <2>2, <2>3, WaneKeepsRanks
<1>6. CASE CreatePod
  <2> DEFINE f == FirstMissing
  <2>1. /\ rec'.pc = "work" /\ rec'.next = rec.next + 1 /\ rec.missing # {}
        /\ rec'.missing = rec.missing \ {f}
    BY <1>1, <1>6 DEF CreatePod, Working, Pass
  <2>2. pods' = [pods EXCEPT ![f] =
                    IF pods[f].st = "None" THEN BuildPod(rec.job, rec.next)
                                           ELSE pods[f]]
    BY <1>6 DEF CreatePod
  <2>3. BuildPod(rec.job, rec.next).rank = rec.next
    BY DEF BuildPod
  <2> HIDE DEF f
  <2>4. /\ \A q \in Slots : q # f => pods'[q] = pods[q]
        /\ f \in Slots => \/ pods'[f] = pods[f]
                         \/ pods'[f].rank = rec.next
    BY <1>1, <2>2, <2>3
  <2>5. \A q \in LivePods(pods') : \/ q \in LivePods(pods)
                                      /\ pods'[q] = pods[q]
                                   \/ q = f /\ pods'[q].rank = rec.next
    BY <2>4 DEF LivePods, AllPods
  <2>6. \A q \in LivePods(pods) : pods[q].rank < rec.next /\ pods[q].rank \in Nat
    BY <1>1, <2>1 DEF RankInv, LivePods, AllPods, Pod
  <2>7. \A q, r \in LivePods(pods') : q # r => pods'[q].rank # pods'[r].rank
    BY <1>1, <2>5, <2>6 DEF RankInv, RanksDistinct
  <2>8. \A q \in LivePods(pods') : pods'[q].rank < rec'.next
    BY <1>1, <2>1, <2>5, <2>6
  <2>9. QED BY <2>1, <2>7, <2>8 DEF RankInv, RanksDistinct, LivePods, AllPods
<1>7. CASE CreateFails
  <2>1. rec'.pc = "work" /\ rec'.missing = {} /\ UNCHANGED pods
    BY <1>1, <1>7 DEF CreateFails, Working, Pass
  <2>2. QED BY <1>2, <2>1, WaneKeepsRanks
<1>8. CASE BuildPodPanics
  <2>1. rec'.pc = "panicked" /\ rec'.missing = rec.missing
        /\ rec'.next = rec.next /\ UNCHANGED pods
    BY <1>1, <1>8 DEF BuildPodPanics, Panic, Pass
  <2>2. QED BY <1>2, <2>1, WaneKeepsRanks
<1>9. CASE FinishPass
  <2>1. rec'.missing = {} /\ UNCHANGED pods
    BY <1>9 DEF FinishPass, Idle
  <2>2. QED BY <1>2, <2>1, WaneKeepsRanks
<1>10. QED
  BY <1>3, <1>4, <1>5, <1>6, <1>7, <1>8, <1>9 DEF PassStep

\* Every step of the system.
LEMMA StepRanks ==
    ASSUME TypeOK, RankInv, [Next]_vars, ~Lagging
    PROVE  RankInv'
<1>1. ASSUME Wanes, UNCHANGED rec
      PROVE  RankInv'
  BY <1>1, WaneKeepsRanks DEF RankInv
<1>2. ASSUME UNCHANGED pods
      PROVE  Wanes
  BY <1>2 DEF Wanes
<1>3. CASE PassStep BY <1>3, PassStepRanks
<1>4. CASE HandleJobUpdate \/ SyncJob \/ SyncPods \/ Scale \/ Reallocate
  BY <1>1, <1>2, <1>4
     DEF HandleJobUpdate, SyncJob, SyncPods, Scale, Reallocate, Edit
<1>5. CASE Crash \/ Restart
  <2>1. rec'.missing = {} /\ UNCHANGED pods
    BY <1>5 DEF Crash, Restart, Recover, Idle
  <2>2. QED BY <1>2, <2>1, WaneKeepsRanks
<1>6. ASSUME NEW s \in Slots, PodStep(s)
      PROVE  RankInv'
  <2>1. UNCHANGED rec
    BY <1>6 DEF PodStep, SchedulePod, PodGetsReady, PodCompletes, ReapPod,
                PodFails, NodeRejects, EvictPod
  <2>2. QED BY <1>1, <1>6, <2>1, PodStepWanes
<1>7. CASE UNCHANGED vars BY <1>1, <1>2, <1>7 DEF vars
<1>8. QED
  BY <1>3, <1>4, <1>5, <1>6, <1>7 DEF Next, OperatorStep

\* When every pass starts and lists with caught-up caches, no two live pods of
\* a job have the same global rank, whatever fails, is scaled or crashes.
THEOREM RanksStayDistinct == ~Lagging => (Spec => []RanksDistinct)
<1> SUFFICES ASSUME ~Lagging PROVE Spec => []RanksDistinct
  OBVIOUS
<1>1. Init => RankInv
  BY DEF Init, Idle, NoPod, RankInv, RanksDistinct, LivePods, AllPods
<1>2. TypeOK /\ RankInv /\ [Next]_vars => RankInv'
  BY StepRanks
<1>3. RankInv => RanksDistinct
  BY DEF RankInv
<1>4. QED BY <1>1, <1>2, <1>3, TypeCorrect, PTL DEF Spec
=============================================================================
