-------------------------- MODULE DIJobControllerPods --------------------------
(***************************************************************************)
(* What holds of the pods of DIJobController: which of them the operator   *)
(* deletes, and when it panics over their ranks.                           *)
(***************************************************************************)
EXTENDS DIJobControllerExact, WellFoundedInduction

-----------------------------------------------------------------------------
(* Sets of pods.                                                           *)

\* A job has finitely many replicas.
LEMMA SlotsFinite == IsFiniteSet(Slots)
<1>1. IsFiniteSet(1..NumTasks) /\ IsFiniteSet(0..(MaxReplicas - 1))
  BY FS_Interval, TasksAssumption
<1>2. QED BY <1>1, FS_Product DEF Slots, Tasks

\* So sets of pods can be counted, and a larger set has no fewer pods.
LEMMA PodsCount ==
    ASSUME NEW S \in SUBSET Slots, NEW T \in SUBSET S
    PROVE  /\ IsFiniteSet(S) /\ Cardinality(S) \in Nat /\ Cardinality(T) \in Nat
           /\ Cardinality(T) <= Cardinality(S)
           /\ Cardinality(S) = Cardinality(T) => S = T
<1>1. IsFiniteSet(S) /\ IsFiniteSet(T)
  BY SlotsFinite, FS_Subset
<1>2. QED BY <1>1, FS_Subset, FS_CardinalityType

\* A set of numbers has a least one.
LEMMA LeastNumber ==
    ASSUME NEW S \in SUBSET Nat, S # {}
    PROVE  \E m \in S : \A n \in S : m <= n
<1> DEFINE less == OpToRel(<, Nat)
<1>1. IsWellFoundedOn(less, Nat)
  BY NatLessThanWellFounded
<1>2. \A n, m \in Nat : n < m => <<n, m>> \in less
  BY DEF OpToRel
<1> HIDE DEF less
<1>3. PICK m \in S : \A n \in S : ~(<<n, m>> \in less)
  BY <1>1, WFMin
<1>4. ASSUME NEW n \in S
      PROVE  m <= n
  <2>1. m \in Nat /\ n \in Nat /\ ~(n < m)
    BY <1>2, <1>3
  <2>2. QED BY <2>1
<1>5. QED BY <1>4

\* Of the pods still to be created one comes first.
LEMMA FirstIsMissing ==
    ASSUME rec.missing \in SUBSET Slots, rec.missing # {}
    PROVE  FirstMissing \in rec.missing
<1> DEFINE tasks == {s[1] : s \in rec.missing}
<1>1. tasks \in SUBSET Nat /\ tasks # {}
  BY DEF Slots, Tasks
<1>2. PICK t \in tasks : \A u \in tasks : t <= u
  BY <1>1, LeastNumber
<1> DEFINE ranks == {s[2] : s \in {q \in rec.missing : q[1] = t}}
<1>3. ranks \in SUBSET Nat /\ ranks # {}
  BY <1>2 DEF Slots
<1>4. PICK i \in ranks : \A k \in ranks : i <= k
  BY <1>3, LeastNumber
<1>5. PICK s \in rec.missing : s[1] = t /\ s[2] = i
  BY <1>4
<1>6. ASSUME NEW q \in rec.missing \ {s}
      PROVE  Before(s, q)
  <2>1. q[1] \in tasks /\ s[1] <= q[1]
    BY <1>2, <1>5
  <2>2. q[1] = t => s[2] <= q[2]
    BY <1>4, <1>5
  <2>3. s[1] = q[1] /\ s[2] = q[2] => s = q
    BY DEF Slots
  <2>4. s[1] \in Nat /\ s[2] \in Nat /\ q[1] \in Nat /\ q[2] \in Nat
    BY DEF Slots, Tasks
  <2>5. QED BY <1>5, <2>1, <2>2, <2>3, <2>4 DEF Before
<1>7. QED BY <1>6 DEF FirstMissing

\* Finitely many pods are to be created; without the first there is one less.
LEMMA OneLessMissing ==
    ASSUME rec.missing \in SUBSET Slots, rec.missing # {}
    PROVE  /\ Cardinality(rec.missing) \in Nat /\ Cardinality(rec.missing) >= 1
           /\ Cardinality(rec.missing \ {FirstMissing})
                = Cardinality(rec.missing) - 1
<1>1. IsFiniteSet(rec.missing)
  BY PodsCount
<1>2. Cardinality(rec.missing) \in Nat /\ Cardinality(rec.missing) # 0
  BY <1>1, FS_CardinalityType, FS_EmptySet
<1>3. FirstMissing \in rec.missing
  BY FirstIsMissing
<1> DEFINE m == rec.missing
           f == FirstMissing
<1>4. IsFiniteSet(m) /\ f \in m /\ Cardinality(m) \in Nat \ {0}
  BY <1>1, <1>2, <1>3
<1> HIDE DEF m, f
<1>5. Cardinality(m \ {f}) = Cardinality(m) - 1
  <2>1. Cardinality(m \ {f}) = IF f \in m THEN Cardinality(m) - 1 ELSE Cardinality(m)
    BY <1>4, FS_RemoveElement, Zenon
  <2>2. QED BY <1>4, <2>1
<1>6. Cardinality(m) >= 1
  BY <1>4
<1>7. QED BY <1>4, <1>5, <1>6 DEF m, f

-----------------------------------------------------------------------------
(* The versions of the job after a step.                                   *)

\* Each version was there before or is the latest now; and the latest one wants
\* something else only if the user scales the job, has no fewer restarts behind
\* it than before, and one more when it begins one.
VersionsMove ==
    /\ \A j \in 1..Len(jobs') : \/ \E i \in 1..Len(jobs) : jobs'[j] = jobs[i]
                                \/ jobs'[j] = Latest'
    /\ Scale \/ Latest'.want = Latest.want
    /\ Latest.entries <= Latest'.entries
    /\ Latest'.phase = "Restarting" =>
            Latest.phase = "Restarting" \/ Latest'.entries > 0

\* A version put behind some of the known ones is the latest.
LEMMA NewestIsLatest ==
    ASSUME NEW versions \in Seq(JobVersion), Len(versions) >= 1,
           \A j \in 1..Len(versions) :
                \E i \in 1..Len(jobs) : versions[j] = jobs[i],
           NEW v, jobs' \in {With(versions, v), Append(versions, v)}
    PROVE  /\ Latest' = v
           /\ \A j \in 1..Len(jobs') :
                    \/ \E i \in 1..Len(jobs) : jobs'[j] = jobs[i]
                    \/ jobs'[j] = Latest'
<1>1. CASE jobs' = versions /\ v = versions[Len(versions)]
  BY <1>1 DEF Latest
<1>2. CASE jobs' = Append(versions, v)
  BY <1>2, AppendProperties DEF Latest
<1>3. QED BY <1>1, <1>2 DEF With

\* So it is at every step.
LEMMA VersionsFollow ==
    ASSUME TypeOK, [Next]_vars
    PROVE  VersionsMove
<1>1. /\ jobs \in Seq(JobVersion) /\ Len(jobs) >= 1 /\ Latest \in JobVersion
      /\ Latest.entries \in Nat
  BY VersionTypes DEF TypeOK, JobVersion
<1>2. CASE UNCHANGED jobs
  BY <1>1, <1>2 DEF VersionsMove, Latest
<1>3. CASE FinishPass /\ ~UNCHANGED jobs
  <2> DEFINE v == WithPhase(Latest, rec.phase)
  <2>1. jobs' = With(jobs, v) /\ rec.phase \in Phases
    BY <1>3 DEF FinishPass, TypeOK, Pass
  <2>2. v.want = Latest.want
    BY <1>1 DEF WithPhase, JobVersion
  <2>3. /\ v.entries \in Nat /\ Latest.entries <= v.entries
        /\ v.phase = "Restarting" => Latest.phase = "Restarting" \/ v.entries > 0
    <3>1. v \in JobVersion
      BY <1>1, <2>1, WithPhaseType
    <3>2. v.entries \in Nat
      BY <3>1 DEF JobVersion
    <3>3. /\ Latest.entries <= v.entries
          /\ CountsRestart(Latest, v) => Latest.entries < v.entries
      BY <1>1, <2>1, WithPhaseFields
    <3>4. v.phase = "Restarting" /\ Latest.phase # "Restarting"
            => Latest.entries < v.entries
      BY <3>3 DEF CountsRestart
    <3>5. QED BY <1>1, <3>2, <3>3, <3>4
  <2> HIDE DEF v
  <2>4. Latest' = v /\ \A j \in 1..Len(jobs') :
                           \/ \E i \in 1..Len(jobs) : jobs'[j] = jobs[i]
                           \/ jobs'[j] = Latest'
    BY <1>1, <2>1, NewestIsLatest
  <2>5. QED BY <2>2, <2>3, <2>4 DEF VersionsMove
<1>4. CASE HandleJobUpdate
  <2> DEFINE v == [Latest EXCEPT !.restarts = CountedRestarts(jobs[1], jobs[2])]
             t == Tail(jobs)
  <2>1. /\ t \in Seq(JobVersion) /\ Len(t) >= 1 /\ t[Len(t)] = Latest
        /\ \A j \in 1..Len(t) : \E i \in 1..Len(jobs) : t[j] = jobs[i]
    <3>1. Len(jobs) \in Nat /\ Len(jobs) >= 2
      BY <1>1, <1>4 DEF HandleJobUpdate, TypeOK
    <3>2. /\ t \in Seq(JobVersion) /\ Len(t) = Len(jobs) - 1
          /\ \A i \in 1..Len(t) : t[i] = jobs[i + 1]
      BY <1>1, <3>1, HeadTailProperties
    <3> HIDE DEF t
    <3>3. t[Len(t)] = Latest
      BY <3>1, <3>2 DEF Latest
    <3>4. \A j \in 1..Len(t) : j + 1 \in 1..Len(jobs)
      BY <3>1, <3>2
    <3>5. QED BY <3>1, <3>2, <3>3, <3>4
  <2>2. v.want = Latest.want
    BY <1>1 DEF JobVersion
  <2>3. jobs' \in {t, With(t, v)} /\ t = With(t, Latest)
    BY <1>4, <2>1 DEF HandleJobUpdate, With
  <2> HIDE DEF t, v
  <2>4. PICK u \in {v, Latest} : jobs' = With(t, u)
    BY <2>3
  <2>5. Latest' = u /\ \A j \in 1..Len(jobs') :
                           \/ \E i \in 1..Len(jobs) : jobs'[j] = jobs[i]
                           \/ jobs'[j] = Latest'
    BY <2>1, <2>4, NewestIsLatest
  <2>6. Latest'.want = Latest.want
    BY <2>2, <2>5
  <2>7. QED BY <1>1, <1>4, <2>5, <2>6, HandlerKeepsPhase DEF VersionsMove
<1>5. CASE Crash \/ Restart
  BY <1>1, <1>5, RecoverStays DEF Crash, Restart, VersionsMove
<1>6. CASE Scale \/ Reallocate
  <2>1. PICK v \in JobVersion :
            /\ Edit(v) /\ v.phase = Latest.phase /\ v.entries = Latest.entries
    BY <1>6, EditsKeepPhase
  <2>2. jobs' = Append(jobs, v)
    BY <2>1 DEF Edit
  <2>3. Latest' = v /\ \A j \in 1..Len(jobs') :
                           \/ \E i \in 1..Len(jobs) : jobs'[j] = jobs[i]
                           \/ jobs'[j] = Latest'
    BY <1>1, <2>2, NewestIsLatest
  <2>4. Scale \/ Latest'.want = Latest.want
    <3>1. SUFFICES ASSUME Reallocate
                   PROVE  Latest'.want = Latest.want
      BY <1>6
    <3>2. PICK alloc \in Allocations : Edit([Latest EXCEPT !.alloc = alloc])
      BY <3>1 DEF Reallocate
    <3>3. Latest' = [Latest EXCEPT !.alloc = alloc]
      BY <3>2, EditAppends
    <3>4. QED BY <1>1, <3>3 DEF JobVersion
  <2>5. QED BY <1>1, <2>1, <2>3, <2>4 DEF VersionsMove
<1>7. CASE BeginPass \/ SyncJob \/ SyncPods \/ UNCHANGED vars
  BY <1>2, <1>7 DEF BeginPass, SyncJob, SyncPods, vars
<1>8. CASE ReconcileByPhase BY <1>2, <1>8, ListPodsType, ReconcilePlans
<1>9. CASE DeletePod \/ CreatePod \/ CreateFails \/ BuildPodPanics
  BY <1>2, <1>9, WorkIsBounded DEF WorkBounded
<1>10. ASSUME NEW s \in Slots, PodStep(s)
       PROVE  UNCHANGED jobs
  BY <1>10 DEF PodStep, SchedulePod, PodGetsReady, PodCompletes, ReapPod,
               PodFails, NodeRejects, EvictPod
<1>11. QED
  BY <1>2, <1>3, <1>4, <1>5, <1>6, <1>7, <1>8, <1>9, <1>10
     DEF Next, OperatorStep, PassStep

-----------------------------------------------------------------------------
(* Which pods are deleted.                                                 *)

\* Of the tasks of a type that the job lists one comes last, and the number of
\* pods kept of the type is the replicas of that task.
LEMMA LastListed ==
    ASSUME NEW v, NEW type,
           {t \in Tasks : TaskType[t] = type /\ v.want[t] > 0} # {}
    PROVE  \E last \in {t \in Tasks : TaskType[t] = type /\ v.want[t] > 0} :
               TypeNum(v, type) = v.want[last]
<1> DEFINE listed == {t \in Tasks : TaskType[t] = type /\ v.want[t] > 0}
           above == {NumTasks - t : t \in listed}
<1>1. above \in SUBSET Nat /\ above # {}
  BY TasksAssumption DEF Tasks
<1>2. PICK m \in above : \A n \in above : m <= n
  BY <1>1, LeastNumber
<1>3. PICK t \in listed : m = NumTasks - t
  BY <1>2
<1>4. ASSUME NEW u \in listed
      PROVE  u <= t
  <2>1. NumTasks - t <= NumTasks - u
    BY <1>2, <1>3
  <2>2. t \in Nat /\ u \in Nat
    BY DEF Tasks
  <2>3. QED BY <2>1, <2>2, TasksAssumption
<1> DEFINE last == CHOOSE u \in listed : \A w \in listed : w <= u
<1>5. last \in listed
  BY <1>3, <1>4
<1>6. TypeNum(v, type) = v.want[last]
  BY DEF TypeNum
<1>7. QED BY <1>5, <1>6

\* How many pods of a type are kept is a number.
LEMMA TypeNumNat ==
    ASSUME NEW v, v.want \in [Tasks -> 0..MaxReplicas], NEW type
    PROVE  TypeNum(v, type) \in Nat
<1> DEFINE listed == {t \in Tasks : TaskType[t] = type /\ v.want[t] > 0}
<1>1. CASE listed = {}
  BY <1>1 DEF TypeNum
<1>2. CASE listed # {}
  <2>1. PICK last \in listed : TypeNum(v, type) = v.want[last]
    BY <1>2, LastListed
  <2>2. v.want[last] \in Nat
    BY TasksAssumption
  <2>3. QED BY <2>1, <2>2
<1>3. QED BY <1>1, <1>2

\* The replicas of a task that a job wants, counted.
LEMMA TaskReplicas ==
    ASSUME NEW v, v.want \in [Tasks -> 0..MaxReplicas], NEW t \in Tasks
    PROVE  LET own == {s \in Desired(v) : s[1] = t}
           IN  IsFiniteSet(own) /\ Cardinality(own) = v.want[t]
<1> DEFINE own == {s \in Desired(v) : s[1] = t}
           ranks == 0..(v.want[t] - 1)
           name == [i \in ranks |-> <<t, i>>]
<1>1. v.want[t] \in Nat /\ v.want[t] <= MaxReplicas
  BY TasksAssumption
<1>2. IsFiniteSet(ranks) /\ Cardinality(ranks) = v.want[t]
  <2> DEFINE n == v.want[t]
  <2>1. n \in Nat
    BY <1>1
  <2> HIDE DEF n
  <2>2. IsFiniteSet(0..(n - 1)) /\ Cardinality(0..(n - 1)) = n
    <3>1. 0 \in Int /\ n - 1 \in Int
      BY <2>1
    <3>2. /\ IsFiniteSet(0..(n - 1))
          /\ Cardinality(0..(n - 1)) = IF 0 > n - 1 THEN 0 ELSE (n - 1) - 0 + 1
      BY <3>1, FS_Interval
    <3>. QED  BY <2>1, <3>2
  <2>. QED  BY <2>2 DEF n
<1>3. name \in Bijection(ranks, own)
  <2>1. \A i \in ranks : <<t, i>> \in own
    BY <1>1, TasksAssumption DEF Desired, Slots
  <2>2. \A s \in own : s[2] \in ranks /\ s = <<t, s[2]>>
    BY <1>1, TasksAssumption DEF Desired, Slots
  <2> HIDE DEF own, ranks
  <2>3. name \in [ranks -> own]
    BY <2>1
  <2>4. \A i, j \in ranks : name[i] = name[j] => i = j
    OBVIOUS
  <2>5. \A s \in own : s[2] \in ranks /\ name[s[2]] = s
    BY <2>2
  <2> HIDE DEF name
  <2>6. name \in Injection(ranks, own)
    BY <2>3, <2>4 DEF Injection, IsInjective
  <2>7. name \in Surjection(ranks, own)
    BY <2>3, <2>5 DEF Surjection
  <2>. QED  BY <2>6, <2>7 DEF Bijection
<1>4. ExistsBijection(ranks, own)
  BY <1>3 DEF ExistsBijection
<1>5. QED BY <1>2, <1>4, FS_Bijection

\* No two tasks are of one type; those of type none may be, to the validator.
DistinctTypes == \A t, u \in Tasks : TaskType[t] = TaskType[u] => t = u

\* What deleteRedundantReplicas keeps of a type that only one task has is what
\* the job wants of it.
LEMMA TypeNumIsWanted ==
    ASSUME NEW v, v.want \in [Tasks -> 0..MaxReplicas], DistinctTypes,
           NEW t \in Tasks
    PROVE  TypeNum(v, TaskType[t]) = Wanted(v, TaskType[t])
<1> DEFINE own == {s \in Desired(v) : s[1] = t}
           listed == {u \in Tasks : TaskType[u] = TaskType[t] /\ v.want[u] > 0}
<1>1. OfType(Desired(v), TaskType[t]) = own
  BY DEF OfType, Desired, Slots, DistinctTypes
<1>2. Wanted(v, TaskType[t]) = v.want[t]
  BY <1>1, TaskReplicas DEF Wanted
<1>3. v.want[t] \in Nat
  BY TasksAssumption
<1>4. CASE v.want[t] = 0
  <2>1. listed = {}
    BY <1>4 DEF DistinctTypes
  <2>2. QED BY <1>2, <1>4, <2>1 DEF TypeNum
<1>5. CASE v.want[t] # 0
  <2>1. listed = {t}
    BY <1>3, <1>5 DEF DistinctTypes
  <2>2. TypeNum(v, TaskType[t])
          = v.want[CHOOSE u \in listed : \A w \in listed : w <= u]
    BY <2>1 DEF TypeNum
  <2>3. (CHOOSE u \in listed : \A w \in listed : w <= u) = t
    BY <2>1 DEF Tasks
  <2>4. QED BY <1>2, <2>2, <2>3
<1>6. QED BY <1>4, <1>5

\* deleteRedundantReplicas records for a type the replicas of the last task of
\* it: when two tasks that the job wants replicas of are of one type, it keeps
\* fewer pods of that type than the job wants.
THEOREM SharedTypesAreForgotten ==
    ASSUME NEW v, v.want \in [Tasks -> 0..MaxReplicas],
           NEW t \in Tasks, NEW u \in Tasks,
           t # u, TaskType[t] = TaskType[u], v.want[t] > 0, v.want[u] > 0
    PROVE  TypeNum(v, TaskType[t]) < Wanted(v, TaskType[t])
<1> DEFINE listed == {w \in Tasks : TaskType[w] = TaskType[t] /\ v.want[w] > 0}
<1>1. PICK last \in listed : TypeNum(v, TaskType[t]) = v.want[last]
  BY LastListed
<1>2. PICK other \in {t, u} : other # last
  OBVIOUS
<1> DEFINE own == {s \in Desired(v) : s[1] = last}
           all == OfType(Desired(v), TaskType[t])
           first == <<other, 0>>
<1>3. IsFiniteSet(own) /\ Cardinality(own) = v.want[last] /\ v.want[last] \in Nat
  BY TaskReplicas, TasksAssumption
<1>4. first \in all /\ first \notin own
  BY <1>2, TasksAssumption DEF OfType, Desired, Slots
<1>5. all \in SUBSET Slots /\ own \cup {first} \in SUBSET all
  BY <1>4 DEF OfType, Desired
<1> HIDE DEF own, all, first
<1>6. Cardinality(own \cup {first}) = v.want[last] + 1
  BY <1>3, <1>4, FS_AddElement
<1>7. Cardinality(own \cup {first}) <= Cardinality(all) /\ Cardinality(all) \in Nat
  BY <1>5, PodsCount
<1>8. v.want[last] < Cardinality(all)
  BY <1>3, <1>6, <1>7
<1>9. QED BY <1>1, <1>8 DEF Wanted, all

\* Pods are evicted or the job is scaled, but not both.
Unmixed == \A b \in Budgets : b["evict"] = 0 \/ b["scale"] = 0

\* The phases of a job that has started and is not over.
Active == Phases \ ({"Pending"} \cup Terminal)

\* A pod that will not be ready any more.
Spent(pod) == pod.st \in {"None", "Failed", "Killed"} \/ pod.term

\* As many pods of its type as are kept live without those the pass will delete.
Spared(s) ==
    Cardinality(OfType(LivePods(pods) \ rec.doomed, TaskType[s[1]]))
        >= TypeNum(rec.job, TaskType[s[1]])

\* The job wants what it was submitted with, and has no pods beyond.
Unscaled ==
    /\ left["scale"] = 0
    /\ \A i \in 1..Len(jobs) : jobs[i].want = InitWant
    /\ rec.job.want = InitWant
    /\ rec.missing \subseteq Desired(InitJob)
    /\ AllPods(pods) \subseteq Desired(InitJob)

\* A pod that is to be deleted will not be ready, or can be spared and will be.
DoomedInv ==
    /\ rec.pc \in {"idle", "list"} =>
          rec.doomed = {} /\ rec.missing = {} /\ ~rec.undo
    /\ rec.job.phase \in Active =>
          /\ ~rec.undo
          /\ \A s \in rec.doomed :
                Spent(pods[s]) \/ (left["evict"] = 0 /\ Spared(s))

KeepInv == (left["evict"] = 0 \/ Unscaled) /\ DoomedInv

\* The versions after a step want what versions before it wanted, unless the
\* user scales the job.
LEMMA OnlyUsersScale ==
    ASSUME TypeOK, [Next]_vars, ~Scale, NEW want,
           \A i \in 1..Len(jobs) : jobs[i].want = want
    PROVE  \A i \in 1..Len(jobs') : jobs'[i].want = want
<1>1. Latest'.want = want
  BY VersionsFollow DEF VersionsMove, TypeOK, Latest
<1>2. QED BY <1>1, VersionsFollow DEF VersionsMove

\* What the plan of a pass may do to pods: delete failed ones, terminating ones,
\* or those that are left over when of each type enough are kept; and create
\* replicas of the job it has read.
PlanSparing ==
    /\ rec'.job = rec.job
    /\ rec'.missing \subseteq rec.missing \cup Desired(rec.job)
    /\ rec.job.phase \in Active =>
        /\ rec'.undo = rec.undo
        /\ \/ rec'.doomed \in {rec.doomed, {}, FailedPods(pcache, Live),
                               AllPods(pcache) \ Live}
           \/ /\ Cardinality(Live) > Expected
              /\ \E keep \in SUBSET Live :
                    /\ \A t \in Tasks : KeepsEnough(keep, TaskType[t])
                    /\ rec'.doomed = Live \ keep

\* The plans for a job that is not preemptible are of this kind.
LEMMA PlansSpare ==
    ASSUME TypeOK, ReconcileByPhase, ~Preemptible
    PROVE  PlanSparing
<1>1. rec \in Pass
  BY DEF TypeOK
<1>2. ASSUME NEW p, Set(p)
      PROVE  PlanSparing
  BY <1>1, <1>2 DEF Set, Pass, PlanSparing
<1>3. ASSUME NEW S, NEW b, Delete(S, b)
      PROVE  /\ rec'.job = rec.job /\ rec'.missing = rec.missing
             /\ rec'.undo = rec.undo /\ rec'.doomed = S
  BY <1>1, <1>3 DEF Delete, Pass
<1>4. ASSUME Panic
      PROVE  PlanSparing
  BY <1>1, <1>4 DEF Panic, Pass, PlanSparing
<1>5. ASSUME NEW S, CreateMissedReplicas(S)
      PROVE  /\ rec'.job = rec.job /\ rec'.undo = rec.undo /\ rec'.doomed = S
             /\ rec'.missing \subseteq Desired(rec.job)
  BY <1>1, <1>5 DEF CreateMissedReplicas, Pass
<1>6. ASSUME DeleteRedundantReplicas, Cardinality(Live) > Expected
      PROVE  PlanSparing
  <2>1. PICK keep \in SUBSET Live :
            /\ \A t \in Tasks : KeepsEnough(keep, TaskType[t])
            /\ Delete(Live \ keep, FALSE)
    BY <1>6 DEF DeleteRedundantReplicas
  <2>2. QED BY <1>3, <1>6, <2>1 DEF PlanSparing
<1>7. CASE ReconcilePending
  <2>1. rec.job.phase \notin Active
    BY <1>7 DEF ReconcilePending, Active
  <2>2. ASSUME NEW p, BuildAndCreatePods(p)
        PROVE  PlanSparing
    BY <1>1, <1>4, <2>1, <2>2 DEF BuildAndCreatePods, Pass, PlanSparing
  <2>3. QED BY <1>2, <1>3, <1>7, <2>1, <2>2 DEF ReconcilePending, PlanSparing
<1>8. CASE ReconcileStarting \/ ReconcileRunning
  BY <1>2, <1>4, <1>8 DEF ReconcileStarting, ReconcileRunning,
     CheckPodsCompletion, DetectReschedule
<1>9. CASE ReconcileRestarting
  <2>1. Delete(FailedPods(pcache, Live), FALSE) => PlanSparing
    BY <1>3 DEF PlanSparing
  <2>2. CreateMissedReplicas({}) => PlanSparing
    BY <1>5 DEF PlanSparing
  <2>3. QED BY <1>2, <1>6, <1>9, <2>1, <2>2 DEF ReconcileRestarting
<1>10. CASE ReconcileRescheduling
  <2>1. CreateMissedReplicas(AllPods(pcache) \ Live) => PlanSparing
    BY <1>5 DEF PlanSparing
  <2>2. QED BY <1>2, <1>6, <1>10, <2>1 DEF ReconcileRescheduling
<1>11. CASE CleanUp
  <2>1. rec.job.phase \notin Active
    BY <1>11 DEF CleanUp, Active
  <2>2. QED BY <1>3, <1>11, <2>1 DEF CleanUp, PlanSparing
<1>12. QED
  BY <1>7, <1>8, <1>9, <1>10, <1>11 DEF ReconcileByPhase

\* The pods a plan deletes, when it lists the pods as they are, are spent or can
\* be spared; and none is left over while nobody scales the job.
LEMMA PlanKeeps ==
    ASSUME TypeOK, KeepInv, ReconcileByPhase, ~Preemptible, ~Lagging
    PROVE  KeepInv'
<1>1. /\ PlanSparing /\ ListPods /\ UNCHANGED <<jobs, seen, pods, pcache>>
      /\ rec.pc = "list" /\ pcache = pods /\ rec' \in Pass
      /\ rec'.pc \notin {"idle", "list"}
  BY PlansSpare, ReconcilePlans, ListPodsType, PlansAreLawful
     DEF ListPods, PlanMade, PlanLawful
<1>2. /\ rec.doomed = {} /\ rec.missing = {} /\ ~rec.undo
      /\ rec'.job = rec.job /\ rec'.missing \subseteq Desired(rec.job)
  BY <1>1 DEF KeepInv, DoomedInv, PlanSparing
<1>3. /\ left["evict"] = 0 => left'["evict"] = 0
      /\ left["scale"] = 0 => left'["scale"] = 0
  BY <1>1 DEF ListPods, Spend, TypeOK, Kinds
<1>4. Unscaled => Unscaled' /\ Cardinality(Live) <= Expected
  <2> SUFFICES ASSUME Unscaled
               PROVE  Unscaled' /\ Cardinality(Live) <= Expected
    OBVIOUS
  <2>2. Desired(rec.job) = Desired(InitJob)
    BY DEF Unscaled, Desired, InitJob
  <2>3. Unscaled'
    BY <1>1, <1>2, <1>3, <2>2 DEF Unscaled, AllPods
  <2>4. Live \in SUBSET Desired(rec.job)
    BY <1>1, <2>2 DEF Unscaled, Live, LivePods
  <2>5. Expected = Cardinality(Desired(rec.job))
    BY DEF Expected, Replicas, Desired
  <2>6. Desired(rec.job) \in SUBSET Slots
    BY DEF Desired
  <2>7. QED BY <2>3, <2>4, <2>5, <2>6, PodsCount
<1>5. ASSUME rec.job.phase \in Active, NEW s \in rec'.doomed
      PROVE  Spent(pods'[s]) \/ (left'["evict"] = 0 /\ Spared(s)')
  <2>1. CASE rec'.doomed \in {rec.doomed, {}, FailedPods(pcache, Live),
                              AllPods(pcache) \ Live}
    BY <1>1, <1>2, <1>5, <2>1
       DEF FailedPods, IsPodFailed, Live, LivePods, Spent
  <2>2. CASE /\ Cardinality(Live) > Expected
             /\ \E keep \in SUBSET Live :
                    /\ \A t \in Tasks : KeepsEnough(keep, TaskType[t])
                    /\ rec'.doomed = Live \ keep
    <3>1. PICK keep \in SUBSET Live :
                    /\ \A t \in Tasks : KeepsEnough(keep, TaskType[t])
                    /\ rec'.doomed = Live \ keep
      BY <2>2
    <3> DEFINE type == TaskType[s[1]]
    <3>2. s \in Live /\ s \notin keep /\ Live \subseteq Slots
      BY <1>5, <3>1 DEF Live, LivePods, AllPods
    <3>3. s[1] \in Tasks
      BY <3>2 DEF Slots
    <3>4. s \in OfType(Live, type) /\ s \notin OfType(keep, type)
      BY <3>2 DEF OfType
    <3>5. KeepsEnough(keep, type)
      BY <3>1, <3>3
    <3>6. Cardinality(OfType(keep, type)) = TypeNum(rec.job, type)
      BY <3>4, <3>5 DEF KeepsEnough
    <3>7. LivePods(pods') \ rec'.doomed = keep
      BY <1>1, <3>1 DEF Live, LivePods, AllPods
    <3>8. Cardinality(OfType(keep, type)) \in Nat
      BY <3>2, PodsCount DEF OfType
    <3>9. Spared(s)'
      <4>1. Cardinality(OfType(LivePods(pods') \ rec'.doomed, type))
                >= TypeNum(rec'.job, type)
        BY <1>2, <3>6, <3>7, <3>8
      <4>2. QED BY <4>1 DEF Spared, OfType, TypeNum, LivePods, AllPods
    <3>10. ~Unscaled
      <4>1. Cardinality(Live) \in Nat /\ Expected \in Nat
        BY <3>2, PodsCount, ReplicasNat DEF Expected
      <4>2. QED BY <1>4, <2>2, <4>1
    <3>11. left'["evict"] = 0
      BY <1>3, <3>10 DEF KeepInv
    <3>12. QED BY <3>9, <3>11
  <2>3. QED BY <1>1, <1>5, <2>1, <2>2 DEF PlanSparing
<1>6. rec.job.phase \in Active => ~rec'.undo
  BY <1>1, <1>2 DEF PlanSparing
<1>7. DoomedInv'
  BY <1>1, <1>2, <1>5, <1>6 DEF DoomedInv
<1>8. QED BY <1>3, <1>4, <1>7 DEF KeepInv

\* A step of this kind leaves what is spared spared: the pass deletes no more
\* than before, at least the same pods stay, and what is spent stays spent.
Keeps ==
    /\ left["evict"] = 0 => left'["evict"] = 0
    /\ left["scale"] = 0 => left'["scale"] = 0
    /\ rec'.job = rec.job /\ rec'.pc \notin {"idle", "list"} \ {rec.pc}
    /\ rec'.missing \subseteq rec.missing
    /\ AllPods(pods') \subseteq AllPods(pods) \cup rec.missing
    /\ rec.pc \in {"idle", "list"} => UNCHANGED rec
    /\ rec.job.phase \in Active =>
        /\ ~rec.undo => ~rec'.undo /\ rec'.doomed \subseteq rec.doomed
        /\ LivePods(pods) \ rec.doomed \subseteq LivePods(pods') \ rec'.doomed
        /\ \A s \in rec'.doomed : Spent(pods[s]) => Spent(pods'[s])

\* Such a step keeps what is known of the pods to be deleted.
LEMMA KeepersKeep ==
    ASSUME TypeOK, TypeOK', KeepInv, Keeps, [Next]_vars, ~Scale
    PROVE  KeepInv'
<1>1. Unscaled => Unscaled'
  <2> SUFFICES ASSUME Unscaled PROVE Unscaled'
    OBVIOUS
  <2>1. \A i \in 1..Len(jobs') : jobs'[i].want = InitWant
    BY OnlyUsersScale DEF Unscaled
  <2>2. /\ left'["scale"] = 0 /\ rec'.job.want = InitWant
        /\ rec'.missing \subseteq Desired(InitJob)
        /\ AllPods(pods') \subseteq Desired(InitJob)
    BY DEF Unscaled, Keeps
  <2>3. QED BY <2>1, <2>2 DEF Unscaled, AllPods
<1>2. ASSUME rec.job.phase \in Active, NEW s \in rec'.doomed
      PROVE  Spent(pods'[s]) \/ (left'["evict"] = 0 /\ Spared(s)')
  <2>1. s \in rec.doomed /\ (Spent(pods[s]) => Spent(pods'[s]))
    BY <1>2 DEF KeepInv, DoomedInv, Keeps
  <2>2. CASE Spent(pods[s])
    BY <2>1, <2>2
  <2>3. CASE left["evict"] = 0 /\ Spared(s)
    <3> DEFINE kept == LivePods(pods) \ rec.doomed
               kept2 == LivePods(pods') \ rec'.doomed
               type == TaskType[s[1]]
               num == TypeNum(rec.job, type)
    <3>1. OfType(kept2, type) \in SUBSET Slots
          /\ OfType(kept, type) \in SUBSET OfType(kept2, type)
      BY <1>2 DEF OfType, Keeps, LivePods, AllPods
    <3>2. Cardinality(OfType(kept, type)) <= Cardinality(OfType(kept2, type))
          /\ Cardinality(OfType(kept, type)) \in Nat
          /\ Cardinality(OfType(kept2, type)) \in Nat
      BY <3>1, PodsCount
    <3>3. Cardinality(OfType(kept, type)) >= num
      BY <2>3 DEF Spared
    <3>4. num \in Nat
      <4>1. rec.job.want \in [Tasks -> 0..MaxReplicas]
        BY DEF TypeOK, Pass, JobVersion
      <4>2. QED BY <4>1, TypeNumNat
    <3> HIDE DEF kept, num
    <3>5. Cardinality(OfType(kept2, type)) >= num
      BY <3>2, <3>3, <3>4
    <3>6. Cardinality(OfType(kept2, type)) >= TypeNum(rec'.job, type)
      BY <3>5 DEF num, Keeps
    <3>7. Spared(s)'
      BY <3>6 DEF Spared, OfType, TypeNum, LivePods, AllPods
    <3>8. left'["evict"] = 0
      BY <2>3 DEF Keeps
    <3>9. QED BY <3>7, <3>8
  <2>4. QED BY <1>2, <2>1, <2>2, <2>3 DEF KeepInv, DoomedInv
<1>3. DoomedInv'
  BY <1>2 DEF KeepInv, DoomedInv, Keeps
<1>4. QED BY <1>1, <1>3 DEF KeepInv, Keeps

\* An idle reconciler, or one that starts a pass, means to delete nothing.
LEMMA FreshKeeps ==
    ASSUME TypeOK, KeepInv, [Next]_vars, ~Scale, UNCHANGED pods,
           rec'.pc \in {"idle", "list"}, rec'.doomed = {}, rec'.missing = {},
           ~rec'.undo, rec'.job \in {InitJob, Cached},
           left["evict"] = 0 => left'["evict"] = 0,
           left["scale"] = 0 => left'["scale"] = 0
    PROVE  KeepInv'
<1>1. Unscaled => Unscaled'
  <2> SUFFICES ASSUME Unscaled PROVE Unscaled'
    OBVIOUS
  <2>1. \A i \in 1..Len(jobs') : jobs'[i].want = InitWant
    BY OnlyUsersScale DEF Unscaled
  <2>2. Cached.want = InitWant /\ InitJob.want = InitWant
    BY DEF TypeOK, Unscaled, Cached, InitJob
  <2>3. left'["scale"] = 0 /\ rec'.job.want = InitWant
    BY <2>2 DEF Unscaled
  <2>4. AllPods(pods') \subseteq Desired(InitJob)
    BY DEF Unscaled
  <2>5. QED BY <2>1, <2>3, <2>4 DEF Unscaled, AllPods
<1>2. QED BY <1>1 DEF KeepInv, DoomedInv

\* No call of a pass deletes a pod that is not spared.
LEMMA CallsKeep ==
    ASSUME TypeOK, TypeOK', KeepInv, [Next]_vars, ~Scale,
           DeletePod \/ CreatePod \/ CreateFails \/ BuildPodPanics
    PROVE  KeepInv'
<1>1. /\ rec \in Pass /\ pods \in [Slots -> Pod] /\ left \in [Kinds -> Nat]
      /\ rec.pc = "work"
  BY DEF TypeOK, DeletePod, CreatePod, CreateFails, BuildPodPanics, Working
<1>2. ASSUME Spend("fault")
      PROVE  left'["evict"] = left["evict"] /\ left'["scale"] = left["scale"]
  BY <1>1, <1>2 DEF Spend, Kinds
<1>3. CASE DeletePod
  <2>1. PICK s \in rec.doomed :
            \/ /\ pods' = [pods EXCEPT ![s] = NoPod]
               /\ rec' = [rec EXCEPT !.doomed = @ \ {s}]
               /\ UNCHANGED left
            \/ /\ Spend("fault")
               /\ rec' = IF rec.swallow
                         THEN [rec EXCEPT !.doomed = @ \ {s}]
                         ELSE [rec EXCEPT !.doomed = {}, !.missing = {}]
               /\ UNCHANGED pods
    BY <1>3 DEF DeletePod
  <2>2. s \in Slots
    BY <1>1 DEF Pass
  <2>3. CASE /\ pods' = [pods EXCEPT ![s] = NoPod]
             /\ rec' = [rec EXCEPT !.doomed = @ \ {s}]
             /\ UNCHANGED left
    <3>1. /\ rec'.doomed = rec.doomed \ {s} /\ rec'.pc = "work"
          /\ rec'.job = rec.job /\ rec'.missing = rec.missing
          /\ rec'.undo = rec.undo
      BY <1>1, <2>3 DEF Pass
    <3>2. pods'[s] = NoPod /\ \A q \in Slots \ {s} : pods'[q] = pods[q]
      BY <1>1, <2>2, <2>3
    <3>3. AllPods(pods') \subseteq AllPods(pods)
      BY <3>2 DEF AllPods, NoPod
    <3>4. LivePods(pods) \ rec.doomed \subseteq LivePods(pods') \ rec'.doomed
      BY <2>1, <3>1, <3>2 DEF AllPods, LivePods
    <3>5. \A q \in rec'.doomed : Spent(pods[q]) => Spent(pods'[q])
      BY <1>1, <3>1, <3>2 DEF Pass
    <3>6. Keeps
      BY <1>1, <2>3, <3>1, <3>3, <3>4, <3>5 DEF Keeps
    <3>7. QED BY <3>6, KeepersKeep
  <2>4. CASE /\ Spend("fault")
             /\ rec' = IF rec.swallow
                       THEN [rec EXCEPT !.doomed = @ \ {s}]
                       ELSE [rec EXCEPT !.doomed = {}, !.missing = {}]
             /\ UNCHANGED pods
    <3>1. /\ rec'.doomed \subseteq rec.doomed /\ rec'.pc = "work"
          /\ rec'.job = rec.job /\ rec'.missing \subseteq rec.missing
          /\ rec'.undo = rec.undo
      BY <1>1, <2>4 DEF Pass
    <3>2. Keeps
      BY <1>1, <1>2, <2>4, <3>1 DEF Keeps
    <3>3. QED BY <3>2, KeepersKeep
  <2>5. QED BY <2>1, <2>3, <2>4
<1>4. CASE CreatePod
  <2>1. /\ rec.doomed = {} /\ rec.missing # {} /\ rec.missing \in SUBSET Slots
        /\ rec' = [rec EXCEPT !.missing = @ \ {FirstMissing}, !.next = @ + 1]
        /\ UNCHANGED left
        /\ pods' = [pods EXCEPT ![FirstMissing] =
                IF @.st = "None" THEN BuildPod(rec.job, rec.next) ELSE @]
    BY <1>1, <1>4 DEF CreatePod, Pass
  <2>2. FirstMissing \in rec.missing
    BY <2>1, FirstIsMissing
  <2> DEFINE f == FirstMissing
  <2>3. /\ \A q \in Slots \ {f} : pods'[q] = pods[q]
        /\ pods[f].st # "None" => pods'[f] = pods[f]
    BY <1>1, <2>1, <2>2
  <2>4. /\ rec'.doomed = {} /\ rec'.pc = "work" /\ rec'.job = rec.job
        /\ rec'.missing \subseteq rec.missing /\ rec'.undo = rec.undo
    BY <1>1, <2>1 DEF Pass
  <2> HIDE DEF f
  <2>5. AllPods(pods') \subseteq AllPods(pods) \cup rec.missing
    BY <2>2, <2>3 DEF AllPods, f
  <2>6. LivePods(pods) \subseteq LivePods(pods')
    BY <2>3 DEF AllPods, LivePods
  <2>7. Keeps
    BY <1>1, <2>1, <2>4, <2>5, <2>6 DEF Keeps
  <2>8. QED BY <2>7, KeepersKeep
<1>5. CASE CreateFails
  <2>1. /\ rec.doomed = {} /\ Spend("fault") /\ UNCHANGED pods
        /\ rec'.pc = "work" /\ rec'.job = rec.job /\ rec'.missing = {}
        /\ rec'.undo = rec.undo /\ (~rec.undo => rec'.doomed = {})
    BY <1>1, <1>5 DEF CreateFails, Pass
  <2>2. rec.job.phase \in Active => ~rec.undo
    BY DEF KeepInv, DoomedInv
  <2>3. Keeps
    BY <1>1, <1>2, <2>1, <2>2 DEF Keeps
  <2>4. QED BY <2>3, KeepersKeep
<1>6. CASE BuildPodPanics
  <2>1. /\ UNCHANGED <<pods, left>> /\ rec'.pc = "panicked"
        /\ rec'.job = rec.job /\ rec'.missing = rec.missing
        /\ rec'.undo = rec.undo /\ rec'.doomed = rec.doomed
    BY <1>1, <1>6 DEF BuildPodPanics, Panic, Pass
  <2>2. Keeps
    BY <1>1, <2>1 DEF Keeps
  <2>3. QED BY <2>2, KeepersKeep
<1>7. QED BY <1>3, <1>4, <1>5, <1>6

\* Steps that touch neither the pods nor the pass.
LEMMA OthersKeep ==
    ASSUME TypeOK, TypeOK', KeepInv, [Next]_vars, ~Scale,
           UNCHANGED <<pods, rec>>,
           left["evict"] = 0 => left'["evict"] = 0,
           left["scale"] = 0 => left'["scale"] = 0
    PROVE  KeepInv'
<1>1. Keeps
  BY DEF Keeps
<1>2. QED BY <1>1, KeepersKeep

\* What the kubelet does to a pod spends it or leaves it alive; while pods may be
\* evicted, no pod is spared, so none that counts on being spared is lost.
LEMMA PodStepKeeps ==
    ASSUME TypeOK, TypeOK', KeepInv, NEW s \in Slots, PodStep(s), ~Scale
    PROVE  KeepInv'
<1>1. /\ pods \in [Slots -> Pod] /\ left \in [Kinds -> Nat] /\ UNCHANGED rec
      /\ [Next]_vars /\ UNCHANGED jobs
  BY DEF TypeOK, PodStep, SchedulePod, PodGetsReady, PodCompletes, ReapPod,
         PodFails, NodeRejects, EvictPod, Next
<1>2. \A q \in Slots : q # s => pods'[q] = pods[q]
  BY <1>1 DEF PodStep, SchedulePod, PodGetsReady, PodCompletes, ReapPod,
         PodFails, NodeRejects, EvictPod, Move
<1>3. CASE ~EvictPod(s)
  <2>1. \/ pods[s].term /\ pods'[s] = NoPod
        \/ \E st \in PodStates \ {"None"} :
              /\ pods[s].st \notin {"None", "Failed", "Killed"} /\ ~pods[s].term
              /\ pods'[s] = [pods[s] EXCEPT !.st = st]
    BY <1>1, <1>3 DEF PodStep, SchedulePod, PodGetsReady, PodCompletes, ReapPod,
         PodFails, NodeRejects, Move, PodStates
  <2>2. left'["evict"] = left["evict"] /\ left'["scale"] = left["scale"]
    BY <1>1, <1>3 DEF PodStep, SchedulePod, PodGetsReady, PodCompletes, ReapPod,
         PodFails, NodeRejects, Spend, Kinds
  <2> DEFINE old == pods[s]
             new == pods'[s]
             moved == /\ Spent(old) => Spent(new)
                      /\ new.st # "None" =>
                            old.st # "None" /\ new.term = old.term
                      /\ old.st # "None" /\ ~old.term =>
                            new.st # "None" /\ ~new.term
  <2>3. moved
    <3>1. old \in Pod
      BY <1>1
    <3>2. CASE old.term /\ new = NoPod
      <4>1. new.st = "None" /\ new.term = FALSE
        BY <3>2 DEF NoPod
      <4>2. QED BY <3>2, <4>1 DEF Spent
    <3>3. ASSUME NEW st \in PodStates \ {"None"},
                 old.st \notin {"None", "Failed", "Killed"}, ~old.term,
                 new = [old EXCEPT !.st = st]
          PROVE  moved
      <4>1. new.st = st /\ new.term = old.term
        BY <3>1, <3>3 DEF Pod
      <4>2. QED BY <3>3, <4>1 DEF Spent
    <3>4. QED BY <2>1, <3>2, <3>3
  <2>4. new.st # "None" => old.st # "None" /\ new.term = old.term
    BY <2>3
  <2>5. old.st # "None" /\ ~old.term => new.st # "None" /\ ~new.term
    BY <2>3
  <2>6. AllPods(pods') \subseteq AllPods(pods)
    BY <1>2, <2>4 DEF AllPods
  <2>7. LivePods(pods) \subseteq LivePods(pods')
    BY <1>2, <2>5 DEF AllPods, LivePods
  <2>8. \A q \in rec.doomed : Spent(pods[q]) => Spent(pods'[q])
    BY <1>2, <2>3 DEF TypeOK, Pass
  <2>9. Keeps
    BY <1>1, <2>2, <2>6, <2>7, <2>8 DEF Keeps
  <2>10. QED BY <1>1, <2>9, KeepersKeep
<1>4. CASE EvictPod(s)
  <2>1. /\ left["evict"] # 0 /\ left'["scale"] = left["scale"]
        /\ pods'[s] = [pods[s] EXCEPT !.term = TRUE] /\ pods[s].st # "None"
    BY <1>1, <1>4 DEF EvictPod, Spend, Kinds
  <2>2. Unscaled
    BY <2>1 DEF KeepInv
  <2>3. pods'[s].term /\ pods'[s].st = pods[s].st
    BY <1>1, <2>1 DEF Pod
  <2>4. AllPods(pods') = AllPods(pods)
    BY <1>2, <2>3 DEF AllPods
  <2>5. Unscaled'
    BY <1>1, <2>1, <2>2, <2>4 DEF Unscaled, AllPods
  <2>6. \A q \in Slots : Spent(pods[q]) => Spent(pods'[q])
    BY <1>2, <2>3 DEF Spent
  <2>7. DoomedInv'
    BY <1>1, <2>1, <2>6 DEF KeepInv, DoomedInv, TypeOK, Pass
  <2>8. QED BY <2>5, <2>7 DEF KeepInv
<1>5. QED BY <1>3, <1>4

\* A user who scales the job finds that pods are no longer evicted.
LEMMA ScaleKeeps ==
    ASSUME TypeOK, KeepInv, Scale
    PROVE  KeepInv'
<1>1. /\ UNCHANGED <<pods, rec>> /\ left["scale"] # 0
      /\ left'["evict"] = left["evict"]
  BY DEF Scale, Edit, Spend, TypeOK, Kinds
<1>2. left["evict"] = 0
  BY <1>1 DEF KeepInv, Unscaled
<1>3. \A s : Spared(s) => Spared(s)'
  BY <1>1 DEF Spared, OfType, TypeNum, LivePods, AllPods
<1>4. \A s : Spent(pods[s]) => Spent(pods'[s])
  BY <1>1
<1>5. DoomedInv'
  BY <1>1, <1>2, <1>3, <1>4 DEF KeepInv, DoomedInv
<1>6. QED BY <1>1, <1>2, <1>5 DEF KeepInv

\* Every step of the system.
LEMMA StepKeeps ==
    ASSUME TypeOK, TypeOK', KeepInv, [Next]_vars, ~Preemptible, ~Lagging
    PROVE  KeepInv'
<1>1. left \in [Kinds -> Nat]
  BY DEF TypeOK
<1>2. ASSUME Spend("timeout") \/ Spend("crash") \/ Spend("alloc") \/ UNCHANGED left
      PROVE  left'["evict"] = left["evict"] /\ left'["scale"] = left["scale"]
  BY <1>1, <1>2 DEF Spend, Kinds
<1>3. CASE Scale BY <1>3, ScaleKeeps
<1>4. CASE BeginPass /\ ~Scale
  BY <1>4, FreshKeeps DEF BeginPass, Idle
<1>5. CASE ReconcileByPhase BY <1>5, PlanKeeps
<1>6. CASE (DeletePod \/ CreatePod \/ CreateFails \/ BuildPodPanics) /\ ~Scale
  BY <1>6, CallsKeep
<1>7. CASE FinishPass /\ ~Scale
  BY <1>2, <1>7, FreshKeeps DEF FinishPass, Idle
<1>8. CASE (HandleJobUpdate \/ SyncJob \/ SyncPods \/ Reallocate \/ UNCHANGED vars)
             /\ ~Scale
  BY <1>2, <1>8, OthersKeep
     DEF HandleJobUpdate, SyncJob, SyncPods, Reallocate, Edit, vars
<1>9. CASE (Crash \/ Restart) /\ ~Scale
  BY <1>2, <1>9, FreshKeeps DEF Crash, Restart, Recover, Idle
<1>10. ASSUME NEW s \in Slots, PodStep(s), ~Scale
       PROVE  KeepInv'
  BY <1>10, PodStepKeeps
<1>11. QED
  BY <1>3, <1>4, <1>5, <1>6, <1>7, <1>8, <1>9, <1>10
     DEF Next, OperatorStep, PassStep

\* While no pass knows anything and nobody has scaled the job nothing is doomed.
LEMMA InitKeeps ==
    ASSUME Init, Unmixed
    PROVE  KeepInv
<1>1. left["evict"] = 0 \/ left["scale"] = 0
  BY DEF Init, Unmixed
<1>2. /\ jobs = <<InitJob>> /\ rec = Idle /\ AllPods(pods) = {}
  BY DEF Init, AllPods, NoPod
<1>3. DoomedInv
  BY <1>2 DEF DoomedInv, Idle
<1>4. left["scale"] = 0 => Unscaled
  BY <1>2 DEF Unscaled, Idle, InitJob
<1>5. QED BY <1>1, <1>3, <1>4 DEF KeepInv

\* A pod that is ready and in the way of the pass can be spared.
LEMMA DeletionsSpare ==
    ASSUME TypeOK, KeepInv, DeletePod, rec.job.phase \in Active,
           DistinctTypes, NEW s \in ReadyPods(pods), pods'[s] = NoPod
    PROVE  Cardinality(OfType(LivePods(pods), TaskType[s[1]]))
               > Wanted(rec.job, TaskType[s[1]])
<1>1. /\ s \in LivePods(pods) /\ pods[s].st = "Ready" /\ ~pods[s].term
      /\ s \in Slots
  BY DEF ReadyPods, InState, LivePods, AllPods
<1>2. s \in rec.doomed
  <2>1. PICK q \in rec.doomed :
            pods' = [pods EXCEPT ![q] = NoPod] \/ UNCHANGED pods
    BY DEF DeletePod
  <2>2. pods \in [Slots -> Pod] /\ pods'[s] # pods[s]
    BY <1>1 DEF TypeOK, NoPod
  <2>3. QED BY <1>1, <2>1, <2>2
<1>3. Spared(s)
  BY <1>1, <1>2 DEF KeepInv, DoomedInv, Spent
<1> DEFINE type == TaskType[s[1]]
           kept == OfType(LivePods(pods) \ rec.doomed, type)
           all == OfType(LivePods(pods), type)
           num == TypeNum(rec.job, type)
<1>4. /\ all \in SUBSET Slots /\ kept \in SUBSET all
      /\ s \in all /\ s \notin kept
  BY <1>1, <1>2 DEF OfType, LivePods, AllPods
<1>5. Cardinality(kept) >= num
  BY <1>3 DEF Spared
<1>6. num \in Nat
  <2>1. rec.job.want \in [Tasks -> 0..MaxReplicas]
    BY DEF TypeOK, Pass, JobVersion
  <2>2. QED BY <2>1, TypeNumNat
<1> HIDE DEF num, kept, all
<1>7. /\ Cardinality(kept) \in Nat /\ Cardinality(all) \in Nat
      /\ Cardinality(kept) <= Cardinality(all)
      /\ Cardinality(kept) # Cardinality(all)
  BY <1>4, PodsCount
<1>8. Cardinality(all) > num
  BY <1>5, <1>6, <1>7
<1>9. num = Wanted(rec.job, type)
  <2>1. rec.job.want \in [Tasks -> 0..MaxReplicas] /\ s[1] \in Tasks
    BY <1>1 DEF TypeOK, Pass, JobVersion, Slots
  <2>2. QED BY <2>1, TypeNumIsWanted DEF num
<1>10. QED BY <1>8, <1>9 DEF all

\* When every pass starts from caught-up caches, and a job that is scaled does
\* not lose pods to evictions as well, a pass deletes of the pods of a job that
\* is not preemptible, and whose tasks are of different types, only those that
\* will not be ready any more, and those beyond what the job wants of their
\* type: at each single deletion, whatever the kubelet, the caches and the user
\* do between listing and deleting.  SharedTypesAreForgotten says why the types
\* have to differ.
THEOREM ReadyPodsAreKept ==
    ~Lagging /\ ~Preemptible /\ Unmixed /\ DistinctTypes
        => (Spec => []KeepInv /\ ReadyPodsKept)
<1> SUFFICES ASSUME ~Lagging, ~Preemptible, Unmixed, DistinctTypes
             PROVE  Spec => []KeepInv /\ ReadyPodsKept
  OBVIOUS
<1>1. Init => KeepInv
  BY InitKeeps
<1>2. TypeOK /\ TypeOK' /\ KeepInv /\ [Next]_vars => KeepInv'
  BY StepKeeps
<1>3. TypeOK /\ KeepInv /\ [Next]_vars =>
        [DeletePod /\ rec.job.phase \in Phases \ ({"Pending"} \cup Terminal)
            => \A s \in ReadyPods(pods) :
                  pods'[s] = NoPod
                    => Cardinality(OfType(LivePods(pods), TaskType[s[1]]))
                          > Wanted(rec.job, TaskType[s[1]])]_vars
  BY DeletionsSpare DEF Active
<1>4. QED BY <1>1, <1>2, <1>3, TypeCorrect, PTL DEF Spec, ReadyPodsKept

-----------------------------------------------------------------------------
(* Panics.                                                                 *)

\* The pods of a listing are among those of another, and their ranks are too.
Fewer(p, q) ==
    /\ AllPods(p) \subseteq AllPods(q)
    /\ \A s \in AllPods(p) : p[s].rank = q[s].rank /\ p[s].of = q[s].of

\* The kubelet ends pods, and moves none to another place.
LEMMA PodStepFewer ==
    ASSUME TypeOK, NEW s \in Slots, PodStep(s)
    PROVE  Fewer(pods', pods)
<1>1. pods \in [Slots -> Pod]
  BY DEF TypeOK
<1>2. ASSUME NEW states, NEW st, "None" \notin states, Move(s, states, st)
      PROVE  Fewer(pods', pods)
  <2>1. /\ s \in AllPods(pods)
        /\ \A q \in Slots : pods'[q].of = pods[q].of
                          /\ pods'[q].rank = pods[q].rank
        /\ \A q \in Slots : q # s => pods'[q] = pods[q]
    BY <1>1, <1>2 DEF Move, Pod, AllPods
  <2>2. QED BY <2>1 DEF Fewer, AllPods
<1>3. CASE EvictPod(s)
  <2>1. \A q \in Slots : /\ pods'[q].of = pods[q].of /\ pods'[q].st = pods[q].st
                         /\ pods'[q].rank = pods[q].rank
    BY <1>1, <1>3 DEF EvictPod, Pod
  <2>2. QED BY <2>1 DEF Fewer, AllPods
<1>4. CASE ReapPod(s)
  <2>1. /\ pods'[s] = NoPod /\ \A q \in Slots : q # s => pods'[q] = pods[q]
    BY <1>1, <1>4 DEF ReapPod
  <2>2. QED BY <2>1 DEF Fewer, AllPods, NoPod
<1>5. QED
  BY <1>2, <1>3, <1>4
     DEF PodStep, SchedulePod, PodGetsReady, PodCompletes, PodFails, NodeRejects

\* Every pod has a rank below the number of replicas it was built among.
InPlace(p) == \A s \in AllPods(p) : p[s].rank < p[s].of

\* A job that never restarted has its pods built in series from rank 0 up, and
\* what is left of a series fits; so a rank can only be too high for the
\* allocation when there are too many replicas for it.
FirstRun ==
    /\ \A i \in 1..Len(jobs) : jobs[i].phase # "Restarting"
    /\ rec.job.phase # "Restarting"
    /\ InPlace(pods) /\ InPlace(pcache)
    /\ rec.missing # {} => rec.next + Cardinality(rec.missing) <= Expected
    /\ rec.pc = "panicked" => Expected > Len(rec.job.alloc)

PanicInv ==
    IF Preemptible THEN Latest.entries = 0 => FirstRun ELSE rec.pc # "panicked"

\* A job that was not preemptible, or restarted before, has no panic to explain;
\* and once it restarted it has restarted for good.
LEMMA NotRestartedBefore ==
    ASSUME TypeOK, [Next]_vars, Latest'.entries = 0
    PROVE  /\ Latest.entries = 0
           /\ FirstRun => \A j \in 1..Len(jobs') : jobs'[j].phase # "Restarting"
<1>1. /\ Latest.entries \in Nat /\ Latest.entries <= Latest'.entries
      /\ Latest'.phase = "Restarting" => Latest.phase = "Restarting"
  BY VersionTypes, VersionsFollow DEF VersionsMove, JobVersion
<1>2. FirstRun => Latest.phase # "Restarting"
  BY DEF FirstRun, TypeOK, Latest
<1>3. QED BY <1>1, <1>2, VersionsFollow DEF VersionsMove, FirstRun

\* Steps that build no pod and begin no series.
LEMMA FirstRunStays ==
    ASSUME TypeOK, [Next]_vars, FirstRun, Latest'.entries = 0,
           rec'.job \in {rec.job, Cached, InitJob},
           Fewer(pods', pods), pcache' \in {pcache, pods},
           \/ rec'.missing = {}
           \/ /\ rec'.missing = rec.missing /\ rec'.next = rec.next
              /\ rec'.job = rec.job,
           rec'.pc = "panicked" => rec.pc = "panicked" /\ rec'.job = rec.job
    PROVE  FirstRun'
<1>1. rec'.job.phase # "Restarting"
  BY DEF FirstRun, TypeOK, Cached, InitJob
<1>2. InPlace(pods') /\ InPlace(pcache')
  BY DEF FirstRun, InPlace, Fewer
<1>3. rec'.missing # {} => rec'.next + Cardinality(rec'.missing) <= Expected'
  BY DEF FirstRun, Expected, Replicas
<1>4. rec'.pc = "panicked" => Expected' > Len(rec'.job.alloc)
  BY DEF FirstRun, Expected, Replicas
<1>5. QED BY <1>1, <1>2, <1>3, <1>4, NotRestartedBefore
          DEF FirstRun, InPlace, AllPods

\* What the plan of a pass does to the pods to be created, and when it panics:
\* only for a preemptible job, and if that does not restart only for lack of
\* nodes or over a pod out of place.
PlanSerial ==
    /\ rec'.job = rec.job
    /\ rec'.pc = "panicked" =>
        Preemptible /\ (Expected > Len(rec.job.alloc) \/ ~InPlace(pcache))
    /\ Preemptible /\ rec.job.phase # "Restarting" =>
        \/ rec'.missing = rec.missing /\ rec'.next = rec.next
        \/ rec'.missing = Desired(rec.job) /\ rec'.next = 0

\* All plans are of this kind.
LEMMA PlansAreSerial ==
    ASSUME TypeOK, ReconcileByPhase
    PROVE  PlanSerial
<1>1. rec \in Pass /\ rec.pc = "list"
  BY ReconcilePlans DEF TypeOK, ListPods
<1>2. ASSUME NEW p, Set(p)
      PROVE  PlanSerial
  BY <1>1, <1>2 DEF Set, Pass, PlanSerial
<1>3. ASSUME NEW S, NEW b, Delete(S, b)
      PROVE  PlanSerial
  BY <1>1, <1>3 DEF Delete, Pass, PlanSerial
<1>4. ASSUME Panic, Preemptible, Expected > Len(rec.job.alloc)
      PROVE  PlanSerial
  BY <1>1, <1>4 DEF Panic, Pass, PlanSerial
<1>5. ASSUME MayPanic, Panic
      PROVE  PlanSerial
  <2>1. PICK s \in Live : OutOfRange(pcache[s])
    BY <1>5 DEF MayPanic
  <2>2. s \in AllPods(pcache) /\ pcache[s] \in Pod
    BY <2>1 DEF Live, LivePods, AllPods, TypeOK
  <2>3. ~InPlace(pcache)
    BY <2>1, <2>2 DEF OutOfRange, InPlace, Pod
  <2>4. QED BY <1>1, <1>5, <2>3 DEF MayPanic, Panic, Pass, PlanSerial
<1>6. ASSUME NEW p, BuildAndCreatePods(p)
      PROVE  PlanSerial
  <2>1. CASE Preemptible /\ Expected > Len(rec.job.alloc)
    BY <1>4, <1>6, <2>1 DEF BuildAndCreatePods
  <2>2. CASE ~(Preemptible /\ Expected > Len(rec.job.alloc))
    BY <1>1, <1>6, <2>2 DEF BuildAndCreatePods, Pass, PlanSerial
  <2>3. QED BY <2>1, <2>2
<1>7. ASSUME NEW S, CreateMissedReplicas(S),
             ~Preemptible \/ rec.job.phase = "Restarting"
      PROVE  PlanSerial
  BY <1>1, <1>7 DEF CreateMissedReplicas, Pass, PlanSerial
<1>8. ASSUME DeleteRedundantReplicas
      PROVE  PlanSerial
  BY <1>3, <1>8 DEF DeleteRedundantReplicas
<1>9. ASSUME CheckPodsCompletion \/ DetectReschedule
      PROVE  PlanSerial
  BY <1>2, <1>5, <1>9 DEF CheckPodsCompletion, DetectReschedule
<1>10. CASE ReconcilePending
  BY <1>2, <1>3, <1>6, <1>10 DEF ReconcilePending
<1>11. CASE ReconcileStarting \/ ReconcileRunning
  BY <1>2, <1>9, <1>11 DEF ReconcileStarting, ReconcileRunning
<1>12. CASE ReconcileRestarting
  BY <1>2, <1>3, <1>7, <1>8, <1>12 DEF ReconcileRestarting
<1>13. CASE ReconcileRescheduling
  BY <1>2, <1>3, <1>6, <1>7, <1>8, <1>13 DEF ReconcileRescheduling
<1>14. CASE CleanUp
  BY <1>3, <1>14 DEF CleanUp
<1>15. QED
  BY <1>10, <1>11, <1>12, <1>13, <1>14 DEF ReconcileByPhase

\* The next pod of a series goes to the next place of it.
LEMMA CreatePodFirstRun ==
    ASSUME TypeOK, [Next]_vars, FirstRun, Latest'.entries = 0, CreatePod
    PROVE  FirstRun'
<1> DEFINE n == Expected
           f == FirstMissing
<1>1. /\ rec \in Pass /\ rec.missing \in SUBSET Slots /\ rec.missing # {}
      /\ rec.next \in Nat /\ pods \in [Slots -> Pod] /\ rec.pc = "work"
      /\ n \in Nat
  BY ReplicasNat DEF TypeOK, Pass, CreatePod, Working, Expected
<1>2. f \in rec.missing /\ f \in Slots
  BY <1>1, FirstIsMissing
<1>3. /\ Cardinality(rec.missing) \in Nat /\ Cardinality(rec.missing) >= 1
      /\ Cardinality(rec.missing \ {f}) = Cardinality(rec.missing) - 1
  BY <1>1, OneLessMissing
<1>4. rec.next + Cardinality(rec.missing) <= n
  BY <1>1 DEF FirstRun
<1>5. /\ rec'.missing = rec.missing \ {f} /\ rec'.next = rec.next + 1
      /\ rec'.job = rec.job /\ rec'.pc = "work" /\ UNCHANGED pcache
  BY <1>1 DEF CreatePod, Pass
<1>6. /\ \A s \in Slots : s # f => pods'[s] = pods[s]
      /\ pods'[f] \in {pods[f], BuildPod(rec.job, rec.next)}
      /\ pods[f].st # "None" => pods'[f] = pods[f]
  BY <1>1, <1>2 DEF CreatePod
<1>7. BuildPod(rec.job, rec.next).rank = rec.next
      /\ BuildPod(rec.job, rec.next).of = n
  BY DEF BuildPod, Expected
<1>8. Expected' = n
  BY <1>5 DEF Expected, Replicas
<1> HIDE DEF f, n
<1>9. rec.next < n /\ rec'.next + Cardinality(rec'.missing) <= n
  BY <1>1, <1>3, <1>4, <1>5
<1>10. InPlace(pods')
  <2>1. SUFFICES ASSUME NEW s \in AllPods(pods')
                 PROVE  pods'[s].rank < pods'[s].of
    BY DEF InPlace
  <2>2. s \in Slots
    BY DEF AllPods
  <2>3. CASE s \in AllPods(pods) /\ pods'[s] = pods[s]
    BY <2>3 DEF FirstRun, InPlace
  <2>4. CASE pods'[s] = BuildPod(rec.job, rec.next)
    BY <1>7, <1>9, <2>4
  <2>5. QED BY <1>6, <2>1, <2>2, <2>3, <2>4 DEF AllPods
<1>11. rec'.job.phase # "Restarting" /\ InPlace(pcache')
  BY <1>5 DEF FirstRun
<1>12. QED BY <1>5, <1>8, <1>9, <1>10, <1>11, NotRestartedBefore
           DEF FirstRun, InPlace, AllPods

\* The calls of a pass over a preemptible job that never restarted.
LEMMA PassFirstRun ==
    ASSUME TypeOK, [Next]_vars, FirstRun, Latest'.entries = 0, PassStep,
           Preemptible
    PROVE  FirstRun'
<1>1. /\ rec \in Pass /\ pods \in [Slots -> Pod] /\ rec.missing \in SUBSET Slots
      /\ rec.next \in Nat /\ Expected \in Nat
  BY ReplicasNat DEF TypeOK, Pass, Expected
<1>2. ASSUME UNCHANGED pods
      PROVE  Fewer(pods', pods)
  BY <1>2 DEF Fewer
<1>3. CASE BeginPass
  <2>1. rec'.missing = {} /\ rec'.pc = "list" /\ rec'.job = Cached
        /\ UNCHANGED <<pods, pcache>>
    BY <1>3 DEF BeginPass, Idle
  <2>2. QED BY <1>2, <2>1, FirstRunStays
<1>4. CASE ReconcileByPhase
  <2>1. PlanSerial /\ UNCHANGED <<pods, pcache>> /\ rec.pc = "list"
    BY <1>4, PlansAreSerial, ReconcilePlans, ListPodsType DEF ListPods
  <2>2. /\ rec'.job = rec.job /\ Expected' = Expected
        /\ rec'.job.phase # "Restarting" /\ InPlace(pods) /\ InPlace(pcache)
    BY <2>1 DEF PlanSerial, FirstRun, Expected, Replicas
  <2>3. rec'.pc = "panicked" => Expected > Len(rec.job.alloc)
    BY <2>1, <2>2 DEF PlanSerial
  <2>4. rec'.missing # {} =>
            rec'.next + Cardinality(rec'.missing) <= Expected
    <3>1. CASE rec'.missing = rec.missing /\ rec'.next = rec.next
      BY <3>1 DEF FirstRun
    <3>2. CASE rec'.missing = Desired(rec.job) /\ rec'.next = 0
      <4>1. Cardinality(rec'.missing) = Expected
        BY <3>2 DEF Desired, Expected, Replicas
      <4>2. QED BY <1>1, <3>2, <4>1
    <3>3. QED BY <2>1, <3>1, <3>2 DEF PlanSerial, FirstRun
  <2>5. QED BY <2>1, <2>2, <2>3, <2>4, NotRestartedBefore
            DEF FirstRun, InPlace, AllPods
<1>5. CASE DeletePod
  <2>1. PICK s \in rec.doomed :
          pods' = [pods EXCEPT ![s] = NoPod] \/ pods' = pods
    BY <1>5 DEF DeletePod
  <2>2. Fewer(pods', pods)
    BY <1>1, <2>1 DEF Fewer, AllPods, NoPod
  <2>3. /\ rec'.pc = "work" /\ rec'.next = rec.next /\ rec'.job = rec.job
        /\ rec'.missing = {} \/ rec'.missing = rec.missing
        /\ UNCHANGED pcache
    BY <1>1, <1>5 DEF DeletePod, Working, Pass
  <2>4. QED BY <2>2, <2>3, FirstRunStays
<1>6. CASE CreatePod BY <1>6, CreatePodFirstRun
<1>7. CASE CreateFails
  <2>1. rec'.pc = "work" /\ rec'.job = rec.job /\ rec'.missing = {}
        /\ UNCHANGED <<pods, pcache>>
    BY <1>1, <1>7 DEF CreateFails, Working, Pass
  <2>2. QED BY <1>2, <2>1, FirstRunStays
<1>8. CASE BuildPodPanics
  <2>1. /\ rec'.job = rec.job /\ rec'.missing = rec.missing
        /\ rec'.next = rec.next /\ UNCHANGED <<pods, pcache>>
        /\ rec.missing # {} /\ rec.next = Len(rec.job.alloc)
    BY <1>1, <1>8 DEF BuildPodPanics, BuildPanics, Panic, Pass
  <2>2. Cardinality(rec.missing) \in Nat /\ Cardinality(rec.missing) >= 1
    BY <1>1, <2>1, OneLessMissing
  <2>3. Expected > Len(rec.job.alloc)
    BY <1>1, <2>1, <2>2 DEF FirstRun
  <2>4. Expected' = Expected
    BY <2>1 DEF Expected, Replicas
  <2>5. QED BY <2>1, <2>3, <2>4, NotRestartedBefore
            DEF FirstRun, InPlace, AllPods
<1>9. CASE FinishPass
  <2>1. rec'.missing = {} /\ rec'.pc = "idle" /\ rec'.job = InitJob
        /\ UNCHANGED <<pods, pcache>>
    BY <1>9 DEF FinishPass, Idle
  <2>2. QED BY <1>2, <2>1, FirstRunStays
<1>10. QED
  BY <1>3, <1>4, <1>5, <1>6, <1>7, <1>8, <1>9 DEF PassStep

\* Every step of the system.
LEMMA StepExplainsPanics ==
    ASSUME TypeOK, PanicInv, [Next]_vars
    PROVE  PanicInv'
<1>1. rec \in Pass
  BY DEF TypeOK
<1>2. CASE ~Preemptible
  <2>1. rec.pc # "panicked"
    BY <1>2 DEF PanicInv
  <2>2. ASSUME rec'.pc = "panicked"
        PROVE  FALSE
    <3>1. CASE BeginPass \/ FinishPass \/ Crash \/ Restart
      <4>1. BeginPass => rec'.pc = "list"
        BY DEF BeginPass, Idle
      <4>2. FinishPass \/ Crash \/ Restart => rec'.pc = "idle"
        BY DEF FinishPass, Crash, Restart, Recover, Idle
      <4>3. QED BY <2>2, <3>1, <4>1, <4>2
    <3>2. CASE ReconcileByPhase
      BY <1>2, <2>2, <3>2, PlansAreSerial DEF PlanSerial
    <3>3. CASE DeletePod \/ CreatePod \/ CreateFails
      BY <1>1, <2>2, <3>3 DEF DeletePod, CreatePod, CreateFails, Working, Pass
    <3>4. CASE BuildPodPanics
      BY <1>2, <3>4 DEF BuildPodPanics, BuildPanics
    <3>5. CASE UNCHANGED rec
      BY <2>1, <2>2, <3>5
    <3>6. CASE HandleJobUpdate \/ SyncJob \/ SyncPods \/ Scale \/ Reallocate
               \/ UNCHANGED vars
      BY <3>5, <3>6
         DEF HandleJobUpdate, SyncJob, SyncPods, Scale, Reallocate, Edit, vars
    <3>7. ASSUME NEW s \in Slots, PodStep(s)
          PROVE  UNCHANGED rec
      BY <3>7 DEF PodStep, SchedulePod, PodGetsReady, PodCompletes, ReapPod,
                  PodFails, NodeRejects, EvictPod
    <3>8. QED
      BY <3>1, <3>2, <3>3, <3>4, <3>5, <3>6, <3>7
         DEF Next, OperatorStep, PassStep
  <2>3. QED BY <1>2, <2>2 DEF PanicInv
<1>3. CASE Preemptible /\ Latest'.entries = 0
  <2> SUFFICES FirstRun'
    BY <1>3 DEF PanicInv
  <2>1. FirstRun
    BY <1>3, NotRestartedBefore DEF PanicInv
  <2>2. ASSUME UNCHANGED pods
        PROVE  Fewer(pods', pods)
    BY <2>2 DEF Fewer
  <2>3. CASE PassStep
    BY <1>3, <2>1, <2>3, PassFirstRun
  <2>4. CASE HandleJobUpdate \/ SyncJob \/ SyncPods \/ Scale \/ Reallocate
             \/ UNCHANGED vars
    BY <1>3, <2>1, <2>2, <2>4, FirstRunStays
       DEF HandleJobUpdate, SyncJob, SyncPods, Scale, Reallocate, Edit, vars
  <2>5. CASE Crash \/ Restart
    BY <1>3, <2>1, <2>2, <2>5, FirstRunStays
       DEF Crash, Restart, Recover, Idle
  <2>6. ASSUME NEW s \in Slots, PodStep(s)
        PROVE  FirstRun'
    <3>1. UNCHANGED <<rec, pcache>>
      BY <2>6 DEF PodStep, SchedulePod, PodGetsReady, PodCompletes, ReapPod,
                  PodFails, NodeRejects, EvictPod
    <3>2. QED BY <1>3, <2>1, <2>6, <3>1, PodStepFewer, FirstRunStays
  <2>7. QED BY <2>3, <2>4, <2>5, <2>6 DEF Next, OperatorStep
<1>4. CASE Preemptible /\ Latest'.entries # 0
  BY <1>4 DEF PanicInv
<1>5. QED BY <1>2, <1>3, <1>4

\* Whatever the ages of the caches and whatever fails or is scaled, when the
\* operator panics the job has been restarted, or it has more replicas than
\* nodes allocated.
THEOREM PanicsAreExplained == Spec => []PanicsExplained
<1>1. Init => PanicInv
  <2> SUFFICES ASSUME Init PROVE PanicInv
    OBVIOUS
  <2>1. /\ jobs = <<InitJob>> /\ rec = Idle /\ pcache = pods /\ AllPods(pods) = {}
    BY DEF Init, AllPods, NoPod
  <2>2. FirstRun /\ rec.pc # "panicked"
    BY <2>1 DEF FirstRun, InPlace, Idle, InitJob
  <2>3. QED BY <2>2 DEF PanicInv
<1>2. TypeOK /\ PanicInv /\ [Next]_vars => PanicInv'
  BY StepExplainsPanics
<1>3. TypeOK /\ PanicInv => PanicsExplained
  <2>1. TypeOK => Latest.entries \in Nat
    BY VersionTypes DEF JobVersion
  <2>2. QED BY <2>1 DEF PanicInv, PanicsExplained, FirstRun
<1>4. QED BY <1>1, <1>2, <1>3, TypeCorrect, PTL DEF Spec

\* Over a job that is not preemptible the operator never panics.
THEOREM OnlyPreemptiblePanics == ~Preemptible => (Spec => []NoPanic)
<1> SUFFICES ASSUME ~Preemptible PROVE Spec => []NoPanic
  OBVIOUS
<1>1. Init => PanicInv
  BY DEF Init, Idle, PanicInv
<1>2. TypeOK /\ PanicInv /\ [Next]_vars => PanicInv'
  BY StepExplainsPanics
<1>3. PanicInv => NoPanic
  BY DEF PanicInv, NoPanic
<1>4. QED BY <1>1, <1>2, <1>3, TypeCorrect, PTL DEF Spec

=============================================================================
