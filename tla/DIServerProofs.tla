---------------------------- MODULE DIServerProofs ----------------------------
(***************************************************************************)
(* The controller, the service of the job and the DI Server together: the  *)
(* composition keeps the types, and a job that was never restarted nor     *)
(* rescheduled has its replicas listed without an error, for every value   *)
(* of the constants with caches caught up at the start of a pass.          *)
(***************************************************************************)
EXTENDS DIServer, DIJobControllerPods

-----------------------------------------------------------------------------
(* What the service adds to the controller.                                *)

\* A failed call of the API server spoils at most the deletions of the pass.
ServiceFault ==
    /\ UNCHANGED <<jobs, seen, pods, pcache>>
    /\ UNCHANGED left \/ Spend("fault")
    /\ UNCHANGED rec \/ rec' = [rec EXCEPT !.doomed = {}]

\* Every step of the composition is a step of the controller or one that only
\* concerns the service.
LEMMA ServiceSteps ==
    ASSUME ServiceNext
    PROVE  [Next]_vars \/ ServiceFault
<1>1. CASE ServicePass
  <2>1. CASE BeginPass \/ FinishPass
    BY <2>1 DEF Next, OperatorStep, PassStep
  <2>2. CASE ReconcileAndList \/ DeletePodsAndServices
    BY <2>2 DEF ReconcileAndList, DeletePodsAndServices, ReconcileByPhase,
                Next, OperatorStep, PassStep
  <2>3. CASE CallPods
    BY <2>3 DEF CallPods, Next, OperatorStep, PassStep
  <2>4. CASE DeleteService \/ CreateService
    BY <2>4 DEF DeleteService, CreateService, ServiceFault
  <2>5. QED BY <1>1, <2>1, <2>2, <2>3, <2>4 DEF ServicePass
<1>2. CASE SyncServices \/ LoseService
  BY <1>2 DEF SyncServices, LoseService, ServiceFault, vars
<1>3. CASE ServiceRecovers
  BY <1>3 DEF ServiceRecovers, Next
<1>4. CASE HandleJobUpdate \/ SyncJob \/ SyncPods
           \/ (\E s \in Slots : PodStep(s)) \/ Scale \/ Reallocate
  BY <1>4 DEF Next, OperatorStep
<1>5. QED BY <1>1, <1>2, <1>3, <1>4 DEF ServiceNext

\* What is due after a step is due in a pass at work.
LEMMA ServiceStepType ==
    ASSUME TypeOK, ServiceTypeOK, ServiceNext
    PROVE  ServiceTypeOK'
<1>1. rec \in Pass
  BY DEF TypeOK
<1> USE DEF ServiceTypeOK, Dues, serviceVars
<1>2. CASE ServicePass
  <2>1. CASE BeginPass /\ UNCHANGED serviceVars
    BY <2>1 DEF BeginPass
  <2>2. CASE ReconcileAndList \/ DeletePodsAndServices
    <3>1. ReconcileByPhase
      BY <2>2 DEF ReconcileAndList, DeletePodsAndServices, ReconcileByPhase
    <3>2. rec' \in Pass /\ rec'.pc \notin {"idle", "list"}
      BY <3>1, ReconcilePlans, PlansAreLawful DEF PlanMade, PlanLawful
    <3>3. rec'.pc \in {"work", "panicked"}
      BY <3>2 DEF Pass
    <3>4. QED BY <2>2, <3>3 DEF ReconcileAndList, DeletePodsAndServices
  <2>3. CASE CallPods
    <3>1. rec'.pc \in {"work", "panicked"}
      BY <1>1, <2>3 DEF CallPods, DeletePod, CreatePod, CreateFails,
                        BuildPodPanics, Working, Panic, Pass
    <3>2. QED BY <2>3, <3>1 DEF CallPods
  <2>4. CASE DeleteService \/ CreateService
    BY <2>4 DEF DeleteService, CreateService
  <2>5. CASE due = "nothing" /\ FinishPass /\ UNCHANGED serviceVars
    BY <2>5
  <2>6. QED BY <1>2, <2>1, <2>2, <2>3, <2>4, <2>5 DEF ServicePass
<1>3. CASE SyncServices \/ LoseService
  BY <1>3 DEF SyncServices, LoseService, vars
<1>4. CASE ServiceRecovers
  BY <1>4 DEF ServiceRecovers
<1>5. CASE /\ \/ HandleJobUpdate \/ SyncJob \/ SyncPods
              \/ \E s \in Slots : PodStep(s)
              \/ Scale \/ Reallocate
           /\ UNCHANGED serviceVars
  <2>1. UNCHANGED rec
    BY <1>5 DEF HandleJobUpdate, SyncJob, SyncPods, Scale, Reallocate, Edit,
                PodStep, SchedulePod, PodGetsReady, PodCompletes, ReapPod,
                PodFails, NodeRejects, EvictPod
  <2>2. QED BY <1>5, <2>1
<1>6. QED BY <1>2, <1>3, <1>4, <1>5 DEF ServiceNext

\* A step that concerns only the service keeps the types of the rest.
LEMMA FaultType ==
    ASSUME TypeOK, ServiceFault
    PROVE  TypeOK'
<1>1. rec' \in Pass
  BY DEF TypeOK, ServiceFault, Pass
<1>2. left' \in [Kinds -> Nat]
  BY SpendType DEF TypeOK, ServiceFault, Kinds
<1>3. QED BY <1>1, <1>2 DEF TypeOK, ServiceFault

\* The types of the whole composition are kept by every step.
LEMMA ServerStepType ==
    ASSUME ServerTypeOK, [ServerNext]_orchestraVars
    PROVE  ServerTypeOK'
<1>1. CASE OperatorAndCluster
  <2>1. TypeOK' /\ ServiceTypeOK'
    BY <1>1, ServiceSteps, ServiceStepType, StepType, FaultType
       DEF OperatorAndCluster, ServerTypeOK
  <2>2. steady' \in BOOLEAN
    BY <1>1 DEF OperatorAndCluster, ServerTypeOK
  <2>3. QED BY <1>1, <2>1, <2>2 DEF OperatorAndCluster, ServerTypeOK
<1>2. ASSUME UNCHANGED allVars
      PROVE  TypeOK' /\ ServiceTypeOK'
  BY <1>2 DEF allVars, vars, serviceVars, ServerTypeOK, TypeOK, ServiceTypeOK
<1>3. CASE SyncServer
  BY <1>2, <1>3 DEF SyncServer, ServerTypeOK, TypeOK
<1>4. CASE GetReplicas
  BY <1>2, <1>4 DEF GetReplicas, ServerTypeOK
<1>5. CASE AddOrDeleteReplicas \/ PostProfilings
  BY <1>2, <1>5 DEF AddOrDeleteReplicas, PostProfilings, ServerTypeOK,
     UpdateJobAllocationInCluster, UpdateJobProfilingsInCluster
<1>6. CASE UNCHANGED orchestraVars
  BY <1>2, <1>6 DEF orchestraVars, serverVars, ServerTypeOK
<1>7. QED BY <1>1, <1>3, <1>4, <1>5, <1>6 DEF ServerNext

\* Every variable of the composition keeps its type, and the service is worked
\* on in passes only.
THEOREM ServerTypeCorrect == ServerSpec => []ServerTypeOK
<1>1. ServerInit => ServerTypeOK
  <2> SUFFICES ASSUME ServerInit PROVE ServerTypeOK
    OBVIOUS
  <2>1. TypeOK
    BY InitType DEF ServerInit, ServiceInit
  <2>2. QED BY <2>1 DEF ServerInit, ServiceInit, ServerTypeOK, ServiceTypeOK,
                        TypeOK, Dues
<1>2. ServerTypeOK /\ [ServerNext]_orchestraVars => ServerTypeOK'
  BY ServerStepType
<1>3. QED BY <1>1, <1>2, PTL DEF ServerSpec

-----------------------------------------------------------------------------
(* The answers, while the job was never restarted or rescheduled: all its  *)
(* pods were then built in one series, from rank 0 up to the replicas.     *)

\* The pods of a listing could be entered into one table, each at its place.
Tabled(p) ==
    \A s, t \in AllPods(p) :
        /\ p[s].rank < p[s].of /\ p[s].of = p[t].of
        /\ s # t => p[s].rank # p[t].rank

\* While a pass creates pods, they are the first of the job, and those still
\* to be created have the ranks from next up to the number of replicas.
FirstPods ==
    rec.missing # {} =>
        /\ rec.next + Cardinality(rec.missing) = Replicas(rec.job.want)
        /\ \A s \in AllPods(pods) :
              /\ pods[s].of = Replicas(rec.job.want)
              /\ pods[s].rank < rec.next

Unsettled == {"Restarting", "Rescheduling"}

\* Neither the job nor the pass's copy of it is being restarted or rescheduled.
SteadyPods ==
    /\ Latest.phase \notin Unsettled
    /\ rec.pc # "idle" => rec.job.phase \notin Unsettled
    /\ rec.pc \in {"idle", "list"} => rec.missing = {}
    /\ Tabled(pods) /\ FirstPods

SteadyInv == steady => SteadyPods /\ Tabled(spods) /\ reply = OK

\* Fewer pods still fit the table.
LEMMA FewerTabled ==
    ASSUME NEW p, NEW q, Fewer(p, q), Tabled(q)
    PROVE  Tabled(p)
BY DEF Fewer, Tabled

\* When pods only come to an end and a pass has no new ones to create, the pods
\* stay in their places.
LEMMA FewerStaysSteady ==
    ASSUME SteadyPods, Fewer(pods', pods), Latest'.phase \notin Unsettled,
           rec'.pc # "idle" => rec'.job.phase \notin Unsettled,
           rec'.pc \in {"idle", "list"} => rec'.missing = {},
           \/ rec'.missing = {}
           \/ /\ rec'.missing = rec.missing /\ rec'.next = rec.next
              /\ rec'.job = rec.job
    PROVE  SteadyPods'
<1>1. Tabled(pods')
  BY FewerTabled DEF SteadyPods
<1>2. FirstPods'
  <2>1. CASE rec'.missing = {}
    BY <2>1 DEF FirstPods
  <2>2. CASE rec'.missing # {}
    <3>1. rec'.missing = rec.missing /\ rec'.next = rec.next /\ rec'.job = rec.job
      BY <2>2
    <3>2. \A s \in AllPods(pods') :
              /\ pods'[s].of = Replicas(rec.job.want)
              /\ pods'[s].rank < rec.next
      BY <2>2, <3>1 DEF SteadyPods, FirstPods, Fewer
    <3>3. rec.next + Cardinality(rec.missing) = Replicas(rec.job.want)
      BY <2>2, <3>1 DEF SteadyPods, FirstPods
    <3>4. QED BY <3>1, <3>2, <3>3 DEF FirstPods, AllPods
  <2>3. QED BY <2>1, <2>2
<1>3. QED BY <1>1, <1>2 DEF SteadyPods, Tabled, AllPods

\* A pass over a job that is not unsettled creates pods only if it found none,
\* and then all of them, from rank 0.
LEMMA CreatesAllOrNone ==
    ASSUME TypeOK, ReconcileByPhase, rec.missing = {},
           rec.job.phase \notin Unsettled
    PROVE  \/ rec'.missing = {}
           \/ /\ AllPods(pcache) = {}
              /\ rec'.missing = Desired(rec.job) /\ rec'.next = 0
<1>1. rec \in Pass
  BY DEF TypeOK
<1>2. ASSUME NEW p, Set(p)
      PROVE  rec'.missing = {}
  BY <1>1, <1>2 DEF Set, Pass
<1>3. ASSUME NEW S, NEW b, Delete(S, b)
      PROVE  rec'.missing = {}
  BY <1>1, <1>3 DEF Delete, Pass
<1>4. ASSUME Panic
      PROVE  rec'.missing = {}
  BY <1>1, <1>4 DEF Panic, Pass
<1>5. CASE ReconcilePending
  <2>1. ASSUME AllPods(pcache) = {}, BuildAndCreatePods("Pending")
        PROVE  \/ rec'.missing = {}
               \/ /\ AllPods(pcache) = {}
                  /\ rec'.missing = Desired(rec.job) /\ rec'.next = 0
    BY <1>1, <1>4, <2>1 DEF BuildAndCreatePods, Pass
  <2>2. QED BY <1>2, <1>3, <1>5, <2>1 DEF ReconcilePending
<1>6. CASE ReconcileStarting \/ ReconcileRunning
  BY <1>2, <1>4, <1>6 DEF ReconcileStarting, ReconcileRunning,
     CheckPodsCompletion, DetectReschedule
<1>7. CASE CleanUp
  BY <1>3, <1>7 DEF CleanUp
<1>8. ~ReconcileRestarting /\ ~ReconcileRescheduling
  BY DEF ReconcileRestarting, ReconcileRescheduling, Unsettled
<1>9. QED BY <1>5, <1>6, <1>7, <1>8 DEF ReconcileByPhase

\* Creating the next pod puts it at the next place of the table.
LEMMA CreatePodStaysSteady ==
    ASSUME TypeOK, SteadyPods, CreatePod
    PROVE  SteadyPods'
<1> DEFINE n == Replicas(rec.job.want)
           f == FirstMissing
<1>1. /\ rec \in Pass /\ rec.missing \in SUBSET Slots /\ rec.missing # {}
      /\ rec.next \in Nat /\ pods \in [Slots -> Pod] /\ rec.pc = "work"
      /\ n \in Nat
  BY ReplicasNat DEF TypeOK, Pass, CreatePod, Working
<1>2. f \in Slots /\ f \in rec.missing
  BY <1>1, FirstIsMissing
<1>3. /\ Cardinality(rec.missing) \in Nat /\ Cardinality(rec.missing) >= 1
      /\ Cardinality(rec.missing \ {f}) = Cardinality(rec.missing) - 1
  BY <1>1, OneLessMissing
<1>4. /\ rec.next + Cardinality(rec.missing) = n
      /\ \A s \in AllPods(pods) : pods[s].of = n /\ pods[s].rank < rec.next
  BY <1>1 DEF SteadyPods, FirstPods
<1>5. /\ rec'.missing = rec.missing \ {f} /\ rec'.next = rec.next + 1
      /\ rec'.job = rec.job /\ rec'.pc = "work"
  BY <1>1 DEF CreatePod, Pass
<1>6. pods' = [pods EXCEPT ![f] =
                    IF pods[f].st = "None" THEN BuildPod(rec.job, rec.next)
                                           ELSE pods[f]]
  BY DEF CreatePod
<1>7. BuildPod(rec.job, rec.next).rank = rec.next
      /\ BuildPod(rec.job, rec.next).of = n
  BY DEF BuildPod
<1> HIDE DEF f, n
<1>8. \A s \in AllPods(pods') :
          \/ s \in AllPods(pods) /\ pods'[s] = pods[s]
          \/ s = f /\ pods'[s].rank = rec.next /\ pods'[s].of = n
  BY <1>1, <1>2, <1>6, <1>7 DEF AllPods
<1>9. \A s \in AllPods(pods) : s \in Slots /\ pods[s].rank \in Nat
  BY <1>1 DEF AllPods, Pod
<1>10. rec.next < n
  BY <1>1, <1>3, <1>4
<1>11. \A s \in AllPods(pods') :
          pods'[s].of = n /\ pods'[s].rank < rec'.next /\ pods'[s].rank < n
  BY <1>1, <1>4, <1>5, <1>8, <1>9, <1>10
<1>12. \A s, t \in AllPods(pods') : s # t => pods'[s].rank # pods'[t].rank
  BY <1>1, <1>4, <1>8, <1>9 DEF SteadyPods, Tabled
<1>13. Tabled(pods')
  BY <1>11, <1>12 DEF Tabled
<1>14. rec'.next + Cardinality(rec'.missing) = n
  BY <1>1, <1>3, <1>4, <1>5
<1>15. FirstPods'
  BY <1>5, <1>11, <1>14 DEF FirstPods, AllPods, n
<1>16. Latest' = Latest
  BY DEF CreatePod, Latest
<1>17. rec'.job.phase \notin Unsettled
  BY <1>1, <1>5 DEF SteadyPods
<1>18. QED BY <1>5, <1>13, <1>15, <1>16, <1>17 DEF SteadyPods, Tabled, AllPods

\* The steps of a pass, as long as it leaves the job settled.
LEMMA PassStaysSteady ==
    ASSUME TypeOK, SteadyPods, ~Lagging, PassStep, Latest'.phase \notin Unsettled
    PROVE  SteadyPods'
<1>1. /\ rec \in Pass /\ pods \in [Slots -> Pod] /\ rec.missing \subseteq Slots
  BY DEF TypeOK, Pass
<1>2. ASSUME UNCHANGED pods
      PROVE  Fewer(pods', pods)
  BY <1>2 DEF Fewer
<1>3. CASE BeginPass
  <2>1. rec'.missing = {} /\ rec'.job = Latest
    BY <1>3, PassReadsLatest DEF BeginPass, Idle
  <2>2. UNCHANGED pods /\ Latest.phase \notin Unsettled
    BY <1>3 DEF BeginPass, SteadyPods
  <2>3. QED BY <1>2, <2>1, <2>2, FewerStaysSteady
<1>4. CASE ReconcileByPhase
  <2>1. /\ rec.pc = "list" /\ pcache = pods /\ pods' = pods /\ rec.missing = {}
        /\ rec'.job = rec.job /\ rec.job.phase \notin Unsettled
    BY <1>4, ReconcilePlans, ListPodsType
       DEF ListPods, PlanMade, SteadyPods
  <2>2. rec'.pc \notin {"idle", "list"}
    BY <1>4, PlansAreLawful DEF PlanLawful
  <2>3. CASE rec'.missing = {}
    BY <1>2, <2>1, <2>2, <2>3, FewerStaysSteady
  <2>4. CASE /\ AllPods(pcache) = {}
             /\ rec'.missing = Desired(rec.job) /\ rec'.next = 0
    <3>1. Cardinality(rec'.missing) = Replicas(rec.job.want)
      BY <2>4 DEF Desired, Replicas
    <3>2. rec'.next + Cardinality(rec'.missing) = Replicas(rec'.job.want)
      BY <2>1, <2>4, <3>1, ReplicasNat
    <3>3. FirstPods'
      BY <2>1, <2>4, <3>2 DEF FirstPods, AllPods
    <3>4. QED BY <2>1, <2>2, <3>3 DEF SteadyPods, Tabled, AllPods
  <2>5. QED BY <1>4, <2>1, <2>3, <2>4, CreatesAllOrNone
<1>5. CASE DeletePod
  <2>1. PICK s \in rec.doomed :
          \/ pods' = [pods EXCEPT ![s] = NoPod]
          \/ pods' = pods
    BY <1>5 DEF DeletePod
  <2>2. Fewer(pods', pods)
    BY <1>1, <2>1 DEF Fewer, AllPods, NoPod
  <2>3. /\ rec'.pc = "work" /\ rec.pc = "work" /\ rec'.next = rec.next
        /\ rec'.missing = {} \/ rec'.missing = rec.missing
        /\ rec'.job = rec.job
    BY <1>1, <1>5 DEF DeletePod, Working, Pass
  <2>4. rec.job.phase \notin Unsettled
    BY <2>3 DEF SteadyPods
  <2>5. QED BY <2>2, <2>3, <2>4, FewerStaysSteady
<1>6. CASE CreatePod BY <1>6, CreatePodStaysSteady
<1>7. CASE CreateFails \/ BuildPodPanics
  <2>1. /\ rec.pc = "work" /\ rec'.pc \in {"work", "panicked"}
        /\ rec'.next = rec.next /\ rec'.job = rec.job /\ UNCHANGED pods
        /\ rec'.missing = {} \/ rec'.missing = rec.missing
    BY <1>1, <1>7 DEF CreateFails, BuildPodPanics, Panic, Working, Pass
  <2>2. rec.job.phase \notin Unsettled
    BY <2>1 DEF SteadyPods
  <2>3. QED BY <1>2, <2>1, <2>2, FewerStaysSteady
<1>8. CASE FinishPass
  <2>1. rec'.missing = {} /\ rec'.pc = "idle" /\ UNCHANGED pods
    BY <1>8 DEF FinishPass, Idle
  <2>2. QED BY <1>2, <2>1, FewerStaysSteady
<1>9. QED
  BY <1>3, <1>4, <1>5, <1>6, <1>7, <1>8 DEF PassStep

\* Every step of the operator and the cluster that leaves the job settled.
LEMMA ServiceStaysSteady ==
    ASSUME TypeOK, SteadyPods, ~Lagging, ServiceNext, Latest'.phase \notin Unsettled
    PROVE  SteadyPods'
<1>1. ASSUME Fewer(pods', pods), UNCHANGED rec
      PROVE  SteadyPods'
  BY <1>1, FewerStaysSteady DEF SteadyPods
<1>2. ASSUME UNCHANGED pods
      PROVE  Fewer(pods', pods)
  BY <1>2 DEF Fewer
<1>3. CASE PassStep BY <1>3, PassStaysSteady
<1>4. CASE HandleJobUpdate \/ SyncJob \/ SyncPods \/ Scale \/ Reallocate
  BY <1>1, <1>2, <1>4
     DEF HandleJobUpdate, SyncJob, SyncPods, Scale, Reallocate, Edit
<1>5. CASE Crash \/ Restart
  <2>1. rec'.missing = {} /\ rec'.pc = "idle" /\ UNCHANGED pods
    BY <1>5 DEF Crash, Restart, Recover, Idle
  <2>2. QED BY <1>2, <2>1, FewerStaysSteady
<1>6. ASSUME NEW s \in Slots, PodStep(s)
      PROVE  SteadyPods'
  <2>1. UNCHANGED rec
    BY <1>6 DEF PodStep, SchedulePod, PodGetsReady, PodCompletes, ReapPod,
                PodFails, NodeRejects, EvictPod
  <2>2. QED BY <1>1, <1>6, <2>1, PodStepFewer
<1>7. CASE ServiceFault
  <2>1. /\ UNCHANGED pods /\ rec'.pc = rec.pc /\ rec'.job = rec.job
        /\ rec'.missing = rec.missing /\ rec'.next = rec.next
    BY <1>7 DEF ServiceFault, TypeOK, Pass
  <2>2. QED BY <1>2, <2>1, FewerStaysSteady DEF SteadyPods
<1>8. CASE UNCHANGED vars
  BY <1>1, <1>2, <1>8 DEF vars
<1>9. QED
  BY <1>3, <1>4, <1>5, <1>6, <1>7, <1>8, ServiceSteps DEF Next, OperatorStep

\* From pods that fit one table, every answer has each pod with an IP once.
LEMMA TabledAnswers ==
    ASSUME NEW p \in [Slots -> Pod], Tabled(p)
    PROVE  /\ ~MayFail(p)
           /\ \A t \in Answers(p) :
                 {t[r] : r \in DOMAIN t} \ {NoAddress} = WithIP(p)
<1>1. /\ WithIP(p) \subseteq AllPods(p) /\ WithIP(p) \subseteq Slots
      /\ \A s \in WithIP(p) : p[s].rank \in Nat /\ p[s].of \in Nat
  BY DEF WithIP, InState, AllPods, Pod
<1>2. NoAddress \notin WithIP(p)
  BY <1>1 DEF NoAddress, Slots, Tasks
<1>3. ~MayFail(p)
  BY <1>1 DEF MayFail, OutOfTable, TableSizes, Tabled
<1>4. ASSUME NEW t \in Answers(p)
      PROVE  {t[r] : r \in DOMAIN t} \ {NoAddress} = WithIP(p)
  <2>1. CASE WithIP(p) = {}
    BY <1>4, <2>1 DEF Answers
  <2>2. CASE WithIP(p) # {}
    <3>1. PICK n \in TableSizes(p) : t \in Tables(p, n)
      BY <2>2 DEF Answers
    <3>2. n \in Nat /\ \A s \in WithIP(p) : p[s].rank < n
      BY <1>1, <3>1 DEF TableSizes, Tabled
    <3>3. /\ DOMAIN t = 0..(n - 1)
          /\ \A r \in 0..(n - 1) : t[r] \in WithIP(p) \cup {NoAddress}
          /\ \A r \in 0..(n - 1) :
                \/ {s \in WithIP(p) : p[s].rank = r} = {} /\ t[r] = NoAddress
                \/ t[r] \in {s \in WithIP(p) : p[s].rank = r}
      BY <3>1 DEF Tables
    <3>4. ASSUME NEW s \in WithIP(p)
          PROVE  p[s].rank \in 0..(n - 1) /\ t[p[s].rank] = s
      <4>1. p[s].rank \in 0..(n - 1)
        BY <1>1, <3>2
      <4>2. t[p[s].rank] \in {q \in WithIP(p) : p[q].rank = p[s].rank}
        BY <3>3, <4>1
      <4>3. QED BY <1>1, <4>1, <4>2 DEF Tabled
    <3>5. QED BY <1>2, <3>3, <3>4
  <2>3. QED BY <2>1, <2>2
<1>5. QED BY <1>3, <1>4

\* Every step of the operator, the cluster and the server.
LEMMA ServerStaysSteady ==
    ASSUME ServerTypeOK, SteadyInv, ~Lagging, [ServerNext]_orchestraVars
    PROVE  SteadyInv'
<1>1. TypeOK /\ spods \in [Slots -> Pod] /\ steady \in BOOLEAN
  BY DEF ServerTypeOK
<1>2. ASSUME UNCHANGED vars
      PROVE  SteadyPods' = SteadyPods
  BY <1>2 DEF vars, SteadyPods, FirstPods, Tabled, AllPods, Latest
<1>3. CASE OperatorAndCluster
  <2>1. SUFFICES ASSUME steady'
                 PROVE  SteadyPods' /\ Tabled(spods)' /\ reply' = OK
    BY DEF SteadyInv
  <2>2. steady /\ Latest'.phase \notin Unsettled /\ spods' = spods /\ reply' = reply
    BY <1>3, <2>1 DEF OperatorAndCluster, Unsettled
  <2>3. SteadyPods'
    BY <1>1, <1>3, <2>2, ServiceStaysSteady DEF OperatorAndCluster, SteadyInv
  <2>4. QED BY <2>2, <2>3 DEF SteadyInv, Tabled, AllPods
<1>4. CASE SyncServer
  <2>1. UNCHANGED vars /\ spods' = pods /\ UNCHANGED <<steady, reply>>
    BY <1>4 DEF SyncServer, allVars
  <2>2. QED BY <1>2, <2>1 DEF SteadyInv, SteadyPods, Tabled, AllPods
<1>5. CASE GetReplicas
  <2>1. UNCHANGED vars /\ UNCHANGED <<spods, steady>>
    BY <1>5 DEF GetReplicas, allVars
  <2>2. steady => ~MayFail(spods)
    BY <1>1, TabledAnswers DEF SteadyInv
  <2>3. steady => reply' = OK
    BY <1>5, <2>2 DEF GetReplicas
  <2>4. QED BY <1>2, <2>1, <2>3 DEF SteadyInv, Tabled, AllPods
<1>6. CASE AddOrDeleteReplicas \/ PostProfilings
  <2>1. UNCHANGED vars /\ UNCHANGED <<spods, steady>> /\ reply' = OK
    BY <1>6 DEF AddOrDeleteReplicas, PostProfilings, allVars,
       UpdateJobAllocationInCluster, UpdateJobProfilingsInCluster
  <2>2. QED BY <1>2, <2>1 DEF SteadyInv, Tabled, AllPods
<1>7. CASE UNCHANGED orchestraVars
  <2>1. UNCHANGED vars /\ UNCHANGED <<spods, steady, reply>>
    BY <1>7 DEF orchestraVars, allVars, serverVars
  <2>2. QED BY <1>2, <2>1 DEF SteadyInv, Tabled, AllPods
<1>8. QED BY <1>3, <1>4, <1>5, <1>6, <1>7 DEF ServerNext

\* With caches of the operator caught up at the start of a pass, a job that was
\* never restarted nor rescheduled has its replicas listed without an error and
\* each under its rank, however old the cache of the server is, whatever fails,
\* is scaled or crashes.
THEOREM SteadyJobsAnswer == ~Lagging => (ServerSpec => []SteadyAnswers)
<1> SUFFICES ASSUME ~Lagging PROVE ServerSpec => []SteadyAnswers
  OBVIOUS
<1>1. ServerInit => SteadyInv
  <2> SUFFICES ASSUME ServerInit PROVE SteadyInv
    OBVIOUS
  <2>1. Latest.phase = "Pending" /\ rec = Idle /\ rec.missing = {}
    BY DEF ServerInit, ServiceInit, Init, Latest, InitJob, Idle
  <2>2. AllPods(pods) = {} /\ spods = pods /\ reply = OK
    BY DEF ServerInit, ServiceInit, Init, AllPods, NoPod
  <2>3. QED BY <2>1, <2>2 DEF SteadyInv, SteadyPods, FirstPods, Tabled, Idle,
                              Unsettled
<1>2. ServerTypeOK /\ SteadyInv /\ [ServerNext]_orchestraVars => SteadyInv'
  BY ServerStaysSteady
<1>3. ServerTypeOK /\ SteadyInv => SteadyAnswers
  <2> SUFFICES ASSUME ServerTypeOK, SteadyInv, steady PROVE SteadyAnswers
    BY DEF SteadyAnswers
  <2>1. spods \in [Slots -> Pod] /\ Tabled(spods) /\ reply = OK
    BY DEF ServerTypeOK, SteadyInv
  <2>2. OK # InternalServerError
    BY DEF OK, InternalServerError
  <2>3. QED BY <2>1, <2>2, TabledAnswers DEF SteadyAnswers
<1>4. QED BY <1>1, <1>2, <1>3, ServerTypeCorrect, PTL DEF ServerSpec

-----------------------------------------------------------------------------
(* What holds of the controller holds of it in the composition.            *)

\* To the controller every step of the composition is one of its own, or a call
\* that concerns only the service.
LEMMA ServerSteps ==
    ASSUME [ServerNext]_orchestraVars
    PROVE  [Next]_vars \/ ServiceFault
<1>1. CASE OperatorAndCluster
  BY <1>1, ServiceSteps DEF OperatorAndCluster
<1>2. CASE UNCHANGED allVars
  BY <1>2 DEF allVars
<1>3. CASE SyncServer \/ GetReplicas \/ UNCHANGED orchestraVars
  BY <1>2, <1>3 DEF SyncServer, GetReplicas, orchestraVars
<1>4. CASE AddOrDeleteReplicas \/ PostProfilings
  BY <1>2, <1>4 DEF AddOrDeleteReplicas, PostProfilings,
     UpdateJobAllocationInCluster, UpdateJobProfilingsInCluster
<1>5. QED BY <1>1, <1>3, <1>4 DEF ServerNext

\* Such a call changes at most the deletions of the pass, and empties them.
LEMMA FaultSteps ==
    ASSUME TypeOK, ServiceFault
    PROVE  /\ UNCHANGED <<jobs, seen, pods, pcache>> /\ Latest' = Latest
           /\ rec'.pc = rec.pc /\ rec'.job = rec.job /\ rec'.phase = rec.phase
           /\ rec'.missing = rec.missing /\ rec'.next = rec.next
           /\ rec'.undo = rec.undo /\ rec'.doomed \in {rec.doomed, {}}
           /\ left'["evict"] = left["evict"] /\ left'["scale"] = left["scale"]
BY DEF TypeOK, ServiceFault, Spend, Kinds, Pass, Latest

\* What the controller knows, whatever the age of its caches.
KnownInv == CountInv /\ PanicInv

\* What it knows besides when its passes start from caught-up caches.
FreshInv == PhaseInv /\ LawInv /\ RankInv /\ ShownInv

\* A call for the service spoils nothing of that.
LEMMA FaultsKeep ==
    ASSUME TypeOK, ServiceFault
    PROVE  /\ KnownInv => KnownInv'
           /\ FreshInv => FreshInv'
           /\ KeepInv => KeepInv'
           /\ ExactInv => ExactInv'
<1>1. CountInv => CountInv'
  BY FaultSteps DEF CountInv, Counted
<1>2. PanicInv => PanicInv'
  BY FaultSteps DEF PanicInv, FirstRun, InPlace, AllPods, Expected, Replicas
<1>3. (PhaseInv => PhaseInv') /\ (LawInv => LawInv')
  BY FaultSteps DEF PhaseInv, LawInv
<1>4. RankInv => RankInv'
  BY FaultSteps, WaneKeepsRanks DEF RankInv, Wanes
<1>5. KeepInv => KeepInv'
  <2> SUFFICES ASSUME KeepInv PROVE KeepInv'
    OBVIOUS
  <2>1. Unscaled => Unscaled'
    BY FaultSteps DEF Unscaled, AllPods
  <2>2. \A s \in rec'.doomed : /\ s \in rec.doomed /\ pods'[s] = pods[s]
                               /\ Spared(s) => Spared(s)'
    BY FaultSteps DEF Spared, OfType, TypeNum, LivePods, AllPods
  <2>3. DoomedInv'
    <3>1. rec'.pc \in {"idle", "list"} =>
              rec'.doomed = {} /\ rec'.missing = {} /\ ~rec'.undo
      BY FaultSteps DEF KeepInv, DoomedInv
    <3>2. ASSUME rec'.job.phase \in Active
          PROVE  /\ ~rec'.undo
                 /\ \A s \in rec'.doomed :
                      Spent(pods'[s]) \/ (left'["evict"] = 0 /\ Spared(s)')
      BY <2>2, <3>2, FaultSteps DEF KeepInv, DoomedInv
    <3>3. QED BY <3>1, <3>2 DEF DoomedInv
  <2>4. QED BY <2>1, <2>3, FaultSteps DEF KeepInv
<1>6. ShownInv => ShownInv'
  BY FaultSteps DEF ShownInv, OneChange, Agree
<1>7. ExactInv => ExactInv'
  <2> SUFFICES ASSUME ExactInv PROVE ExactInv'
    OBVIOUS
  <2>1. left'["timeout"] = 0 /\ left'["crash"] = 0
    BY SpendLeaves DEF ServiceFault, Kinds, ExactInv
  <2>2. QED BY <2>1, FaultSteps DEF ExactInv, Exact, Alike
<1>8. QED BY <1>1, <1>2, <1>3, <1>4, <1>5, <1>6, <1>7 DEF KnownInv, FreshInv

\* Every step of the composition keeps what the controller knows.
LEMMA ServerKeepsKnown ==
    ASSUME TypeOK, TypeOK', [ServerNext]_orchestraVars
    PROVE  /\ KnownInv => KnownInv'
           /\ ~Lagging /\ FreshInv => FreshInv'
           /\ ~Lagging /\ ~Preemptible /\ KeepInv => KeepInv'
           /\ ~Lagging /\ ExactInv => ExactInv'
<1>1. CASE [Next]_vars
  BY <1>1, StepCounts, StepExplainsPanics, StepStays, StepLawful, StepRanks,
     StepShown, StepKeeps, StepExact
     DEF KnownInv, FreshInv, PhaseStays, ShownGrows
<1>2. CASE ServiceFault BY <1>2, FaultsKeep
<1>3. QED BY <1>1, <1>2, ServerSteps

\* At the start the controller knows nothing that could be wrong.
LEMMA ServerInitKnown ==
    ASSUME ServerInit
    PROVE  /\ KnownInv /\ FreshInv
           /\ Unmixed => KeepInv
           /\ Calm => ExactInv
<1>1. /\ Init /\ jobs = <<InitJob>> /\ rec = Idle /\ pcache = pods
      /\ AllPods(pods) = {}
  BY DEF ServerInit, ServiceInit, Init, AllPods, NoPod
<1>2. CountInv
  BY <1>1 DEF CountInv, Counted, CountsRestart, Idle, InitJob
<1>3. PanicInv
  BY <1>1 DEF PanicInv, FirstRun, InPlace, Idle, InitJob
<1>4. PhaseInv /\ LawInv /\ RankInv
  BY <1>1 DEF PhaseInv, LawInv, RankInv, RanksDistinct, LivePods, Idle
<1>5. QED BY <1>1, <1>2, <1>3, <1>4, InitKeeps, InitShown, InitExact
          DEF KnownInv, FreshInv

\* Whatever the service needs and the server is asked meanwhile, and however old
\* the caches: no restart is counted twice, no job is given up early, and a
\* panic has one of its two explanations.
THEOREM ServerKeepsCounting ==
    ServerSpec => /\ []KnownInv
                  /\ [](RestartsNotOvercounted /\ NoEarlyFailure)
                  /\ []PanicsExplained
<1>1. ServerInit => KnownInv
  BY ServerInitKnown
<1>2. TypeOK /\ TypeOK' /\ KnownInv /\ [ServerNext]_orchestraVars => KnownInv'
  BY ServerKeepsKnown
<1>3. ServerTypeOK => TypeOK
  BY DEF ServerTypeOK
<1>4. TypeOK /\ KnownInv => RestartsNotOvercounted /\ NoEarlyFailure
  BY CountedSoundly DEF KnownInv
<1>5. TypeOK /\ KnownInv => PanicsExplained
  <2>1. TypeOK => Latest.entries \in Nat
    BY VersionTypes DEF JobVersion
  <2>2. QED BY <2>1 DEF KnownInv, PanicInv, PanicsExplained, FirstRun
<1>6. QED BY <1>1, <1>2, <1>3, <1>4, <1>5, ServerTypeCorrect, PTL DEF ServerSpec

\* With passes that start from caught-up caches the controller, with the service
\* to see to and calls failing on it, still follows the lifecycle, ends jobs for
\* good, takes back no restart it has shown and gives no rank twice.
THEOREM ServerFollowsLifecycle ==
    ~Lagging => (ServerSpec => /\ FollowsLossyLifecycle
                               /\ TerminalAbsorbing
                               /\ RestartsNeverFall
                               /\ []RanksDistinct)
<1> SUFFICES ASSUME ~Lagging
             PROVE  ServerSpec => /\ FollowsLossyLifecycle
                                  /\ TerminalAbsorbing
                                  /\ RestartsNeverFall
                                  /\ []RanksDistinct
  OBVIOUS
<1>1. ServerInit => FreshInv /\ Lifecycle!Init
  <2>1. ServerInit => Lifecycle!Init
    BY DEF ServerInit, ServiceInit, Init, Latest, InitJob, Lifecycle!Init
  <2>2. QED BY <2>1, ServerInitKnown
<1>2. TypeOK /\ TypeOK' /\ FreshInv /\ [ServerNext]_orchestraVars => FreshInv'
  BY ServerKeepsKnown
<1>3. ServerTypeOK => TypeOK
  BY DEF ServerTypeOK
<1>4. TypeOK /\ TypeOK' /\ FreshInv /\ NoEarlyFailure' /\ [ServerNext]_orchestraVars
        => /\ [Lifecycle!LossyNext]_(Lifecycle!vars)
           /\ [Latest.phase \in Terminal => Latest'.phase = Latest.phase]_vars
           /\ [Latest.restarts <= Latest'.restarts]_vars
  <2> SUFFICES ASSUME TypeOK, TypeOK', FreshInv, NoEarlyFailure',
                      [ServerNext]_orchestraVars
               PROVE  /\ [Lifecycle!LossyNext]_(Lifecycle!vars)
                      /\ Latest.phase \in Terminal => Latest'.phase = Latest.phase
                      /\ Latest.restarts <= Latest'.restarts
    OBVIOUS
  <2>1. CASE [Next]_vars
    BY <2>1, StepFollowsLossy, StepStays, StepShown
       DEF FreshInv, PhaseStays, ShownGrows
  <2>2. CASE ServiceFault
    <3>1. Latest.restarts <= Latest.restarts
      BY VersionTypes, RestartsNat
    <3>2. QED BY <2>2, <3>1, FaultSteps DEF Lifecycle!vars
  <2>3. QED BY <2>1, <2>2, ServerSteps
<1>5. FreshInv => RanksDistinct
  BY DEF FreshInv, RankInv
<1>6. QED BY <1>1, <1>2, <1>3, <1>4, <1>5, ServerTypeCorrect, ServerKeepsCounting,
             PTL DEF ServerSpec, FollowsLossyLifecycle, Lifecycle!LossySpec,
                     TerminalAbsorbing, RestartsNeverFall

\* And when no write is lost and the operator is not killed, it counts every
\* restart, keeps to the limit and follows the lifecycle as it is meant.
THEOREM ServerCountsExactly ==
    Calm => (ServerSpec => /\ [](RestartsExact /\ BackoffRespected)
                           /\ FollowsLifecycle)
<1> SUFFICES ASSUME Calm
             PROVE  ServerSpec => /\ [](RestartsExact /\ BackoffRespected)
                                  /\ FollowsLifecycle
  OBVIOUS
<1>1. ServerInit => ExactInv /\ FreshInv /\ Lifecycle!Init
  <2>1. ServerInit => Lifecycle!Init
    BY DEF ServerInit, ServiceInit, Init, Latest, InitJob, Lifecycle!Init
  <2>2. QED BY <2>1, ServerInitKnown
<1>2. TypeOK /\ TypeOK' /\ ExactInv /\ FreshInv /\ [ServerNext]_orchestraVars
        => ExactInv' /\ FreshInv'
  BY ServerKeepsKnown DEF Calm
<1>3. ServerTypeOK => TypeOK
  BY DEF ServerTypeOK
<1>4. TypeOK /\ ExactInv /\ FreshInv /\ [ServerNext]_orchestraVars
        => [Lifecycle!Next]_(Lifecycle!vars)
  <2> SUFFICES ASSUME TypeOK, ExactInv, FreshInv, [ServerNext]_orchestraVars
               PROVE  [Lifecycle!Next]_(Lifecycle!vars)
    OBVIOUS
  <2>1. CASE [Next]_vars BY <2>1, StepFollows DEF FreshInv
  <2>2. CASE ServiceFault BY <2>2, FaultSteps DEF Lifecycle!vars
  <2>3. QED BY <2>1, <2>2, ServerSteps
<1>5. ExactInv => RestartsExact /\ BackoffRespected
  BY DEF ExactInv, Exact, RestartsExact, BackoffRespected, Latest
<1>6. QED BY <1>1, <1>2, <1>3, <1>4, <1>5, ServerTypeCorrect, PTL
          DEF ServerSpec, FollowsLifecycle, Lifecycle!Spec

\* And its passes delete no ready pod that the job still wants, if no two of its
\* tasks are of one type.
THEOREM ServerKeepsReadyPods ==
    ~Lagging /\ ~Preemptible /\ Unmixed /\ DistinctTypes
        => (ServerSpec => ReadyPodsKept)
<1> SUFFICES ASSUME ~Lagging, ~Preemptible, Unmixed, DistinctTypes
             PROVE  ServerSpec => ReadyPodsKept
  OBVIOUS
<1>1. ServerInit => KeepInv
  BY ServerInitKnown
<1>2. TypeOK /\ TypeOK' /\ KeepInv /\ [ServerNext]_orchestraVars => KeepInv'
  BY ServerKeepsKnown
<1>3. ServerTypeOK => TypeOK
  BY DEF ServerTypeOK
<1>4. TypeOK /\ KeepInv =>
        [DeletePod /\ rec.job.phase \in Phases \ ({"Pending"} \cup Terminal)
            => \A s \in ReadyPods(pods) :
                  pods'[s] = NoPod
                    => Cardinality(OfType(LivePods(pods), TaskType[s[1]]))
                          > Wanted(rec.job, TaskType[s[1]])]_vars
  BY DeletionsSpare DEF Active
<1>5. QED BY <1>1, <1>2, <1>3, <1>4, ServerTypeCorrect, PTL
          DEF ServerSpec, ReadyPodsKept

-----------------------------------------------------------------------------
(* The service.                                                            *)

\* The service is to be deleted only by a pass over a job that is over.
DueInv == due = "delete" => rec.pc # "idle" /\ rec.job.phase \in Terminal

\* What the pass of the service leaves due.
LEMMA ServiceStepDue ==
    ASSUME TypeOK, ServiceTypeOK, DueInv, ServiceNext
    PROVE  DueInv'
<1>1. rec \in Pass
  BY DEF TypeOK
<1>2. ASSUME due' # "delete"
      PROVE  DueInv'
  BY <1>2 DEF DueInv
<1>3. ASSUME UNCHANGED <<due, rec>>
      PROVE  DueInv'
  BY <1>3 DEF DueInv
<1>4. CASE ServicePass
  <2>1. CASE (BeginPass \/ (due = "nothing" /\ FinishPass)) /\ UNCHANGED serviceVars
    BY <1>2, <2>1 DEF BeginPass, serviceVars, ServiceTypeOK
  <2>2. CASE ReconcileAndList
    BY <1>2, <2>2 DEF ReconcileAndList
  <2>3. CASE DeletePodsAndServices
    <3>1. ReconcileByPhase /\ rec.job.phase \in Terminal
      BY <2>3 DEF DeletePodsAndServices, CleanUp, ReconcileByPhase
    <3>2. rec'.job = rec.job /\ rec'.pc # "idle"
      BY <3>1, ReconcilePlans, PlansAreLawful DEF PlanMade, PlanLawful
    <3>3. QED BY <3>1, <3>2 DEF DueInv
  <2>4. CASE CallPods
    BY <1>2, <2>4 DEF CallPods
  <2>5. CASE DeleteService \/ CreateService
    BY <1>2, <2>5 DEF DeleteService, CreateService
  <2>6. QED BY <1>4, <2>1, <2>2, <2>3, <2>4, <2>5 DEF ServicePass
<1>5. CASE SyncServices \/ LoseService
  BY <1>3, <1>5 DEF SyncServices, LoseService, vars
<1>6. CASE ServiceRecovers
  BY <1>2, <1>6 DEF ServiceRecovers
<1>7. CASE /\ \/ HandleJobUpdate \/ SyncJob \/ SyncPods
              \/ \E s \in Slots : PodStep(s)
              \/ Scale \/ Reallocate
           /\ UNCHANGED serviceVars
  <2>1. UNCHANGED rec
    BY <1>7 DEF HandleJobUpdate, SyncJob, SyncPods, Scale, Reallocate, Edit,
                PodStep, SchedulePod, PodGetsReady, PodCompletes, ReapPod,
                PodFails, NodeRejects, EvictPod
  <2>2. QED BY <1>3, <1>7, <2>1 DEF serviceVars
<1>8. QED BY <1>4, <1>5, <1>6, <1>7 DEF ServiceNext

\* With passes that start from caught-up caches the operator deletes the service
\* of a job only when the job is over: not merely when the pass thought so.
THEOREM ServiceStays == ~Lagging => (ServerSpec => ServiceKept)
<1> SUFFICES ASSUME ~Lagging PROVE ServerSpec => ServiceKept
  OBVIOUS
<1>1. ServerInit => FreshInv /\ DueInv
  BY ServerInitKnown DEF ServerInit, ServiceInit, DueInv
<1>2. TypeOK /\ TypeOK' /\ FreshInv /\ [ServerNext]_orchestraVars => FreshInv'
  BY ServerKeepsKnown
<1>3. ServerTypeOK /\ DueInv /\ [ServerNext]_orchestraVars => DueInv'
  <2> SUFFICES ASSUME ServerTypeOK, DueInv, [ServerNext]_orchestraVars
               PROVE  DueInv'
    OBVIOUS
  <2>1. CASE ServiceNext
    BY <2>1, ServiceStepDue DEF ServerTypeOK
  <2>2. CASE UNCHANGED allVars
    BY <2>2 DEF DueInv, allVars, vars, serviceVars
  <2>3. CASE ~ServiceNext
    <3>1. UNCHANGED allVars
      BY <2>3 DEF ServerNext, OperatorAndCluster, SyncServer, GetReplicas,
         AddOrDeleteReplicas, PostProfilings, UpdateJobAllocationInCluster,
         UpdateJobProfilingsInCluster, orchestraVars
    <3>2. QED BY <2>2, <3>1
  <2>4. QED BY <2>1, <2>3
<1>4. ServerTypeOK => TypeOK
  BY DEF ServerTypeOK
<1>5. FreshInv /\ DueInv =>
        [DeleteService /\ service /\ ~service' => Latest.phase \in Terminal]_allVars
  BY DEF FreshInv, PhaseInv, DueInv, DeleteService
<1>6. QED BY <1>1, <1>2, <1>3, <1>4, <1>5, ServerTypeCorrect, PTL
          DEF ServerSpec, ServiceKept
=============================================================================
