------------------------- MODULE DIJobControllerExact -------------------------
(***************************************************************************)
(* What holds of DIJobController when every pass starts from caught-up     *)
(* caches: phases end for good and, if no write is lost and the operator   *)
(* does not crash, restarts are counted exactly and kept within the limit. *)
(***************************************************************************)
EXTENDS DIJobControllerProofs

-----------------------------------------------------------------------------
(* Terminal phases.                                                        *)

\* Only the pass changes the phase, and it knows the phase; when the job is
\* over, the pass does not mean to change it.
PhaseInv ==
    rec.pc # "idle" =>
        /\ rec.job.phase = Latest.phase
        /\ rec.job.phase \in Terminal => rec.phase = rec.job.phase /\ ~rec.undo

\* A plan keeps the pass going; it restarts the job only within the limit, and
\* leaves the phase of a job that is over alone.
PlanBounded ==
    /\ rec'.pc # "idle"
    /\ rec'.phase = "Restarting" => \/ rec.phase = "Restarting"
                                    \/ rec.job.restarts < BackoffLimit
    /\ rec.job.phase \in Terminal => rec'.phase = rec.phase /\ rec'.undo = rec.undo

\* Of all phases only a terminal one leads to the clean-up, and no other plan
\* touches a job that is over.
LEMMA PlansAreBounded ==
    ASSUME TypeOK, ReconcileByPhase
    PROVE  PlanBounded
<1>1. rec \in Pass /\ rec.job.phase \in Phases
  BY DEF TypeOK, Pass, JobVersion
<1>2. ASSUME rec.job.phase \notin Terminal, NEW p \in Phases, Set(p),
             p = "Restarting" => rec.job.restarts < BackoffLimit
      PROVE  PlanBounded
  BY <1>1, <1>2 DEF Set, Pass, PlanBounded
<1>3. ASSUME NEW S, NEW b, Delete(S, b)
      PROVE  PlanBounded
  BY <1>1, <1>3 DEF Delete, Pass, PlanBounded
<1>4. ASSUME Panic
      PROVE  PlanBounded
  BY <1>1, <1>4 DEF Panic, Pass, PlanBounded
<1>5. ASSUME rec.job.phase \notin Terminal, CheckPodsCompletion
      PROVE  PlanBounded
  BY <1>1, <1>2, <1>5 DEF CheckPodsCompletion, ByBackoffLimit, Phases
<1>6. ASSUME rec.job.phase \notin Terminal, DetectReschedule
      PROVE  PlanBounded
  BY <1>2, <1>4, <1>6 DEF DetectReschedule, Phases
<1>7. ASSUME rec.job.phase \notin Terminal, NEW p \in Phases, p # "Restarting",
             BuildAndCreatePods(p)
      PROVE  PlanBounded
  BY <1>1, <1>4, <1>7 DEF BuildAndCreatePods, Pass, PlanBounded
<1>8. ASSUME NEW S, CreateMissedReplicas(S)
      PROVE  PlanBounded
  BY <1>1, <1>8 DEF CreateMissedReplicas, Pass, PlanBounded
<1>9. ASSUME DeleteRedundantReplicas
      PROVE  PlanBounded
  BY <1>3, <1>9 DEF DeleteRedundantReplicas
<1>10. CASE ReconcilePending
  BY <1>2, <1>3, <1>7, <1>10 DEF ReconcilePending, Terminal, Phases
<1>11. CASE ReconcileStarting
  BY <1>2, <1>5, <1>6, <1>11 DEF ReconcileStarting, Terminal, Phases
<1>12. CASE ReconcileRunning
  BY <1>2, <1>5, <1>6, <1>12 DEF ReconcileRunning, Terminal, Phases
<1>13. CASE ReconcileRestarting
  BY <1>2, <1>3, <1>8, <1>9, <1>13 DEF ReconcileRestarting, Terminal, Phases
<1>14. CASE ReconcileRescheduling
  BY <1>2, <1>3, <1>7, <1>8, <1>9, <1>14
     DEF ReconcileRescheduling, Terminal, Phases
<1>15. CASE CleanUp
  BY <1>3, <1>15 DEF CleanUp
<1>16. QED
  BY <1>10, <1>11, <1>12, <1>13, <1>14, <1>15 DEF ReconcileByPhase

\* The work of a pass between its plan and its end leaves the job and the phase
\* alone; after a failed creation that is undone the limit decides.
WorkBounded ==
    /\ UNCHANGED jobs
    /\ rec'.pc # "idle" /\ rec'.job = rec.job /\ rec'.undo = rec.undo
    /\ \/ rec'.phase = rec.phase
       \/ rec.undo /\ rec'.phase = ByBackoffLimit(rec.job)

\* The calls of a pass are such work.
LEMMA WorkIsBounded ==
    ASSUME TypeOK, DeletePod \/ CreatePod \/ CreateFails \/ BuildPodPanics
    PROVE  WorkBounded
<1>1. rec \in Pass
  BY DEF TypeOK
<1>2. CASE DeletePod
  BY <1>1, <1>2 DEF DeletePod, Working, Pass, WorkBounded
<1>3. CASE CreatePod
  BY <1>1, <1>3 DEF CreatePod, Working, Pass, WorkBounded
<1>4. CASE CreateFails
  <2>1. CASE rec.undo
    BY <1>1, <1>4, <2>1 DEF CreateFails, Working, Pass, WorkBounded
  <2>2. CASE ~rec.undo
    BY <1>1, <1>4, <2>2 DEF CreateFails, Working, Pass, WorkBounded
  <2>3. QED BY <2>1, <2>2
<1>5. CASE BuildPodPanics
  BY <1>1, <1>5 DEF BuildPodPanics, Working, Panic, Pass, WorkBounded
<1>6. QED BY <1>2, <1>3, <1>4, <1>5

\* A pass that starts with caught-up caches reads the latest version.
LEMMA PassReadsLatest ==
    ASSUME TypeOK, BeginPass, ~Lagging
    PROVE  /\ Len(jobs) = 1 /\ Cached = jobs[1] /\ Latest = jobs[1]
           /\ UNCHANGED jobs
           /\ rec'.pc = "list" /\ rec'.job = jobs[1]
           /\ rec'.phase = jobs[1].phase /\ ~rec'.undo
BY DEF TypeOK, BeginPass, Cached, Latest, Idle

\* Handling an update writes at most the counter.
LEMMA HandlerKeepsPhase ==
    ASSUME TypeOK, HandleJobUpdate
    PROVE  Latest'.phase = Latest.phase /\ Latest'.entries = Latest.entries
<1> DEFINE counted == [Latest EXCEPT !.restarts =
                                CountedRestarts(jobs[1], jobs[2])]
           t == Tail(jobs)
<1>1. /\ t \in Seq(JobVersion) /\ Len(t) \in Nat /\ Len(t) = Len(jobs) - 1
      /\ Len(t) >= 1 /\ t[Len(t)] = Latest
  BY HeadTailProperties DEF TypeOK, HandleJobUpdate, Latest
<1>2. counted.phase = Latest.phase /\ counted.entries = Latest.entries
  BY VersionTypes DEF JobVersion
<1>3. jobs' \in {t, With(t, counted)}
  BY DEF HandleJobUpdate
<1> HIDE DEF t, counted
<1>4. CASE jobs' = t
  BY <1>1, <1>4 DEF Latest
<1>5. CASE jobs' = Append(t, counted)
  <2>1. Len(jobs') = Len(t) + 1 /\ jobs'[Len(t) + 1] = counted
    BY <1>1, <1>5
  <2>2. QED BY <1>2, <2>1 DEF Latest
<1>6. QED BY <1>3, <1>4, <1>5 DEF With

\* An edit makes the edited version the latest.
LEMMA EditAppends ==
    ASSUME TypeOK, NEW v, Edit(v)
    PROVE  Latest' = v /\ rec' = rec
BY DEF TypeOK, Edit, Latest

\* The user and the allocator change neither the phase nor a counter.
LEMMA EditsKeepPhase ==
    ASSUME TypeOK, Scale \/ Reallocate
    PROVE  \E v \in JobVersion :
              /\ Edit(v) /\ v.phase = Latest.phase
              /\ v.restarts = Latest.restarts /\ v.entries = Latest.entries
<1>1. Latest \in JobVersion
  BY VersionTypes
<1>2. CASE Scale
  <2>1. PICK want \in Wants : Edit([Latest EXCEPT !.want = want])
    BY <1>2 DEF Scale
  <2> DEFINE v == [Latest EXCEPT !.want = want]
  <2>2. /\ v \in JobVersion /\ v.phase = Latest.phase
        /\ v.restarts = Latest.restarts /\ v.entries = Latest.entries
    BY <1>1, SpecAssumption DEF JobVersion
  <2>3. Edit(v)
    BY <2>1
  <2> HIDE DEF v
  <2>4. QED BY <2>2, <2>3
<1>3. CASE Reallocate
  <2>1. PICK alloc \in Allocations : Edit([Latest EXCEPT !.alloc = alloc])
    BY <1>3 DEF Reallocate
  <2> DEFINE v == [Latest EXCEPT !.alloc = alloc]
  <2>2. /\ v \in JobVersion /\ v.phase = Latest.phase
        /\ v.restarts = Latest.restarts /\ v.entries = Latest.entries
    BY <1>1, AllocationAssumption DEF JobVersion
  <2>3. Edit(v)
    BY <2>1
  <2> HIDE DEF v
  <2>4. QED BY <2>2, <2>3
<1>4. QED BY <1>2, <1>3

\* A job that is over keeps its phase, and what the pass knows stays true.
PhaseStays ==
    /\ PhaseInv'
    /\ Latest.phase \in Terminal => Latest'.phase = Latest.phase

\* Steps outside the pass leave the phase alone.
LEMMA SamePhaseStays ==
    ASSUME PhaseInv, Latest'.phase = Latest.phase, rec' = rec
    PROVE  PhaseStays
BY DEF PhaseInv, PhaseStays

\* The steps of a pass know the phase, and end no job anew.
LEMMA PassStepStays ==
    ASSUME TypeOK, PhaseInv, ~Lagging, PassStep
    PROVE  PhaseStays
<1>1. ASSUME UNCHANGED jobs
      PROVE  Latest' = Latest
  BY <1>1 DEF Latest
<1>2. CASE BeginPass
  <2>1. Latest' = Latest /\ Latest = jobs[1]
    BY <1>1, <1>2, PassReadsLatest
  <2>2. QED BY <1>2, <2>1, PassReadsLatest DEF PhaseInv, PhaseStays
<1>3. CASE ReconcileByPhase
  <2>1. UNCHANGED jobs /\ rec'.job = rec.job /\ rec.pc # "idle"
    BY <1>3, ReconcilePlans, ListPodsType DEF PlanMade, ListPods
  <2>2. QED BY <1>1, <1>3, <2>1, PlansAreBounded
            DEF PhaseInv, PhaseStays, PlanBounded
<1>4. CASE DeletePod \/ CreatePod \/ CreateFails \/ BuildPodPanics
  <2>1. rec.pc # "idle"
    BY <1>4 DEF DeletePod, CreatePod, CreateFails, BuildPodPanics, Working
  <2>2. QED BY <1>1, <1>4, <2>1, WorkIsBounded
            DEF PhaseInv, PhaseStays, WorkBounded
<1>5. CASE FinishPass
  <2>1. rec'.pc = "idle" /\ rec.pc # "idle"
    BY <1>5 DEF FinishPass, Idle, Working
  <2>2. CASE UNCHANGED jobs
    BY <1>1, <2>1, <2>2 DEF PhaseInv, PhaseStays
  <2>3. CASE rec.phase # rec.job.phase
    BY <2>1, <2>3 DEF PhaseInv, PhaseStays
  <2>4. QED BY <1>5, <2>2, <2>3 DEF FinishPass
<1>6. QED BY <1>2, <1>3, <1>4, <1>5 DEF PassStep

\* After a restart of the operator nothing is known, and the phase is the same.
LEMMA RecoverStays ==
    ASSUME TypeOK, Recover
    PROVE  PhaseStays /\ Latest' = Latest /\ rec' = Idle /\ jobs' = <<Latest>>
BY DEF Recover, Idle, Latest, PhaseInv, PhaseStays

\* Every step of the system.
LEMMA StepStays ==
    ASSUME TypeOK, PhaseInv, ~Lagging, [Next]_vars
    PROVE  PhaseStays
<1>1. ASSUME UNCHANGED <<jobs, rec>>
      PROVE  PhaseStays
  BY <1>1, SamePhaseStays DEF Latest
<1>2. CASE PassStep BY <1>2, PassStepStays
<1>3. CASE HandleJobUpdate
  BY <1>3, HandlerKeepsPhase, SamePhaseStays DEF HandleJobUpdate
<1>4. CASE SyncJob \/ SyncPods BY <1>1, <1>4 DEF SyncJob, SyncPods
<1>5. CASE Crash \/ Restart BY <1>5, RecoverStays DEF Crash, Restart
<1>6. ASSUME NEW s \in Slots, PodStep(s)
      PROVE  PhaseStays
  BY <1>1, <1>6
     DEF PodStep, SchedulePod, PodGetsReady, PodCompletes, ReapPod, PodFails,
         NodeRejects, EvictPod
<1>7. CASE Scale \/ Reallocate
  BY <1>7, EditsKeepPhase, EditAppends, SamePhaseStays
<1>8. CASE UNCHANGED vars BY <1>1, <1>8 DEF vars
<1>9. QED
  BY <1>2, <1>3, <1>4, <1>5, <1>6, <1>7, <1>8 DEF Next, OperatorStep

\* When every pass starts from caught-up caches, a job that has succeeded or
\* failed stays so, whatever fails, is lost, is scaled or crashes meanwhile.
THEOREM TerminalStays == ~Lagging => (Spec => TerminalAbsorbing)
<1> SUFFICES ASSUME ~Lagging PROVE Spec => TerminalAbsorbing
  OBVIOUS
<1>1. Init => PhaseInv
  BY DEF Init, Idle, PhaseInv
<1>2. TypeOK /\ PhaseInv /\ [Next]_vars => PhaseInv'
  BY StepStays DEF PhaseStays
<1>3. TypeOK /\ PhaseInv /\ [Next]_vars
        => [Latest.phase \in Terminal => Latest'.phase = Latest.phase]_vars
  BY StepStays DEF PhaseStays
<1>4. QED BY <1>1, <1>2, <1>3, TypeCorrect, PTL DEF Spec, TerminalAbsorbing

-----------------------------------------------------------------------------
(* Exact counting.  A pass starts only when the handler has caught up, so  *)
(* the versions show at most one change of the phase, or none.             *)

\* No write is lost, and the operator is not killed.
Calm ==
    /\ ~Lagging
    /\ \A b \in Budgets : b["timeout"] = 0 /\ b["crash"] = 0

\* The versions are those before and those after one change of the phase; while
\* the handler has not seen it, nothing after it is counted, and once it has,
\* the latest version counts every restart.
Exact(versions) ==
    LET first == versions[1]
        last == versions[Len(versions)]
    IN  /\ \A i \in 1..Len(versions) :
              \/ /\ versions[i].phase = first.phase
                 /\ versions[i].entries = first.entries
              \/ /\ versions[i].phase = last.phase
                 /\ versions[i].entries = last.entries
        /\ \A i, j \in 1..Len(versions) :
              i <= j /\ versions[i].phase = last.phase
                => versions[j].phase = last.phase
        /\ first.phase = last.phase => /\ first.entries = last.entries
                                       /\ last.restarts = last.entries
        /\ first.phase # last.phase =>
              /\ \A i \in 1..Len(versions) : versions[i].restarts = first.entries
              /\ last.entries = IF last.phase = "Restarting"
                                THEN first.entries + 1 ELSE first.entries

\* The versions are all as the pass has read the job, but for its spec.
Alike(versions, v) ==
    \A i \in 1..Len(versions) : /\ versions[i].phase = v.phase
                                /\ versions[i].restarts = v.restarts
                                /\ versions[i].entries = v.entries

ExactInv ==
    /\ left["timeout"] = 0 /\ left["crash"] = 0
    /\ Exact(jobs)
    /\ Latest.entries <= BackoffLimit
    /\ rec.pc # "idle" =>
          /\ Alike(jobs, rec.job)
          /\ rec.job.restarts = rec.job.entries
          /\ rec.phase = "Restarting" => \/ rec.job.phase = "Restarting"
                                         \/ rec.job.restarts < BackoffLimit

\* An edit shows no change of the phase.
LEMMA AppendExact ==
    ASSUME NEW versions \in Seq(JobVersion), Len(versions) >= 1,
           Exact(versions), NEW v \in JobVersion,
           v.phase = versions[Len(versions)].phase,
           v.restarts = versions[Len(versions)].restarts,
           v.entries = versions[Len(versions)].entries
    PROVE  Exact(Append(versions, v))
<1> DEFINE w == Append(versions, v)
           n == Len(versions)
<1>1. /\ w \in Seq(JobVersion) /\ n \in Nat /\ n >= 1 /\ Len(w) = n + 1
      /\ w[n + 1] = v /\ \A i \in 1..n : w[i] = versions[i]
  BY AppendProperties
<1> HIDE DEF w
<1>2. w[1] = versions[1] /\ w[Len(w)] = v
  BY <1>1
<1>3. \A i \in 1..(n + 1) : i \in 1..n \/ i = n + 1
  BY <1>1
<1>4. ASSUME NEW i \in 1..(n + 1)
      PROVE  /\ \/ w[i].phase = w[1].phase /\ w[i].entries = w[1].entries
                \/ w[i].phase = v.phase /\ w[i].entries = v.entries
             /\ w[1].phase # v.phase => w[i].restarts = w[1].entries
  <2>1. CASE i \in 1..n BY <1>1, <1>2, <2>1 DEF Exact
  <2>2. CASE i = n + 1 BY <1>1, <1>2, <2>2 DEF Exact
  <2>3. QED BY <1>3, <2>1, <2>2
<1>5. ASSUME NEW i \in 1..(n + 1), NEW j \in 1..(n + 1), i <= j,
             w[i].phase = v.phase
      PROVE  w[j].phase = v.phase
  <2>1. CASE j \in 1..n
    <3>1. i \in 1..n
      BY <1>1, <1>5, <2>1
    <3>2. QED BY <1>1, <1>5, <2>1, <3>1 DEF Exact
  <2>2. CASE j = n + 1 BY <1>1, <2>2
  <2>3. QED BY <1>3, <2>1, <2>2
<1>6. /\ w[1].phase = v.phase => /\ w[1].entries = v.entries
                                 /\ v.restarts = v.entries
      /\ w[1].phase # v.phase =>
            v.entries = IF v.phase = "Restarting"
                        THEN w[1].entries + 1 ELSE w[1].entries
  BY <1>2 DEF Exact
<1>7. QED BY <1>1, <1>2, <1>4, <1>5, <1>6 DEF Exact, w

\* Versions alike show no change of the phase.
LEMMA AlikeExact ==
    ASSUME NEW versions \in Seq(JobVersion), Len(versions) >= 1,
           NEW p, NEW e,
           \A i \in 1..Len(versions) : /\ versions[i].phase = p
                                       /\ versions[i].entries = e,
           versions[Len(versions)].restarts = e
    PROVE  Exact(versions)
<1>1. 1 \in 1..Len(versions) /\ Len(versions) \in 1..Len(versions)
  OBVIOUS
<1>2. QED BY <1>1 DEF Exact

\* The write that ends a pass shows one change of the phase.
LEMMA ChangeExact ==
    ASSUME NEW versions \in Seq(JobVersion), Len(versions) >= 1,
           NEW u \in JobVersion, Alike(versions, u), u.restarts = u.entries,
           NEW v \in JobVersion, v.phase # u.phase, v.restarts = u.restarts,
           v.entries = IF v.phase = "Restarting"
                       THEN u.entries + 1 ELSE u.entries
    PROVE  Exact(Append(versions, v))
<1> DEFINE w == Append(versions, v)
           n == Len(versions)
<1>1. /\ w \in Seq(JobVersion) /\ n \in Nat /\ n >= 1 /\ Len(w) = n + 1
      /\ w[n + 1] = v /\ \A i \in 1..n : w[i] = versions[i]
  BY AppendProperties
<1> HIDE DEF w
<1>2. \A i \in 1..n : /\ w[i].phase = u.phase /\ w[i].restarts = u.restarts
                      /\ w[i].entries = u.entries
  BY <1>1 DEF Alike
<1>3. w[Len(w)] = v /\ w[1].phase = u.phase /\ w[1].entries = u.entries
  BY <1>1, <1>2
<1>4. \A i \in 1..(n + 1) : i \in 1..n \/ i = n + 1
  BY <1>1
<1>5. \A i, j \in 1..(n + 1) :
          i <= j /\ w[i].phase = v.phase => w[j].phase = v.phase
  BY <1>1, <1>2, <1>4
<1>6. \A i \in 1..(n + 1) :
          /\ \/ w[i].phase = w[1].phase /\ w[i].entries = w[1].entries
             \/ w[i].phase = v.phase /\ w[i].entries = v.entries
          /\ w[i].restarts = w[1].entries
  BY <1>1, <1>2, <1>3, <1>4
<1>7. QED BY <1>1, <1>3, <1>5, <1>6 DEF Exact, w

\* What writing the phase makes of the number of restarts.
LEMMA WithPhaseEntries ==
    ASSUME NEW v \in JobVersion, NEW p \in Phases, p # v.phase
    PROVE  /\ WithPhase(v, p).entries = IF p = "Restarting" THEN v.entries + 1
                                                            ELSE v.entries
           /\ WithPhase(v, p) # v
<1>1. CASE p = "Restarting"
  <2>1. WithPhase(v, p) = [v EXCEPT !.phase = p, !.entries = v.entries + 1]
    BY <1>1 DEF WithPhase
  <2>2. QED BY <1>1, <2>1 DEF JobVersion
<1>2. CASE p # "Restarting"
  <2>1. WithPhase(v, p) = [v EXCEPT !.phase = p, !.entries = v.entries]
    BY <1>2 DEF WithPhase
  <2>2. QED BY <1>2, <2>1 DEF JobVersion
<1>3. QED BY <1>1, <1>2

\* Disruptions of one kind leave the budgets of the others alone, and one that
\* is not in the budget does not happen.
LEMMA SpendLeaves ==
    ASSUME TypeOK, ExactInv, NEW k \in Kinds, Spend(k)
    PROVE  /\ left'["timeout"] = 0 /\ left'["crash"] = 0
           /\ k \notin {"timeout", "crash"}
BY DEF TypeOK, ExactInv, Spend, Kinds

\* When nothing the versions or the pass show changes, they stay exact.
LEMMA SameExact ==
    ASSUME ExactInv, UNCHANGED <<jobs, rec>>,
           left'["timeout"] = 0, left'["crash"] = 0
    PROVE  ExactInv'
BY DEF ExactInv, Exact, Alike, Latest

\* The end of a pass shows one change, or none.
LEMMA FinishExact ==
    ASSUME TypeOK, ExactInv, FinishPass
    PROVE  ExactInv'
<1>1. /\ rec.phase \in Phases /\ rec.job \in JobVersion /\ Latest \in JobVersion
      /\ rec.job.restarts \in Nat /\ jobs \in Seq(JobVersion) /\ Len(jobs) >= 1
  BY VersionTypes DEF TypeOK, Pass, JobVersion
<1>2. rec' = Idle /\ rec.pc # "idle"
  BY DEF FinishPass, Working
<1>3. ~Spend("timeout") /\ left["timeout"] = 0 /\ left["crash"] = 0
  BY SpendLeaves DEF Kinds, ExactInv
<1>4. UNCHANGED left
  BY <1>3 DEF FinishPass
<1>5. CASE UNCHANGED jobs
  BY <1>2, <1>3, <1>4, <1>5 DEF ExactInv, Exact, Latest, Idle
<1>6. CASE /\ rec.phase # rec.job.phase
           /\ jobs' = With(jobs, WithPhase(Latest, rec.phase))
  <2> DEFINE v == WithPhase(Latest, rec.phase)
  <2>1. /\ Alike(jobs, rec.job) /\ rec.job.restarts = rec.job.entries
        /\ rec.phase = "Restarting" => rec.job.restarts < BackoffLimit
        /\ Latest.entries <= BackoffLimit
    BY <1>2, <1>6 DEF ExactInv
  <2>2. /\ Latest.phase = rec.job.phase /\ Latest.restarts = rec.job.restarts
        /\ Latest.entries = rec.job.entries
    BY <1>1, <2>1 DEF Alike, Latest
  <2>3. /\ v \in JobVersion /\ v.phase = rec.phase /\ v # Latest
        /\ v.restarts = rec.job.restarts
        /\ v.entries = IF v.phase = "Restarting" THEN rec.job.entries + 1
                                                 ELSE rec.job.entries
    BY <1>1, <1>6, <2>2, WithPhaseType, WithPhaseFields, WithPhaseEntries
  <2>4. jobs' = With(jobs, v)
    BY <1>6
  <2> HIDE DEF v
  <2>5. jobs' = Append(jobs, v)
    BY <2>3, <2>4 DEF With, Latest
  <2>6. Exact(Append(jobs, v))
    BY <1>1, <1>6, <2>1, <2>3, ChangeExact
  <2>7. v.entries <= BackoffLimit
    BY <1>1, <2>1, <2>2, <2>3, SpecAssumption
  <2>8. Latest' = v
    BY <1>1, <2>5 DEF Latest
  <2>9. QED BY <1>2, <1>3, <1>4, <2>5, <2>6, <2>7, <2>8 DEF ExactInv, Exact, Idle
<1>7. QED BY <1>3, <1>5, <1>6 DEF FinishPass

\* Of versions that are exact the handler drops one that shows no change.
LEMMA TailExact ==
    ASSUME NEW versions \in Seq(JobVersion), Len(versions) >= 2,
           Exact(versions), versions[1].phase = versions[2].phase
    PROVE  Exact(Tail(versions))
<1> DEFINE t == Tail(versions)
           n == Len(versions)
<1>1. /\ t \in Seq(JobVersion) /\ n \in Nat /\ n >= 2 /\ Len(t) = n - 1
      /\ \A i \in 1..(n - 1) : t[i] = versions[i + 1]
  BY HeadTailProperties
<1> HIDE DEF t
<1>2. t[1] = versions[2] /\ t[Len(t)] = versions[n]
  BY <1>1
<1>3. versions[2].entries = versions[1].entries
  BY <1>1 DEF Exact
<1>4. \A i \in 1..(n - 1) : i + 1 \in 1..n
  BY <1>1
<1>5. \A i \in 1..Len(t) :
          /\ \/ t[i].phase = t[1].phase /\ t[i].entries = t[1].entries
             \/ /\ t[i].phase = versions[n].phase
                /\ t[i].entries = versions[n].entries
          /\ t[1].phase # versions[n].phase => t[i].restarts = t[1].entries
  BY <1>1, <1>2, <1>3, <1>4 DEF Exact
<1>6. \A i, j \in 1..Len(t) :
          i <= j /\ t[i].phase = versions[n].phase
            => t[j].phase = versions[n].phase
  BY <1>1, <1>4 DEF Exact
<1>7. /\ t[1].phase = versions[n].phase
            => /\ t[1].entries = versions[n].entries
               /\ versions[n].restarts = versions[n].entries
      /\ t[1].phase # versions[n].phase
            => versions[n].entries = IF versions[n].phase = "Restarting"
                                     THEN t[1].entries + 1 ELSE t[1].entries
  BY <1>2, <1>3 DEF Exact
<1>8. QED BY <1>2, <1>5, <1>6, <1>7 DEF Exact, t

\* Once the oldest version is dropped at the change, all the others agree.
LEMMA PastTheChange ==
    ASSUME NEW versions \in Seq(JobVersion), Len(versions) >= 2,
           Exact(versions), versions[1].phase # versions[2].phase,
           NEW last, last = versions[Len(versions)]
    PROVE  /\ \A i \in 1..Len(Tail(versions)) :
                 /\ Tail(versions)[i].phase = last.phase
                 /\ Tail(versions)[i].entries = last.entries
           /\ versions[2].phase = last.phase
           /\ versions[2].restarts = versions[1].entries
           /\ last.restarts = versions[1].entries
           /\ last.entries = IF last.phase = "Restarting"
                             THEN versions[1].entries + 1
                             ELSE versions[1].entries
<1> DEFINE n == Len(versions)
<1>1. /\ n \in Nat /\ n >= 2 /\ Len(Tail(versions)) = n - 1
      /\ \A i \in 1..(n - 1) : Tail(versions)[i] = versions[i + 1]
  BY HeadTailProperties
<1>2. 2 \in 1..n /\ n \in 1..n /\ \A i \in 1..(n - 1) : i + 1 \in 2..n
  BY <1>1
<1>3. versions[2].phase = last.phase /\ versions[1].phase # last.phase
  BY <1>2 DEF Exact
<1>4. \A i \in 2..n : versions[i].phase = last.phase
  BY <1>1, <1>2, <1>3 DEF Exact
<1>5. \A i \in 2..n : versions[i].entries = last.entries
  BY <1>1, <1>3, <1>4 DEF Exact
<1>6. QED BY <1>1, <1>2, <1>3, <1>4, <1>5 DEF Exact

\* The handler counts the restart that the versions show, and nothing else.
LEMMA HandlerExact ==
    ASSUME TypeOK, ExactInv, HandleJobUpdate
    PROVE  ExactInv'
<1> DEFINE counted == [Latest EXCEPT !.restarts =
                                CountedRestarts(jobs[1], jobs[2])]
           t == Tail(jobs)
<1>1. /\ jobs \in Seq(JobVersion) /\ Len(jobs) \in Nat /\ Len(jobs) >= 2
      /\ Latest \in JobVersion /\ jobs[2] \in JobVersion
      /\ jobs[1].entries \in Nat
      /\ t \in Seq(JobVersion) /\ Len(t) = Len(jobs) - 1 /\ t[Len(t)] = Latest
      /\ \A i \in 1..Len(t) : i + 1 \in 1..Len(jobs) /\ t[i] = jobs[i + 1]
  BY VersionTypes, ElementOfSeq, EntriesNat, HeadTailProperties
     DEF TypeOK, HandleJobUpdate, Latest
<1>2. ~Spend("timeout") /\ left["timeout"] = 0 /\ left["crash"] = 0
  BY SpendLeaves DEF Kinds, ExactInv
<1>3. UNCHANGED left /\ rec' = rec
  BY <1>2 DEF HandleJobUpdate
<1>4. Latest'.entries = Latest.entries /\ Exact(jobs)
      /\ Latest.entries <= BackoffLimit
  BY HandlerKeepsPhase DEF ExactInv
<1>5. ASSUME Exact(jobs'), rec.pc # "idle" => Alike(jobs', rec.job)
      PROVE  ExactInv'
  BY <1>2, <1>3, <1>4, <1>5 DEF ExactInv, Exact, Alike
<1>6. CASE jobs[1].phase = jobs[2].phase
  <2>1. jobs' = t
    BY <1>6 DEF HandleJobUpdate, CountsRestart, CountsReschedule
  <2>2. Exact(t)
    BY <1>1, <1>4, <1>6, TailExact
  <2>3. rec.pc # "idle" => Alike(t, rec.job)
    BY <1>1 DEF ExactInv, Alike
  <2>4. QED BY <1>5, <2>1, <2>2, <2>3
<1>7. CASE jobs[1].phase # jobs[2].phase
  <2>1. /\ \A i \in 1..Len(t) : /\ t[i].phase = Latest.phase
                                /\ t[i].entries = Latest.entries
        /\ jobs[2].phase = Latest.phase
        /\ jobs[2].restarts = jobs[1].entries
        /\ Latest.restarts = jobs[1].entries
        /\ Latest.entries = IF Latest.phase = "Restarting"
                            THEN jobs[1].entries + 1 ELSE jobs[1].entries
    BY <1>1, <1>4, <1>7, PastTheChange DEF Latest
  <2>2. rec.pc = "idle"
    <3>1. 1 \in 1..Len(jobs) /\ 2 \in 1..Len(jobs)
      BY <1>1
    <3>2. QED BY <1>7, <3>1 DEF ExactInv, Alike
  <2>3. CountedRestarts(jobs[1], jobs[2]) = Latest.entries
    BY <1>7, <2>1 DEF CountedRestarts, CountsRestart
  <2>4. /\ counted \in JobVersion /\ counted.phase = Latest.phase
        /\ counted.restarts = Latest.entries /\ counted.entries = Latest.entries
    BY <1>1, <2>3 DEF JobVersion
  <2>5. \/ jobs' = t /\ Latest.phase # "Restarting"
        \/ jobs' = With(t, counted)
    BY <1>2, <1>7, <2>1 DEF HandleJobUpdate, CountsRestart
  <2> HIDE DEF counted, t
  <2>6. CASE jobs' = t /\ Latest.restarts = Latest.entries
    <3>1. Len(t) >= 1 /\ t[Len(t)].restarts = Latest.entries
      BY <1>1, <2>6
    <3>2. Exact(t)
      BY <1>1, <2>1, <3>1, AlikeExact
    <3>3. QED BY <1>5, <2>2, <2>6, <3>2
  <2>7. CASE jobs' = With(t, counted)
    <3> DEFINE w == With(t, counted)
    <3>1. Len(t) \in Nat /\ Len(t) >= 1
      BY <1>1
    <3>2. /\ w \in Seq(JobVersion) /\ Len(w) \in {Len(t), Len(t) + 1}
          /\ w[Len(w)] = counted /\ \A i \in 1..Len(t) : w[i] = t[i]
      BY <1>1, <2>4, <3>1, WithType
    <3> HIDE DEF w
    <3>3. \A i \in 1..Len(w) : /\ w[i].phase = Latest.phase
                               /\ w[i].entries = Latest.entries
      <4>1. \A i \in 1..Len(w) : i \in 1..Len(t) \/ i = Len(w)
        BY <3>1, <3>2
      <4>2. QED BY <2>1, <2>4, <3>2, <4>1
    <3>4. Len(w) >= 1
      BY <3>1, <3>2
    <3>5. Exact(w)
      BY <2>4, <3>2, <3>3, <3>4, AlikeExact
    <3>6. QED BY <1>5, <2>2, <2>7, <3>5 DEF w
  <2>8. QED BY <2>1, <2>5, <2>6, <2>7
<1>8. QED BY <1>6, <1>7

\* The steps of a pass keep the versions exact and the restarts within the limit.
LEMMA PassStepExact ==
    ASSUME TypeOK, ExactInv, ~Lagging, PassStep
    PROVE  ExactInv'
<1>1. ASSUME UNCHANGED jobs
      PROVE  Latest' = Latest /\ Exact(jobs)' /\ Latest.entries <= BackoffLimit
  BY <1>1 DEF Latest, ExactInv, Exact
<1>2. left["timeout"] = 0 /\ left["crash"] = 0
  BY DEF ExactInv
<1>3. CASE BeginPass
  <2>1. Len(jobs) = 1 /\ UNCHANGED <<jobs, left>> /\ rec'.job = jobs[1]
        /\ rec'.phase = jobs[1].phase
    BY <1>3, PassReadsLatest DEF BeginPass
  <2>2. Exact(jobs)
    BY DEF ExactInv
  <2>3. jobs[1].restarts = jobs[1].entries
    BY <2>1, <2>2 DEF Exact
  <2>4. \A i \in 1..Len(jobs) : jobs[i] = jobs[1]
    BY <2>1
  <2>5. QED BY <1>1, <1>2, <2>1, <2>3, <2>4 DEF ExactInv, Alike
<1>4. ASSUME UNCHANGED jobs, rec.pc # "idle", rec'.job = rec.job,
             left'["timeout"] = 0, left'["crash"] = 0,
             rec'.phase = "Restarting" => \/ rec.phase = "Restarting"
                                          \/ rec.job.restarts < BackoffLimit
      PROVE  ExactInv'
  BY <1>1, <1>4 DEF ExactInv, Alike
<1>5. ASSUME UNCHANGED left \/ \E k \in Kinds : Spend(k)
      PROVE  left'["timeout"] = 0 /\ left'["crash"] = 0
  BY <1>2, <1>5, SpendLeaves
<1>6. CASE ReconcileByPhase
  <2>1. UNCHANGED jobs /\ rec'.job = rec.job /\ rec.pc # "idle"
        /\ (UNCHANGED left \/ \E k \in Kinds : Spend(k))
    BY <1>6, ReconcilePlans, ListPodsType DEF PlanMade, ListPods, Kinds
  <2>2. QED BY <1>4, <1>5, <1>6, <2>1, PlansAreBounded DEF PlanBounded
<1>7. CASE DeletePod \/ CreatePod \/ CreateFails \/ BuildPodPanics
  <2>1. rec.pc # "idle" /\ (UNCHANGED left \/ \E k \in Kinds : Spend(k))
    BY <1>7 DEF DeletePod, CreatePod, CreateFails, BuildPodPanics, Working, Kinds
  <2>2. ByBackoffLimit(rec.job) = "Restarting" => rec.job.restarts < BackoffLimit
    BY DEF ByBackoffLimit
  <2>3. WorkBounded
    BY <1>7, WorkIsBounded
  <2>4. QED BY <1>4, <1>5, <2>1, <2>2, <2>3 DEF WorkBounded
<1>8. CASE FinishPass BY <1>8, FinishExact
<1>9. QED BY <1>3, <1>6, <1>7, <1>8 DEF PassStep

\* An edit appends a version that shows no change.
LEMMA EditExact ==
    ASSUME TypeOK, ExactInv, NEW v \in JobVersion, Edit(v),
           v.phase = Latest.phase, v.restarts = Latest.restarts,
           v.entries = Latest.entries,
           left'["timeout"] = 0, left'["crash"] = 0
    PROVE  ExactInv'
<1>1. jobs \in Seq(JobVersion) /\ Len(jobs) \in Nat /\ Len(jobs) >= 1
  BY DEF TypeOK
<1>2. jobs' = Append(jobs, v) /\ Latest' = v /\ rec' = rec
  BY EditAppends DEF Edit
<1>3. Exact(Append(jobs, v))
  BY <1>1, AppendExact DEF ExactInv, Latest
<1>4. ASSUME rec.pc # "idle"
      PROVE  Alike(Append(jobs, v), rec.job)
  <2>1. Alike(jobs, rec.job)
    BY <1>4 DEF ExactInv
  <2>2. /\ v.phase = rec.job.phase /\ v.restarts = rec.job.restarts
        /\ v.entries = rec.job.entries
    BY <1>1, <2>1 DEF Alike, Latest
  <2>3. \A i \in 1..Len(Append(jobs, v)) :
            \/ i \in 1..Len(jobs) /\ Append(jobs, v)[i] = jobs[i]
            \/ Append(jobs, v)[i] = v
    BY <1>1
  <2>4. QED BY <2>1, <2>2, <2>3 DEF Alike
<1>5. QED BY <1>2, <1>3, <1>4 DEF ExactInv, Exact, Alike

\* A panic ends the pass before it has written anything.
LEMMA RestartExact ==
    ASSUME TypeOK, ExactInv, Restart
    PROVE  ExactInv'
<1>1. /\ jobs' = <<Latest>> /\ rec' = Idle /\ Latest' = Latest
      /\ UNCHANGED left /\ rec.pc # "idle"
  BY RecoverStays DEF Restart
<1>2. 1 \in 1..Len(jobs) /\ Len(jobs) \in 1..Len(jobs)
  BY DEF TypeOK
<1>3. Latest.restarts = Latest.entries
  BY <1>1, <1>2 DEF ExactInv, Alike, Latest
<1>4. <<Latest>> \in Seq(JobVersion) /\ Len(<<Latest>>) = 1
      /\ <<Latest>>[1] = Latest
  BY VersionTypes
<1>5. Exact(<<Latest>>)
  BY <1>3, <1>4 DEF Exact
<1>6. QED BY <1>1, <1>5 DEF ExactInv, Exact, Idle

\* Every step of the system.
LEMMA StepExact ==
    ASSUME TypeOK, ExactInv, [Next]_vars, ~Lagging
    PROVE  ExactInv'
<1>1. left["timeout"] = 0 /\ left["crash"] = 0
  BY DEF ExactInv
<1>2. ASSUME UNCHANGED left \/ \E k \in Kinds : Spend(k)
      PROVE  left'["timeout"] = 0 /\ left'["crash"] = 0
  BY <1>1, <1>2, SpendLeaves
<1>3. CASE PassStep BY <1>3, PassStepExact
<1>4. CASE HandleJobUpdate BY <1>4, HandlerExact
<1>5. CASE SyncJob \/ SyncPods BY <1>1, <1>5, SameExact DEF SyncJob, SyncPods
<1>6. ~Crash
  BY SpendLeaves DEF Crash, Kinds
<1>7. CASE Restart BY <1>7, RestartExact
<1>8. ASSUME NEW s \in Slots, PodStep(s)
      PROVE  ExactInv'
  <2>1. UNCHANGED <<jobs, rec>>
        /\ (UNCHANGED left \/ \E k \in Kinds : Spend(k))
    BY <1>8 DEF PodStep, SchedulePod, PodGetsReady, PodCompletes, ReapPod,
                PodFails, NodeRejects, EvictPod, Kinds
  <2>2. QED BY <1>2, <2>1, SameExact
<1>9. CASE Scale \/ Reallocate
  <2>1. \E k \in Kinds : Spend(k)
    BY <1>9 DEF Scale, Reallocate, Kinds
  <2>2. QED BY <1>2, <1>9, <2>1, EditsKeepPhase, EditExact
<1>10. CASE UNCHANGED vars BY <1>1, <1>10, SameExact DEF vars
<1>11. QED
  BY <1>3, <1>4, <1>5, <1>6, <1>7, <1>8, <1>9, <1>10 DEF Next, OperatorStep

\* One version shows no change.
LEMMA InitExact ==
    ASSUME Init, Calm
    PROVE  ExactInv
<1>1. jobs = <<InitJob>> /\ rec = Idle /\ Latest = InitJob
  BY DEF Init, Latest
<1>2. InitJob.restarts = 0 /\ InitJob.entries = 0 /\ Idle.pc = "idle"
  BY DEF InitJob, Idle
<1>3. left["timeout"] = 0 /\ left["crash"] = 0
  BY DEF Init, Calm
<1>4. Exact(<<InitJob>>)
  BY <1>2 DEF Exact
<1>5. QED BY <1>1, <1>2, <1>3, <1>4, SpecAssumption DEF ExactInv

\* When passes start from caught-up caches, no write is lost and the operator is
\* not killed, the versions are exact and the restarts within the limit.
THEOREM VersionsExact == Calm => (Spec => []ExactInv)
<1> SUFFICES ASSUME Calm PROVE Spec => []ExactInv
  OBVIOUS
<1>1. ~Lagging
  BY DEF Calm
<1>2. Init => ExactInv
  BY InitExact
<1>3. TypeOK /\ ExactInv /\ [Next]_vars => ExactInv'
  BY <1>1, StepExact
<1>4. QED BY <1>2, <1>3, TypeCorrect, PTL DEF Spec

\* Then status.restarts is the number of restarts whenever the handler has
\* caught up: no restart is missed, and none is counted for another one.
THEOREM RestartsCountedExactly == Calm => (Spec => []RestartsExact)
<1> SUFFICES ASSUME Calm PROVE Spec => []RestartsExact
  OBVIOUS
<1>1. ExactInv => RestartsExact
  BY DEF ExactInv, Exact, RestartsExact, Latest
<1>2. QED BY <1>1, VersionsExact, PTL

\* And the job never restarts more often than spec.backoffLimit says.
THEOREM LimitRespected == Calm => (Spec => []BackoffRespected)
<1> SUFFICES ASSUME Calm PROVE Spec => []BackoffRespected
  OBVIOUS
<1>1. ExactInv => BackoffRespected
  BY DEF ExactInv, BackoffRespected
<1>2. QED BY <1>1, VersionsExact, PTL

-----------------------------------------------------------------------------
(* The refinement.  What the pass means to write is a step of the          *)
(* lifecycle, and it is still one when it is written.                      *)

\* The lifecycle has a step from the phase of a version to a phase.
Leads(v, p) ==
    \/ p = "Starting" /\ v.phase \in {"Pending", "Restarting", "Rescheduling"}
    \/ p = "Running" /\ v.phase = "Starting"
    \/ p \in {"Succeeded", "Rescheduling"} /\ v.phase \in {"Starting", "Running"}
    \/ p = "Pending" /\ v.phase = "Rescheduling"
    \/ /\ p = "Restarting" /\ v.phase \in {"Pending", "Starting", "Running"}
       /\ v.restarts < BackoffLimit
    \/ /\ p = "Failed" /\ v.phase \in {"Pending", "Starting", "Running"}
       /\ v.restarts >= BackoffLimit

\* A pass has no plan before it has listed the pods, only lawful ones then, and
\* undoes creations only where a whole set of pods is created.
LawInv ==
    rec.pc # "idle" =>
        /\ rec.pc = "list" => rec.phase = rec.job.phase /\ ~rec.undo
        /\ rec.phase = rec.job.phase \/ Leads(rec.job, rec.phase)
        /\ rec.undo => rec.job.phase \in {"Pending", "Rescheduling"}

\* A plan is lawful.
PlanLawful ==
    /\ rec'.pc \notin {"idle", "list"}
    /\ rec'.phase \in {rec.phase, rec.job.phase} \/ Leads(rec.job, rec'.phase)
    /\ rec'.undo => rec.undo \/ rec.job.phase \in {"Pending", "Rescheduling"}

\* What the limit decides is lawful where a pod may fail.
LEMMA LimitLeads ==
    ASSUME NEW v \in JobVersion, v.phase \in {"Pending", "Starting", "Running"}
    PROVE  Leads(v, ByBackoffLimit(v))
<1>1. v.restarts \in Nat
  BY DEF JobVersion
<1>2. QED BY <1>1, SpecAssumption DEF Leads, ByBackoffLimit

\* Each handler of a phase plans what the lifecycle allows from that phase.
LEMMA PlansAreLawful ==
    ASSUME TypeOK, ReconcileByPhase
    PROVE  PlanLawful
<1>1. rec \in Pass /\ rec.job \in JobVersion
  BY DEF TypeOK, Pass
<1>2. ASSUME NEW p, Set(p), p = rec.job.phase \/ Leads(rec.job, p)
      PROVE  PlanLawful
  BY <1>1, <1>2 DEF Set, Pass, PlanLawful
<1>3. ASSUME NEW S, NEW b, Delete(S, b)
      PROVE  PlanLawful
  BY <1>1, <1>3 DEF Delete, Pass, PlanLawful
<1>4. ASSUME Panic
      PROVE  PlanLawful
  BY <1>1, <1>4 DEF Panic, Pass, PlanLawful
<1>5. ASSUME rec.job.phase \in {"Starting", "Running"}, CheckPodsCompletion
      PROVE  PlanLawful
  <2>1. Leads(rec.job, "Succeeded") /\ Leads(rec.job, ByBackoffLimit(rec.job))
    BY <1>1, <1>5, LimitLeads DEF Leads
  <2>2. QED BY <1>2, <1>5, <2>1 DEF CheckPodsCompletion
<1>6. ASSUME rec.job.phase \in {"Starting", "Running"}, DetectReschedule
      PROVE  PlanLawful
  <2>1. Leads(rec.job, "Rescheduling")
    BY <1>6 DEF Leads
  <2>2. QED BY <1>2, <1>4, <1>6, <2>1 DEF DetectReschedule
<1>7. ASSUME rec.job.phase \in {"Pending", "Rescheduling"}, NEW p,
             p = rec.job.phase \/ Leads(rec.job, p), BuildAndCreatePods(p)
      PROVE  PlanLawful
  BY <1>1, <1>4, <1>7 DEF BuildAndCreatePods, Pass, PlanLawful
<1>8. ASSUME NEW S, CreateMissedReplicas(S)
      PROVE  PlanLawful
  BY <1>1, <1>8 DEF CreateMissedReplicas, Pass, PlanLawful
<1>9. ASSUME DeleteRedundantReplicas
      PROVE  PlanLawful
  BY <1>3, <1>9 DEF DeleteRedundantReplicas
<1>10. CASE ReconcilePending
  <2>1. rec.job.phase = "Pending" /\ Leads(rec.job, "Starting")
    BY <1>10 DEF ReconcilePending, Leads
  <2>2. QED BY <1>2, <1>3, <1>7, <1>10, <2>1 DEF ReconcilePending
<1>11. CASE ReconcileStarting
  <2>1. rec.job.phase = "Starting" /\ Leads(rec.job, "Running")
    BY <1>11 DEF ReconcileStarting, Leads
  <2>2. QED BY <1>2, <1>5, <1>6, <1>11, <2>1 DEF ReconcileStarting
<1>12. CASE ReconcileRunning
  BY <1>2, <1>5, <1>6, <1>12 DEF ReconcileRunning
<1>13. CASE ReconcileRestarting
  <2>1. Leads(rec.job, "Starting")
    BY <1>13 DEF ReconcileRestarting, Leads
  <2>2. QED BY <1>2, <1>3, <1>8, <1>9, <1>13, <2>1 DEF ReconcileRestarting
<1>14. CASE ReconcileRescheduling
  <2>1. /\ rec.job.phase = "Rescheduling" /\ Leads(rec.job, "Starting")
        /\ Leads(rec.job, "Pending")
    BY <1>14 DEF ReconcileRescheduling, Leads
  <2>2. QED BY <1>2, <1>3, <1>7, <1>8, <1>9, <1>14, <2>1
            DEF ReconcileRescheduling
<1>15. CASE CleanUp
  BY <1>3, <1>15 DEF CleanUp
<1>16. QED
  BY <1>10, <1>11, <1>12, <1>13, <1>14, <1>15 DEF ReconcileByPhase

\* The calls of a pass keep its plan lawful.
LEMMA PassStepLawful ==
    ASSUME TypeOK, LawInv, ~Lagging, PassStep
    PROVE  LawInv'
<1>1. rec \in Pass /\ rec.job \in JobVersion
  BY DEF TypeOK, Pass
<1>2. CASE BeginPass
  BY <1>2, PassReadsLatest DEF LawInv
<1>3. CASE ReconcileByPhase
  <2>1. rec.pc = "list" /\ rec'.job = rec.job
    BY <1>3, ReconcilePlans DEF PlanMade, ListPods
  <2>2. QED BY <1>3, <2>1, PlansAreLawful DEF LawInv, PlanLawful
<1>4. ASSUME Working, rec'.pc # "list", rec'.job = rec.job,
             rec'.undo = rec.undo, rec'.phase = rec.phase
      PROVE  LawInv'
  BY <1>4 DEF LawInv, Working
<1>5. CASE DeletePod
  BY <1>1, <1>4, <1>5 DEF DeletePod, Working, Pass
<1>6. CASE CreatePod
  BY <1>1, <1>4, <1>6 DEF CreatePod, Working, Pass
<1>7. CASE CreateFails
  <2>1. CASE rec.undo /\ rec.job.phase # "Rescheduling"
    <3>1. rec.job.phase = "Pending"
      BY <1>7, <2>1 DEF LawInv, CreateFails, Working
    <3>2. /\ rec'.pc = "work" /\ rec'.job = rec.job
          /\ rec'.phase = ByBackoffLimit(rec.job)
      BY <1>1, <1>7, <2>1 DEF CreateFails, Working, Pass
    <3>3. QED BY <1>1, <3>1, <3>2, LimitLeads DEF LawInv
  <2>2. CASE ~(rec.undo /\ rec.job.phase # "Rescheduling")
    BY <1>1, <1>4, <1>7, <2>2 DEF CreateFails, Working, Pass
  <2>3. QED BY <2>1, <2>2
<1>8. CASE BuildPodPanics
  BY <1>1, <1>4, <1>8 DEF BuildPodPanics, Panic, Working, Pass
<1>9. CASE FinishPass
  BY <1>9 DEF FinishPass, Idle, LawInv
<1>10. QED BY <1>2, <1>3, <1>5, <1>6, <1>7, <1>8, <1>9 DEF PassStep

\* Only a pass plans.
LEMMA StepLawful ==
    ASSUME TypeOK, LawInv, ~Lagging, [Next]_vars
    PROVE  LawInv'
<1>1. CASE PassStep BY <1>1, PassStepLawful
<1>2. CASE Crash \/ Restart
  BY <1>2 DEF Crash, Restart, Recover, Idle, LawInv
<1>3. CASE HandleJobUpdate \/ SyncJob \/ SyncPods \/ Scale \/ Reallocate
  BY <1>3 DEF HandleJobUpdate, SyncJob, SyncPods, Scale, Reallocate, Edit, LawInv
<1>4. ASSUME NEW s \in Slots, PodStep(s)
      PROVE  LawInv'
  BY <1>4 DEF PodStep, SchedulePod, PodGetsReady, PodCompletes, ReapPod,
              PodFails, NodeRejects, EvictPod, LawInv
<1>5. CASE UNCHANGED vars BY <1>5 DEF vars, LawInv
<1>6. QED BY <1>1, <1>2, <1>3, <1>4, <1>5 DEF Next, OperatorStep

\* The write that ends a pass is a step of the lifecycle.
LEMMA FinishFollows ==
    ASSUME TypeOK, ExactInv, LawInv, FinishPass
    PROVE  Lifecycle!Next \/ Latest' = Latest
<1>1. /\ rec.phase \in Phases /\ rec.job \in JobVersion /\ Latest \in JobVersion
      /\ rec.job.restarts \in Nat /\ jobs \in Seq(JobVersion) /\ Len(jobs) >= 1
  BY VersionTypes DEF TypeOK, Pass, JobVersion
<1>2. CASE UNCHANGED jobs
  BY <1>2 DEF Latest
<1>3. CASE /\ rec.phase # rec.job.phase
           /\ jobs' = With(jobs, WithPhase(Latest, rec.phase))
  <2> DEFINE v == WithPhase(Latest, rec.phase)
  <2>1. rec.pc # "idle"
    BY DEF FinishPass, Working
  <2>2. /\ Latest.phase = rec.job.phase /\ Latest.entries = rec.job.restarts
        /\ Latest.entries <= BackoffLimit
    BY <1>1, <2>1 DEF ExactInv, Alike, Latest
  <2>3. /\ v \in JobVersion /\ v.phase = rec.phase
        /\ v.entries = IF rec.phase = "Restarting" THEN Latest.entries + 1
                                                   ELSE Latest.entries
    BY <1>1, <1>3, <2>2, WithPhaseType, WithPhaseFields, WithPhaseEntries
  <2>4. jobs' = With(jobs, v)
    BY <1>3
  <2> HIDE DEF v
  <2>5. Latest' = v
    BY <1>1, <2>3, <2>4, WithType DEF Latest
  <2>6. Leads(rec.job, rec.phase)
    BY <1>3, <2>1 DEF LawInv
  <2>7. rec.job.restarts >= BackoffLimit => Latest.entries = BackoffLimit
    BY <1>1, <2>2, SpecAssumption
  <2>8. Lifecycle!Next
    BY <2>2, <2>3, <2>5, <2>6, <2>7
       DEF Leads, Lifecycle!Next, Lifecycle!Go, Lifecycle!Start, Lifecycle!Run,
           Lifecycle!Succeed, Lifecycle!Reschedule, Lifecycle!Suspend,
           Lifecycle!Restart, Lifecycle!Fail
  <2>9. QED BY <2>8
<1>4. QED BY <1>2, <1>3 DEF FinishPass

\* To whoever watches the job only the end of a pass is a step.
LEMMA OnlyFinishMoves ==
    ASSUME TypeOK, [Next]_vars
    PROVE  FinishPass \/ UNCHANGED Lifecycle!vars
<1>1. ASSUME Latest'.phase = Latest.phase, Latest'.entries = Latest.entries
      PROVE  UNCHANGED Lifecycle!vars
  BY <1>1 DEF Lifecycle!vars
<1>2. ASSUME UNCHANGED jobs
      PROVE  UNCHANGED Lifecycle!vars
  BY <1>1, <1>2 DEF Latest
<1>3. CASE BeginPass \/ SyncJob \/ SyncPods \/ UNCHANGED vars
  BY <1>2, <1>3 DEF BeginPass, SyncJob, SyncPods, vars
<1>4. CASE ReconcileByPhase BY <1>2, <1>4, ReconcilePlans, ListPodsType
<1>5. CASE DeletePod \/ CreatePod \/ CreateFails \/ BuildPodPanics
  BY <1>2, <1>5, WorkIsBounded DEF WorkBounded
<1>6. CASE HandleJobUpdate BY <1>1, <1>6, HandlerKeepsPhase
<1>7. CASE Crash \/ Restart BY <1>1, <1>7, RecoverStays DEF Crash, Restart
<1>8. ASSUME NEW s \in Slots, PodStep(s)
      PROVE  UNCHANGED Lifecycle!vars
  BY <1>2, <1>8 DEF PodStep, SchedulePod, PodGetsReady, PodCompletes, ReapPod,
                    PodFails, NodeRejects, EvictPod
<1>9. CASE Scale \/ Reallocate BY <1>1, <1>9, EditsKeepPhase, EditAppends
<1>10. QED
  BY <1>3, <1>4, <1>5, <1>6, <1>7, <1>8, <1>9
     DEF Next, OperatorStep, PassStep

\* Every step is a step of the lifecycle or none to whoever watches the job.
LEMMA StepFollows ==
    ASSUME TypeOK, ExactInv, LawInv, [Next]_vars
    PROVE  [Lifecycle!Next]_(Lifecycle!vars)
<1>1. CASE FinishPass
  <2>1. Latest' = Latest => UNCHANGED Lifecycle!vars
    BY DEF Lifecycle!vars
  <2>2. QED BY <1>1, <2>1, FinishFollows
<1>2. QED BY <1>1, OnlyFinishMoves

\* The controller implements the lifecycle of the job, whatever fails or is
\* evicted and however the user changes the job meanwhile.
THEOREM ImplementsLifecycle == Calm => (Spec => FollowsLifecycle)
<1> SUFFICES ASSUME Calm PROVE Spec => FollowsLifecycle
  OBVIOUS
<1>1. ~Lagging
  BY DEF Calm
<1>2. Init => LawInv
  BY DEF Init, Idle, LawInv
<1>3. TypeOK /\ LawInv /\ [Next]_vars => LawInv'
  BY <1>1, StepLawful
<1>4. Init => Lifecycle!Init
  BY DEF Init, Latest, InitJob, Lifecycle!Init
<1>5. TypeOK /\ ExactInv /\ LawInv /\ [Next]_vars
        => [Lifecycle!Next]_(Lifecycle!vars)
  BY StepFollows
<1>6. Spec => []ExactInv
  BY VersionsExact
<1>7. QED BY <1>2, <1>3, <1>4, <1>5, <1>6, TypeCorrect, PTL
          DEF Spec, FollowsLifecycle, Lifecycle!Spec

-----------------------------------------------------------------------------
(* What is left of the refinement when writes are lost and the operator    *)
(* crashes: the count may then lag, but the phase does not go astray.      *)

\* The write that ends a pass moves the phase along the lifecycle from where it
\* is, and gives the job up only at its limit.
LEMMA FinishFollowsLossy ==
    ASSUME TypeOK, PhaseInv, LawInv, NoEarlyFailure', TypeOK', FinishPass
    PROVE  Lifecycle!LossyNext \/ Latest' = Latest
<1>1. /\ rec.phase \in Phases /\ Latest \in JobVersion /\ rec.pc # "idle"
      /\ jobs \in Seq(JobVersion) /\ Len(jobs) >= 1
  BY VersionTypes DEF TypeOK, Pass, FinishPass, Working
<1>2. CASE UNCHANGED jobs
  BY <1>2 DEF Latest
<1>3. CASE /\ rec.phase # rec.job.phase
           /\ jobs' = With(jobs, WithPhase(Latest, rec.phase))
  <2> DEFINE v == WithPhase(Latest, rec.phase)
  <2>1. Latest.phase = rec.job.phase /\ Leads(rec.job, rec.phase)
    BY <1>1, <1>3 DEF PhaseInv, LawInv
  <2>2. /\ v \in JobVersion /\ v.phase = rec.phase
        /\ v.entries = IF rec.phase = "Restarting" THEN Latest.entries + 1
                                                   ELSE Latest.entries
    BY <1>1, <1>3, <2>1, WithPhaseType, WithPhaseFields, WithPhaseEntries
  <2>3. jobs' = With(jobs, v)
    BY <1>3
  <2> HIDE DEF v
  <2>4. Latest' = v
    BY <1>1, <2>2, <2>3, WithType DEF Latest
  <2>5. v.phase = "Failed" => v.entries >= BackoffLimit
    <3>1. Len(jobs') \in 1..Len(jobs')
      BY DEF TypeOK
    <3>2. jobs'[Len(jobs')] = v
      BY <2>4 DEF Latest
    <3>3. QED BY <3>1, <3>2 DEF NoEarlyFailure
  <2>6. QED
    BY <2>1, <2>2, <2>4, <2>5
       DEF Leads, Lifecycle!LossyNext, Lifecycle!Go, Lifecycle!Start,
           Lifecycle!Run, Lifecycle!Succeed, Lifecycle!Reschedule,
           Lifecycle!Suspend, Lifecycle!RestartUncounted, Lifecycle!FailLate
<1>4. QED BY <1>2, <1>3 DEF FinishPass

\* Every step is a step of the lossy lifecycle or none.
LEMMA StepFollowsLossy ==
    ASSUME TypeOK, TypeOK', PhaseInv, LawInv, NoEarlyFailure', [Next]_vars
    PROVE  [Lifecycle!LossyNext]_(Lifecycle!vars)
<1>1. CASE FinishPass
  <2>1. Latest' = Latest => UNCHANGED Lifecycle!vars
    BY DEF Lifecycle!vars
  <2>2. QED BY <1>1, <2>1, FinishFollowsLossy
<1>2. QED BY <1>1, OnlyFinishMoves

\* When every pass starts from caught-up caches, the phase moves along the
\* lifecycle and the job is given up only at its limit, whatever writes are
\* lost and whenever the operator crashes.
THEOREM ImplementsLossyLifecycle ==
    ~Lagging => (Spec => FollowsLossyLifecycle)
<1> SUFFICES ASSUME ~Lagging PROVE Spec => FollowsLossyLifecycle
  OBVIOUS
<1>1. Init => PhaseInv /\ LawInv
  BY DEF Init, Idle, PhaseInv, LawInv
<1>2. TypeOK /\ PhaseInv /\ LawInv /\ [Next]_vars => PhaseInv' /\ LawInv'
  BY StepStays, StepLawful DEF PhaseStays
<1>3. Init => Lifecycle!Init
  BY DEF Init, Latest, InitJob, Lifecycle!Init
<1>4. TypeOK /\ TypeOK' /\ PhaseInv /\ LawInv /\ NoEarlyFailure' /\ [Next]_vars
        => [Lifecycle!LossyNext]_(Lifecycle!vars)
  BY StepFollowsLossy
<1>5. Spec => []NoEarlyFailure
  BY FailuresAreLate
<1>6. QED BY <1>1, <1>2, <1>3, <1>4, <1>5, TypeCorrect, PTL
          DEF Spec, FollowsLossyLifecycle, Lifecycle!LossySpec

-----------------------------------------------------------------------------
(* The count the job shows.  The handler overwrites the counter of a later *)
(* version with one made from the version it was given; that takes nothing *)
(* back, because nothing was counted in between.                           *)

\* The versions are those before and those after one change of the phase, and
\* while the handler has not seen the change they all show the same count.
OneChange(versions) ==
    LET first == versions[1]
        last == versions[Len(versions)]
    IN  /\ \A i \in 1..Len(versions) :
              versions[i].phase \in {first.phase, last.phase}
        /\ \A i, j \in 1..Len(versions) :
              i <= j /\ versions[i].phase = last.phase
                => versions[j].phase = last.phase
        /\ first.phase # last.phase =>
              \A i \in 1..Len(versions) : versions[i].restarts = last.restarts

\* The versions have the phase and the count the pass has read.
Agree(versions, v) ==
    \A i \in 1..Len(versions) : /\ versions[i].phase = v.phase
                                /\ versions[i].restarts = v.restarts

ShownInv ==
    /\ OneChange(jobs)
    /\ rec.pc # "idle" => Agree(jobs, rec.job)

\* The counter stays or grows, and the versions stay in order.
ShownGrows == ShownInv' /\ Latest.restarts <= Latest'.restarts

\* Versions of one phase show no change.
LEMMA OnePhase ==
    ASSUME NEW versions \in Seq(JobVersion), Len(versions) >= 1, NEW p,
           \A i \in 1..Len(versions) : versions[i].phase = p
    PROVE  OneChange(versions)
<1>1. 1 \in 1..Len(versions) /\ Len(versions) \in 1..Len(versions)
  OBVIOUS
<1>2. QED BY <1>1 DEF OneChange

\* A version that shows the count of the last one, and a phase that is the
\* phase of the last one or comes after all the others agreed.
LEMMA AppendOneChange ==
    ASSUME NEW versions \in Seq(JobVersion), Len(versions) >= 1,
           OneChange(versions), NEW v \in JobVersion,
           v.restarts = versions[Len(versions)].restarts,
           \/ v.phase = versions[Len(versions)].phase
           \/ \E u \in JobVersion : Agree(versions, u) /\ v.phase # u.phase
    PROVE  OneChange(Append(versions, v))
<1> DEFINE w == Append(versions, v)
           n == Len(versions)
<1>1. /\ w \in Seq(JobVersion) /\ n \in Nat /\ n >= 1 /\ Len(w) = n + 1
      /\ w[n + 1] = v /\ \A i \in 1..n : w[i] = versions[i]
  BY AppendProperties
<1> HIDE DEF w
<1>2. /\ w[1] = versions[1] /\ w[Len(w)] = v /\ 1 \in 1..n /\ n \in 1..n
      /\ \A i \in 1..Len(w) : i \in 1..n \/ i = n + 1
  BY <1>1
<1>3. CASE v.phase = versions[n].phase
  <2>1. \A i \in 1..Len(w) :
            /\ w[i].phase \in {w[1].phase, v.phase}
            /\ w[1].phase # v.phase => w[i].restarts = v.restarts
    BY <1>1, <1>2, <1>3 DEF OneChange
  <2>2. \A i, j \in 1..Len(w) :
            i <= j /\ w[i].phase = v.phase => w[j].phase = v.phase
    BY <1>1, <1>2, <1>3 DEF OneChange
  <2>3. QED BY <1>2, <2>1, <2>2 DEF OneChange, w
<1>4. ASSUME NEW u \in JobVersion, Agree(versions, u), v.phase # u.phase
      PROVE  OneChange(w)
  <2>1. \A i \in 1..n : w[i].phase = u.phase /\ w[i].restarts = v.restarts
    BY <1>1, <1>2, <1>4 DEF Agree
  <2>2. \A i \in 1..Len(w) : /\ w[i].phase \in {w[1].phase, v.phase}
                             /\ w[i].restarts = v.restarts
    BY <1>1, <1>2, <2>1
  <2>3. \A i, j \in 1..Len(w) :
            i <= j /\ w[i].phase = v.phase => w[j].phase = v.phase
    BY <1>1, <1>2, <1>4, <2>1
  <2>4. QED BY <1>2, <2>2, <2>3 DEF OneChange
<1>5. QED BY <1>3, <1>4 DEF w

\* Without its first one the versions are still in order, and when the phase
\* changed there they now have one phase and showed one count.
LEMMA TailOneChange ==
    ASSUME NEW versions \in Seq(JobVersion), Len(versions) >= 2,
           OneChange(versions)
    PROVE  /\ versions[1].phase = versions[2].phase
                => OneChange(Tail(versions))
           /\ versions[1].phase # versions[2].phase
                => /\ \A i \in 1..Len(Tail(versions)) :
                         Tail(versions)[i].phase = versions[Len(versions)].phase
                   /\ versions[2].restarts = versions[Len(versions)].restarts
<1> DEFINE t == Tail(versions)
           n == Len(versions)
<1>1. /\ t \in Seq(JobVersion) /\ n \in Nat /\ n >= 2 /\ Len(t) = n - 1
      /\ \A i \in 1..(n - 1) : t[i] = versions[i + 1]
  BY HeadTailProperties
<1> HIDE DEF t
<1>2. /\ t[1] = versions[2] /\ t[Len(t)] = versions[n]
      /\ 2 \in 1..n /\ n \in 1..n
      /\ \A i \in 1..Len(t) : i + 1 \in 2..n /\ i + 1 \in 1..n
                              /\ t[i] = versions[i + 1]
  BY <1>1
<1>3. CASE versions[1].phase = versions[2].phase
  <2>1. \A i \in 1..Len(t) :
            /\ t[i].phase \in {t[1].phase, versions[n].phase}
            /\ t[1].phase # versions[n].phase
                 => t[i].restarts = versions[n].restarts
    BY <1>2, <1>3 DEF OneChange
  <2>2. ASSUME NEW i \in 1..Len(t), NEW j \in 1..Len(t), i <= j,
               t[i].phase = versions[n].phase
        PROVE  t[j].phase = versions[n].phase
    <3>1. i + 1 <= j + 1 /\ i + 1 \in 1..n /\ j + 1 \in 1..n
      BY <1>2, <2>2
    <3>2. QED BY <1>2, <2>2, <3>1 DEF OneChange
  <2>3. OneChange(t)
    BY <1>2, <2>1, <2>2 DEF OneChange
  <2>4. QED BY <1>3, <2>3 DEF t
<1>4. CASE versions[1].phase # versions[2].phase
  <2>1. versions[2].phase = versions[n].phase
    BY <1>2, <1>4 DEF OneChange
  <2>2. \A i \in 2..n : i \in 1..n /\ 2 <= i
    BY <1>1
  <2>3. \A i \in 2..n : versions[i].phase = versions[n].phase
    BY <1>2, <2>1, <2>2 DEF OneChange
  <2>4. versions[2].restarts = versions[n].restarts
    BY <1>2, <1>4, <2>1 DEF OneChange
  <2>5. QED BY <1>2, <1>4, <2>3, <2>4 DEF t
<1>5. QED BY <1>3, <1>4

\* The count is a number.
LEMMA RestartsNat ==
    ASSUME NEW v \in JobVersion
    PROVE  v.restarts \in Nat
BY DEF JobVersion

\* What the handler writes is the count the versions show, or one more.
LEMMA HandlerShows ==
    ASSUME TypeOK, ShownInv, HandleJobUpdate
    PROVE  ShownGrows
<1> DEFINE counted == [Latest EXCEPT !.restarts =
                                CountedRestarts(jobs[1], jobs[2])]
           t == Tail(jobs)
<1>1. /\ jobs \in Seq(JobVersion) /\ Len(jobs) \in Nat /\ Len(jobs) >= 2
      /\ Latest \in JobVersion /\ Latest.restarts \in Nat
      /\ t \in Seq(JobVersion) /\ Len(t) = Len(jobs) - 1 /\ Len(t) >= 1
      /\ t[Len(t)] = Latest
      /\ \A i \in 1..Len(t) : i + 1 \in 1..Len(jobs) /\ t[i] = jobs[i + 1]
  BY VersionTypes, RestartsNat, HeadTailProperties
     DEF TypeOK, HandleJobUpdate, Latest
<1>2. rec' = rec /\ OneChange(jobs)
  BY DEF HandleJobUpdate, ShownInv
<1>3. ASSUME OneChange(jobs'), rec.pc # "idle" => Agree(jobs', rec.job),
             Latest.restarts <= Latest'.restarts
      PROVE  ShownGrows
  BY <1>2, <1>3 DEF ShownGrows, ShownInv, OneChange, Agree
<1>4. ASSUME jobs' = t
      PROVE  /\ Latest' = Latest
             /\ rec.pc # "idle" => Agree(jobs', rec.job)
  BY <1>1, <1>4 DEF Latest, ShownInv, Agree
<1>5. CASE jobs[1].phase = jobs[2].phase
  <2>1. jobs' = t
    BY <1>5 DEF HandleJobUpdate, CountsRestart, CountsReschedule
  <2>2. OneChange(t)
    BY <1>1, <1>2, <1>5, TailOneChange
  <2>3. QED BY <1>1, <1>3, <1>4, <2>1, <2>2
<1>6. CASE jobs[1].phase # jobs[2].phase
  <2>1. /\ \A i \in 1..Len(t) : t[i].phase = Latest.phase
        /\ jobs[2].restarts = Latest.restarts
    BY <1>1, <1>2, <1>6, TailOneChange DEF Latest
  <2>2. rec.pc = "idle"
    <3>1. 1 \in 1..Len(jobs) /\ 2 \in 1..Len(jobs)
      BY <1>1
    <3>2. QED BY <1>6, <3>1 DEF ShownInv, Agree
  <2>3. CountedRestarts(jobs[1], jobs[2])
            \in {Latest.restarts, Latest.restarts + 1}
    BY <1>1, <2>1 DEF CountedRestarts
  <2>4. /\ counted \in JobVersion /\ counted.phase = Latest.phase
        /\ Latest.restarts <= counted.restarts
    <3>1. CountedRestarts(jobs[1], jobs[2]) \in Nat
      BY <1>1, <2>3
    <3>2. counted.restarts = CountedRestarts(jobs[1], jobs[2])
          /\ counted.phase = Latest.phase /\ counted \in JobVersion
      BY <1>1, <3>1 DEF JobVersion
    <3>3. QED BY <1>1, <2>3, <3>2
  <2>5. jobs' = t \/ jobs' = With(t, counted)
    BY DEF HandleJobUpdate
  <2> HIDE DEF counted, t
  <2>6. CASE jobs' = t
    <3>1. OneChange(t)
      BY <1>1, <2>1, OnePhase
    <3>2. QED BY <1>1, <1>3, <1>4, <2>6, <3>1
  <2>7. CASE jobs' = With(t, counted)
    <3> DEFINE w == With(t, counted)
    <3>1. Len(t) \in Nat /\ Len(t) >= 1
      BY <1>1
    <3>2. /\ w \in Seq(JobVersion) /\ Len(w) \in {Len(t), Len(t) + 1}
          /\ w[Len(w)] = counted /\ \A i \in 1..Len(t) : w[i] = t[i]
      BY <1>1, <2>4, <3>1, WithType
    <3> HIDE DEF w
    <3>3. \A i \in 1..Len(w) : w[i].phase = Latest.phase
      <4>1. \A i \in 1..Len(w) : i \in 1..Len(t) \/ i = Len(w)
        BY <3>1, <3>2
      <4>2. QED BY <2>1, <2>4, <3>2, <4>1
    <3>4. OneChange(w)
      BY <3>1, <3>2, <3>3, OnePhase
    <3>5. jobs' = w
      BY <2>7 DEF w
    <3>6. Latest' = counted
      BY <3>2, <3>5 DEF Latest
    <3>7. QED BY <1>3, <2>2, <2>4, <3>4, <3>5, <3>6
  <2>8. QED BY <2>5, <2>6, <2>7
<1>7. QED BY <1>5, <1>6

\* A step that leaves the versions alone, in a pass that goes on or ends.
LEMMA SameShown ==
    ASSUME TypeOK, ShownInv, UNCHANGED jobs,
           rec'.pc # "idle" => rec.pc # "idle" /\ rec'.job = rec.job
    PROVE  ShownGrows
<1>1. Latest' = Latest /\ Latest.restarts \in Nat
  BY VersionTypes DEF Latest, JobVersion
<1>2. OneChange(jobs') /\ (rec'.pc # "idle" => Agree(jobs', rec'.job))
  BY DEF ShownInv
<1>3. QED BY <1>1, <1>2 DEF ShownGrows, ShownInv, OneChange, Agree

\* The version a step appends keeps the versions in order.
LEMMA AppendShown ==
    ASSUME TypeOK, ShownInv, NEW v \in JobVersion, jobs' = Append(jobs, v),
           v.restarts = Latest.restarts,
           v.phase = Latest.phase \/ (rec.pc # "idle" /\ v.phase # rec.job.phase),
           rec'.pc # "idle" => rec' = rec /\ v.phase = Latest.phase
    PROVE  ShownGrows
<1>1. /\ jobs \in Seq(JobVersion) /\ Len(jobs) \in Nat /\ Len(jobs) >= 1
      /\ Latest = jobs[Len(jobs)] /\ Latest.restarts \in Nat
      /\ rec.job \in JobVersion
  BY VersionTypes, RestartsNat DEF TypeOK, Latest, Pass
<1>2. OneChange(Append(jobs, v))
  BY <1>1, AppendOneChange DEF ShownInv
<1>3. Latest' = v
  BY <1>1 DEF Latest
<1>4. ASSUME rec'.pc # "idle"
      PROVE  Agree(Append(jobs, v), rec'.job)
  <2>1. Agree(jobs, rec.job) /\ rec' = rec /\ v.phase = Latest.phase
    BY <1>4 DEF ShownInv
  <2>2. v.phase = rec.job.phase /\ v.restarts = rec.job.restarts
    BY <1>1, <2>1 DEF Agree
  <2>3. \A i \in 1..Len(Append(jobs, v)) :
            \/ i \in 1..Len(jobs) /\ Append(jobs, v)[i] = jobs[i]
            \/ Append(jobs, v)[i] = v
    BY <1>1
  <2>4. QED BY <2>1, <2>2, <2>3 DEF Agree
<1>5. QED BY <1>1, <1>2, <1>3, <1>4 DEF ShownGrows, ShownInv, OneChange, Agree

\* The pass counts nothing: it writes the phase over the version it has read.
LEMMA PassStepShown ==
    ASSUME TypeOK, ShownInv, ~Lagging, PassStep
    PROVE  ShownGrows
<1>1. /\ rec \in Pass /\ rec.phase \in Phases /\ rec.job \in JobVersion
      /\ Latest \in JobVersion /\ jobs \in Seq(JobVersion) /\ Len(jobs) >= 1
      /\ Latest.restarts \in Nat
  BY VersionTypes DEF TypeOK, Pass, JobVersion
<1>2. CASE BeginPass
  <2>1. /\ Len(jobs) = 1 /\ UNCHANGED jobs /\ rec'.job = jobs[1]
    BY <1>2, PassReadsLatest
  <2>2. \A i \in 1..Len(jobs) : jobs[i] = jobs[1]
    BY <2>1
  <2>3. OneChange(jobs') /\ Agree(jobs', rec'.job)
    BY <2>1, <2>2 DEF ShownInv, Agree
  <2>4. Latest' = Latest
    BY <2>1 DEF Latest
  <2>5. QED BY <1>1, <2>3, <2>4 DEF ShownGrows, ShownInv, OneChange, Agree
<1>3. CASE ReconcileByPhase
  <2>1. UNCHANGED jobs /\ rec'.job = rec.job /\ rec.pc # "idle"
    BY <1>3, ReconcilePlans, ListPodsType DEF PlanMade, ListPods
  <2>2. QED BY <2>1, SameShown
<1>4. CASE DeletePod \/ CreatePod \/ CreateFails \/ BuildPodPanics
  <2>1. rec.pc # "idle"
    BY <1>4 DEF DeletePod, CreatePod, CreateFails, BuildPodPanics, Working
  <2>2. QED BY <1>4, <2>1, WorkIsBounded, SameShown DEF WorkBounded
<1>5. CASE FinishPass
  <2>1. rec'.pc = "idle" /\ rec.pc # "idle"
    BY <1>5 DEF FinishPass, Idle, Working
  <2>2. CASE UNCHANGED jobs
    BY <2>1, <2>2, SameShown
  <2>3. CASE /\ rec.phase # rec.job.phase
             /\ jobs' = With(jobs, WithPhase(Latest, rec.phase))
    <3> DEFINE v == WithPhase(Latest, rec.phase)
    <3>1. Latest.phase = rec.job.phase
      BY <1>1, <2>1 DEF ShownInv, Agree, Latest
    <3>2. /\ v \in JobVersion /\ v.phase = rec.phase /\ v # Latest
          /\ v.restarts = Latest.restarts
      BY <1>1, <2>3, <3>1, WithPhaseType, WithPhaseFields, WithPhaseEntries
    <3>3. jobs' = With(jobs, v)
      BY <2>3
    <3> HIDE DEF v
    <3>4. jobs' = Append(jobs, v)
      BY <3>2, <3>3 DEF With, Latest
    <3>5. QED BY <2>1, <2>3, <3>2, <3>4, AppendShown
  <2>4. QED BY <1>5, <2>2, <2>3 DEF FinishPass
<1>6. QED BY <1>2, <1>3, <1>4, <1>5 DEF PassStep

\* Every step of the system.
LEMMA StepShown ==
    ASSUME TypeOK, ShownInv, ~Lagging, [Next]_vars
    PROVE  ShownGrows
<1>1. CASE PassStep BY <1>1, PassStepShown
<1>2. CASE HandleJobUpdate BY <1>2, HandlerShows
<1>3. ASSUME UNCHANGED <<jobs, rec>>
      PROVE  ShownGrows
  BY <1>3, SameShown
<1>4. CASE SyncJob \/ SyncPods BY <1>3, <1>4 DEF SyncJob, SyncPods
<1>5. CASE Crash \/ Restart
  <2>1. /\ jobs' = <<Latest>> /\ rec' = Idle /\ Latest' = Latest
    BY <1>5, RecoverStays DEF Crash, Restart
  <2>2. Latest \in JobVersion /\ Latest.restarts \in Nat
    BY VersionTypes DEF JobVersion
  <2>3. /\ <<Latest>> \in Seq(JobVersion) /\ Len(<<Latest>>) = 1
        /\ \A i \in 1..Len(<<Latest>>) : <<Latest>>[i].phase = Latest.phase
    BY <2>2
  <2> DEFINE w == <<Latest>>
  <2> HIDE DEF w
  <2>4. OneChange(w)
    <3>1. w \in Seq(JobVersion) /\ Len(w) >= 1
          /\ \A i \in 1..Len(w) : w[i].phase = Latest.phase
      BY <2>3 DEF w
    <3>2. QED BY <3>1, OnePhase
  <2>5. QED BY <2>1, <2>2, <2>4
            DEF w, ShownGrows, ShownInv, OneChange, Agree, Idle
<1>6. ASSUME NEW s \in Slots, PodStep(s)
      PROVE  ShownGrows
  BY <1>3, <1>6 DEF PodStep, SchedulePod, PodGetsReady, PodCompletes, ReapPod,
                    PodFails, NodeRejects, EvictPod
<1>7. CASE Scale \/ Reallocate
  <2>1. PICK v \in JobVersion : /\ Edit(v) /\ v.phase = Latest.phase
                                /\ v.restarts = Latest.restarts
    BY <1>7, EditsKeepPhase
  <2>2. jobs' = Append(jobs, v) /\ rec' = rec
    BY <2>1 DEF Edit
  <2>3. QED BY <2>1, <2>2, AppendShown
<1>8. CASE UNCHANGED vars BY <1>3, <1>8 DEF vars
<1>9. QED
  BY <1>1, <1>2, <1>4, <1>5, <1>6, <1>7, <1>8 DEF Next, OperatorStep

\* The first version shows nothing yet.
LEMMA InitShown ==
    ASSUME Init
    PROVE  ShownInv
<1>1. InitJob \in JobVersion /\ jobs = <<InitJob>> /\ rec.pc = "idle"
  BY InitType, ElementOfSeq DEF Init, TypeOK, Idle
<1>2. /\ jobs \in Seq(JobVersion) /\ Len(jobs) = 1 /\ Len(jobs) >= 1
      /\ \A i \in 1..Len(jobs) : jobs[i].phase = InitJob.phase
  BY <1>1
<1>3. QED BY <1>1, <1>2, OnePhase DEF ShownInv

\* With passes that start from caught-up caches, the count that the job shows
\* never goes down, though writes are lost and the operator crashes.
THEOREM CountNeverFalls == ~Lagging => (Spec => RestartsNeverFall)
<1> SUFFICES ASSUME ~Lagging PROVE Spec => RestartsNeverFall
  OBVIOUS
<1>1. TypeOK /\ ShownInv /\ [Next]_vars => ShownInv'
  BY StepShown DEF ShownGrows
<1>2. TypeOK /\ ShownInv /\ [Next]_vars
        => [Latest.restarts <= Latest'.restarts]_vars
  BY StepShown DEF ShownGrows
<1>3. QED BY InitShown, <1>1, <1>2, TypeCorrect, PTL DEF Spec, RestartsNeverFall
=============================================================================
