--------------------------- MODULE JobStatusProofs ---------------------------
(***************************************************************************)
(* Theorems about JobStatus: every status it handles is well typed, and    *)
(* its conditions follow its phase, for every backoff limit, number of     *)
(* replicas, backlog and budget.                                           *)
(***************************************************************************)
EXTENDS JobStatus, SequenceTheorems, TLAPS

\* The statuses in which the condition of the phase is true and no other is.
Coherent == {v \in Job : v.true = {v.phase} \ {""}}

CoherentWork(pcs) == [pc : pcs, old : Coherent, new : Coherent]

\* TypeOK, with the statuses restricted to coherent ones: those in the cache,
\* in the hands of a pass and in those of a handler too, as any may be written.
StatusInv ==
    /\ api \in Coherent
    /\ log \in Seq(Coherent) /\ Len(log) >= 1 /\ seen \in 1..Len(log)
    /\ pass \in CoherentWork({"idle", "read", "phase", "numbers", "reject"})
    /\ handler \in CoherentWork({"idle", "added", "pending", "counts", "numbers"})
    /\ entered \in [Counted -> Nat]
    /\ left \in [{"timeout", "edit", "crash"} -> Nat]

-----------------------------------------------------------------------------
(* The operators on statuses.                                               *)

\* The status of a job nobody has written to is coherent.
LEMMA NewJobCoherent == \A s \in Specs : NewJob(s) \in Coherent
<1>. SUFFICES ASSUME NEW s \in Specs PROVE NewJob(s) \in Coherent
  OBVIOUS
<1>1. 0 \in 0..MaxReady
  BY BoundsAssumption
<1>2. [p \in Counted |-> 0] \in [Counted -> Nat]
  OBVIOUS
<1>3. NewJob(s) \in Job
  BY <1>1, <1>2 DEF NewJob, Job, Phases
<1>. QED  BY <1>3 DEF NewJob, Coherent

\* UpdateJobStatus leaves the condition of the phase it sets as the only one.
LEMMA UpdateKeepsCoherent ==
    ASSUME NEW v \in Coherent, NEW p \in Phases, p = "" => v.phase = ""
    PROVE  UpdateJobStatus(v, p) \in Coherent
<1>1. CASE v.phase = p
  BY <1>1 DEF UpdateJobStatus
<1>2. CASE v.phase # p
  <2>1. /\ v \in Job /\ v.true = {v.phase} \ {""}
        /\ p # ""
    BY <1>2 DEF Coherent
  <2>2. UpdateJobStatus(v, p) = [v EXCEPT !.phase = p, !.true = {p}]
    BY <1>2, <2>1 DEF UpdateJobStatus, Job
  <2>3. [v EXCEPT !.phase = p, !.true = {p}] \in Job
    BY <2>1 DEF Job
  <2>. QED  BY <2>1, <2>2, <2>3 DEF Coherent, Job
<1>. QED  BY <1>1, <1>2

\* The handlers of the update events touch neither the phase nor a condition.
LEMMA HandleKeepsCoherent ==
    ASSUME NEW old \in Coherent, NEW new \in Coherent
    PROVE  HandleJobStatus(old, new) \in Coherent
<1>1. CASE Counts(old, new)
  <2>1. new \in Job /\ new.phase \in Counted
    BY <1>1 DEF Counts, Coherent
  <2>2. [new EXCEPT !.count[new.phase] = @ + 1] \in Job
    BY <2>1 DEF Job
  <2>. QED  BY <1>1, <2>1, <2>2 DEF HandleJobStatus, Coherent, Job
<1>2. CASE ~Counts(old, new) /\ Completes(old, new)
  <2>1. 0 \in 0..MaxReady
    BY BoundsAssumption
  <2>2. HandleJobStatus(old, new) = [new EXCEPT !.completed = TRUE, !.ready = 0]
    BY <1>2 DEF HandleJobStatus
  <2>. QED  BY <2>1, <2>2 DEF Coherent, Job
<1>3. CASE ~Counts(old, new) /\ ~Completes(old, new)
  BY <1>3 DEF HandleJobStatus
<1>. QED  BY <1>1, <1>2, <1>3

\* Whichever group of fields is written over the cached object, the result is
\* coherent: the phase and the conditions are one group.
LEMMA GroupsKeepCoherent ==
    ASSUME StatusInv, NEW v \in Coherent
    PROVE  /\ Cached \in Coherent
           /\ WithPhase(v) \in Coherent
           /\ WithCounts(v) \in Coherent
           /\ WithNumbers(v) \in Coherent
<1>1. Cached \in Coherent
  BY DEF StatusInv, Cached
<1>2. WithPhase(v) \in Coherent
  BY <1>1 DEF WithPhase, Coherent, Job
<1>3. WithCounts(v) \in Coherent
  BY <1>1 DEF WithCounts, Coherent, Job
<1>4. WithNumbers(v) \in Coherent
  BY <1>1 DEF WithNumbers, Coherent, Job
<1>. QED  BY <1>1, <1>2, <1>3, <1>4

\* A write, whether it is needed, accepted or given up, leaves coherent objects
\* and moves none of those in the log.
LEMMA WriteKeepsCoherent ==
    ASSUME StatusInv, NEW v \in Coherent, NEW same \in BOOLEAN,
           UpdateInCluster(same, v)
    PROVE  /\ api' \in Coherent
           /\ log' \in Seq(Coherent) /\ Len(log') >= Len(log)
           /\ left' \in [{"timeout", "edit", "crash"} -> Nat]
<1>1. CASE UNCHANGED <<api, log, left>>
  BY <1>1 DEF StatusInv
<1>2. CASE Accept(v) /\ UNCHANGED left
  <2>1. api' \in Coherent /\ left' \in [{"timeout", "edit", "crash"} -> Nat]
    BY <1>2 DEF Accept, StatusInv
  <2>2. log \in Seq(Coherent)
    BY DEF StatusInv
  <2>3. log' = log \/ log' = Append(log, v)
    BY <1>2 DEF Accept
  <2>. QED  BY <2>1, <2>2, <2>3
<1>3. CASE Spend("timeout") /\ UNCHANGED <<api, log>>
  BY <1>3 DEF Spend, StatusInv
<1>. QED  BY <1>1, <1>2, <1>3 DEF UpdateInCluster

\* Naming the tasks, in the copy of the pass and in the API server, changes
\* neither the phase nor a condition.
LEMMA NamingKeepsCoherent ==
    ASSUME StatusInv
    PROVE  /\ Named(pass.old) \in Coherent
           /\ SetDefaultJobNameInCluster =>
                /\ api' \in Coherent
                /\ log' \in Seq(Coherent) /\ Len(log') >= Len(log)
                /\ left' \in [{"timeout", "edit", "crash"} -> Nat]
<1>. USE DEF StatusInv
<1>1. pass.old \in Coherent
  BY DEF CoherentWork
<1>2. Named(pass.old) \in Coherent
  BY <1>1 DEF Named, Coherent, Job, Specs
<1>3. [api EXCEPT !.spec = "named"] \in Coherent
  BY DEF Coherent, Job, Specs
<1>4. ASSUME SetDefaultJobNameInCluster
      PROVE  /\ api' \in Coherent
             /\ log' \in Seq(Coherent) /\ Len(log') >= Len(log)
             /\ left' \in [{"timeout", "edit", "crash"} -> Nat]
  <2>1. CASE UNCHANGED <<api, log, left>>
    BY <2>1
  <2>2. CASE Spend("timeout") /\ UNCHANGED <<api, log>>
    BY <2>2 DEF Spend
  <2>3. CASE /\ api' = [api EXCEPT !.spec = "named"]
             /\ log' = Append(log, api') /\ UNCHANGED left
    BY <1>3, <2>3
  <2>. QED  BY <1>4, <2>1, <2>2, <2>3 DEF SetDefaultJobNameInCluster
<1>. QED  BY <1>2, <1>4

\* The phases a pass chooses from are those of a job that has one.
LEMMA NextPhasesTyped ==
    ASSUME NEW v \in Coherent
    PROVE  NextPhases(v) \subseteq Phases \ {""}
BY DEF NextPhases, ByBackoffLimit, Phases

-----------------------------------------------------------------------------
(* The invariant, action by action.                                         *)

\* A new job, and the handler about to be told of it, satisfy the invariant.
LEMMA InitCoherent == Init => StatusInv
<1>. SUFFICES ASSUME Init PROVE StatusInv
  OBVIOUS
<1>1. api \in Coherent
  BY NewJobCoherent, BoundsAssumption DEF Init
<1>2. <<api>> \in Seq(Coherent) /\ Len(<<api>>) = 1
  BY <1>1
<1>3. NewJob("named") \in Coherent
  BY NewJobCoherent DEF Specs
<1>. QED
  BY <1>1, <1>2, <1>3, BoundsAssumption
  DEF Init, StatusInv, CoherentWork, NoWork, Counted

\* The steps of a pass preserve the invariant.
LEMMA PassKeepsInv ==
    ASSUME StatusInv, PassStep
    PROVE  StatusInv'
<1>. USE DEF StatusInv, CoherentWork
<1>0. Cached \in Coherent /\ NoWork \in CoherentWork({"idle"})
  BY NewJobCoherent, GroupsKeepCoherent DEF NoWork, Specs
<1>1. CASE ReadJob
  <2>1. pass' = [pc |-> "read", old |-> Cached, new |-> NewJob("named")]
    BY <1>1 DEF ReadJob, NoWork
  <2>. QED  BY <1>0, <1>1, <2>1, NewJobCoherent DEF ReadJob, Specs
<1>2. CASE Decide
  <2>. DEFINE job == Named(pass.old)
              next(pc, new) == pass' = [pc |-> pc, old |-> job, new |-> new]
  <2>0. UNCHANGED <<seen, handler, entered>>
    BY <1>2 DEF Decide
  <2>1. job \in Coherent
    BY NamingKeepsCoherent
  <2>2. /\ api' \in Coherent
        /\ log' \in Seq(Coherent) /\ Len(log') >= Len(log)
        /\ left' \in [{"timeout", "edit", "crash"} -> Nat]
    BY <1>2, NamingKeepsCoherent DEF Decide
  <2>3. ASSUME next("reject", UpdateJobStatus(job, "Failed"))
        PROVE  StatusInv'
    <3>1. UpdateJobStatus(job, "Failed") \in Coherent
      BY <2>1, UpdateKeepsCoherent DEF Phases
    <3>. QED  BY <2>0, <2>1, <2>2, <2>3, <3>1
  <2>4. ASSUME NEW p \in {job.phase} \cup NextPhases(job),
               NEW ready \in 0..MaxReady, NEW tasks \in BOOLEAN,
               next("phase", [UpdateJobStatus(job, p) EXCEPT
                                !.sized = TRUE, !.ready = ready, !.tasks = tasks])
        PROVE  StatusInv'
    <3>1. UpdateJobStatus(job, p) \in Coherent
      BY <2>1, UpdateKeepsCoherent, NextPhasesTyped DEF Coherent, Job
    <3>2. [UpdateJobStatus(job, p) EXCEPT
             !.sized = TRUE, !.ready = ready, !.tasks = tasks] \in Coherent
      BY <3>1 DEF Coherent, Job
    <3>. QED  BY <2>0, <2>1, <2>2, <2>4, <3>2
  <2>5. ASSUME next("numbers", Cleared(job))
        PROVE  StatusInv'
    <3>1. Cleared(job) \in Coherent
      <4>1. 0 \in 0..MaxReady
        BY BoundsAssumption
      <4>. QED  BY <2>1, <4>1 DEF Cleared, Coherent, Job
    <3>. QED  BY <2>0, <2>1, <2>2, <2>5, <3>1
  <2>. QED  BY <1>2, <2>3, <2>4, <2>5 DEF Decide
<1>3. CASE PassWritesPhase
  <2>1. WithPhase(pass.new) \in Coherent
    BY GroupsKeepCoherent
  <2>2. /\ api' \in Coherent
        /\ log' \in Seq(Coherent) /\ Len(log') >= Len(log)
        /\ left' \in [{"timeout", "edit", "crash"} -> Nat]
    BY <1>3, <2>1, WriteKeepsCoherent DEF PassWritesPhase, SamePhase
  <2>3. entered' \in [Counted -> Nat]
    BY <1>3 DEF PassWritesPhase
  <2>4. pass' \in CoherentWork({"idle", "read", "phase", "numbers", "reject"})
    BY <1>0, <1>3 DEF PassWritesPhase
  <2>. QED  BY <1>3, <2>2, <2>3, <2>4 DEF PassWritesPhase
<1>4. CASE PassWritesNumbers
  <2>1. WithNumbers(pass.new) \in Coherent
    BY GroupsKeepCoherent
  <2>2. /\ api' \in Coherent
        /\ log' \in Seq(Coherent) /\ Len(log') >= Len(log)
        /\ left' \in [{"timeout", "edit", "crash"} -> Nat]
    BY <1>4, <2>1, WriteKeepsCoherent DEF PassWritesNumbers, SameNumbers
  <2>. QED  BY <1>0, <1>4, <2>2 DEF PassWritesNumbers
<1>5. CASE NamingIsRefused
  <2>1. Named(pass.old) \in Coherent
    BY NamingKeepsCoherent
  <2>. QED  BY <1>5, <2>1 DEF NamingIsRefused
<1>. QED  BY <1>1, <1>2, <1>3, <1>4, <1>5 DEF PassStep

\* The steps of the handlers preserve the invariant, although they change the
\* objects of the log in place.
LEMMA HandlerKeepsInv ==
    ASSUME StatusInv, HandlerStep
    PROVE  StatusInv'
<1>. USE DEF StatusInv, CoherentWork
<1>0. /\ NoWork \in CoherentWork({"idle"})
      /\ log[1] \in Coherent
  BY NewJobCoherent DEF NoWork, Specs
<1>1. CASE HandleJobAdd
  <2>1. CASE log[1].phase = ""
    <3>. DEFINE job == UpdateJobStatus(log[1], "Pending")
    <3>1. job \in Coherent
      BY <1>0, UpdateKeepsCoherent DEF Phases
    <3>2. /\ log' = [log EXCEPT ![1] = job]
          /\ handler' = [pc |-> "pending", old |-> log[1], new |-> job]
      BY <1>1, <2>1 DEF HandleJobAdd
    <3>3. log' \in Seq(Coherent) /\ Len(log') = Len(log)
      BY <3>1, <3>2, ExceptSeq
    <3>. QED  BY <1>0, <1>1, <3>1, <3>2, <3>3 DEF HandleJobAdd
  <2>2. CASE log[1].phase # ""
    BY <1>0, <1>1, <2>2 DEF HandleJobAdd
  <2>. QED  BY <2>1, <2>2
<1>2. CASE HandlerWritesPhase
  <2>1. WithPhase(handler.new) \in Coherent
    BY GroupsKeepCoherent
  <2>2. /\ api' \in Coherent
        /\ log' \in Seq(Coherent) /\ Len(log') >= Len(log)
        /\ left' \in [{"timeout", "edit", "crash"} -> Nat]
    BY <1>2, <2>1, WriteKeepsCoherent DEF HandlerWritesPhase, SamePhase
  <2>. QED  BY <1>0, <1>2, <2>2 DEF HandlerWritesPhase
<1>3. CASE HandleJobUpdate
  <2>. DEFINE job == HandleJobStatus(log[1], log[2])
  <2>1. Len(log) >= 2 /\ log[2] \in Coherent
    BY <1>3 DEF HandleJobUpdate
  <2>2. job \in Coherent
    BY <1>0, <2>1, HandleKeepsCoherent
  <2>3. /\ log' = [Tail(log) EXCEPT ![1] = job]
        /\ handler' = [pc |-> "counts", old |-> log[2], new |-> job]
        /\ seen' = seen - 1 /\ seen >= 2
        /\ UNCHANGED <<api, pass, entered, left>>
    BY <1>3 DEF HandleJobUpdate
  <2>4. Tail(log) \in Seq(Coherent) /\ Len(Tail(log)) = Len(log) - 1
    BY <2>1, HeadTailProperties
  <2>5. log' \in Seq(Coherent) /\ Len(log') = Len(log) - 1
    BY <2>1, <2>2, <2>3, <2>4, ExceptSeq
  <2>6. handler' \in CoherentWork({"idle", "added", "pending", "counts", "numbers"})
    BY <2>1, <2>2, <2>3
  <2>. QED  BY <2>1, <2>3, <2>5, <2>6
<1>4. CASE HandlerWritesCounts
  <2>1. WithCounts(handler.new) \in Coherent
    BY GroupsKeepCoherent
  <2>2. /\ api' \in Coherent
        /\ log' \in Seq(Coherent) /\ Len(log') >= Len(log)
        /\ left' \in [{"timeout", "edit", "crash"} -> Nat]
    BY <1>4, <2>1, WriteKeepsCoherent DEF HandlerWritesCounts
  <2>3. handler' \in CoherentWork({"idle", "added", "pending", "counts", "numbers"})
    BY <1>4 DEF HandlerWritesCounts
  <2>. QED  BY <1>4, <2>2, <2>3 DEF HandlerWritesCounts
<1>5. CASE HandlerWritesNumbers
  <2>1. WithNumbers(handler.new) \in Coherent
    BY GroupsKeepCoherent
  <2>2. /\ api' \in Coherent
        /\ log' \in Seq(Coherent) /\ Len(log') >= Len(log)
        /\ left' \in [{"timeout", "edit", "crash"} -> Nat]
    BY <1>5, <2>1, WriteKeepsCoherent DEF HandlerWritesNumbers, SameNumbers
  <2>. QED  BY <1>0, <1>5, <2>2 DEF HandlerWritesNumbers
<1>. QED  BY <1>1, <1>2, <1>3, <1>4, <1>5 DEF HandlerStep

\* Every step preserves the invariant.
LEMMA StepKeepsInv ==
    ASSUME StatusInv, [Next]_vars
    PROVE  StatusInv'
<1>1. CASE PassStep
  BY <1>1, PassKeepsInv
<1>2. CASE HandlerStep
  BY <1>2, HandlerKeepsInv
<1>3. CASE SyncCache
  BY <1>3 DEF SyncCache, StatusInv
<1>4. CASE Crash
  <2>1. <<api>> \in Seq(Coherent) /\ Len(<<api>>) = 1
    BY DEF StatusInv
  <2>2. NoWork \in CoherentWork({"idle"})
    BY NewJobCoherent DEF NoWork, Specs, CoherentWork
  <2>3. left' \in [{"timeout", "edit", "crash"} -> Nat]
    BY <1>4 DEF Crash, Spend, StatusInv
  <2>4. /\ pass' \in CoherentWork({"idle", "read", "phase", "numbers", "reject"})
        /\ handler' \in CoherentWork({"idle", "added", "pending", "counts", "numbers"})
    BY <1>4, <2>2 DEF Crash, CoherentWork
  <2>. QED  BY <1>4, <2>1, <2>3, <2>4 DEF Crash, StatusInv
<1>5. CASE Edit
  <2>1. api' \in Coherent
    BY <1>5 DEF Edit, StatusInv, Coherent, Job
  <2>2. log' \in Seq(Coherent) /\ Len(log') = Len(log) + 1
    BY <1>5, <2>1 DEF Edit, StatusInv
  <2>3. left' \in [{"timeout", "edit", "crash"} -> Nat]
    BY <1>5 DEF Edit, Spend, StatusInv
  <2>. QED  BY <1>5, <2>1, <2>2, <2>3 DEF Edit, StatusInv
<1>6. CASE UNCHANGED vars
  BY <1>6 DEF vars, StatusInv
<1>. QED  BY <1>1, <1>2, <1>3, <1>4, <1>5, <1>6 DEF Next

\* The inductive invariant: no coherent object turns into another, wherever it
\* is kept.
THEOREM StatusesStayCoherent == Spec => []StatusInv
<1>1. Init => StatusInv
  BY InitCoherent
<1>2. StatusInv /\ [Next]_vars => StatusInv'
  BY StepKeepsInv
<1>. QED  BY <1>1, <1>2, PTL DEF Spec

\* Type correctness of the status and of all its writers.
THEOREM StatusTypeCorrect == Spec => []TypeOK
<1>1. StatusInv => TypeOK
  <2>1. Coherent \subseteq Job
    BY DEF Coherent
  <2>2. ASSUME NEW s \in Seq(Coherent) PROVE s \in Seq(Job)
    BY <2>1, SeqMonotonic
  <2>. QED  BY <2>1, <2>2 DEF StatusInv, TypeOK, CoherentWork, Work
<1>. QED  BY <1>1, StatusesStayCoherent, PTL

\* updateDIJobConditions and setCondition keep the conditions in step with the
\* phase, for whatever is stale, lost or changed in place.
THEOREM ConditionsFollow == Spec => []ConditionFollowsPhase
<1>1. StatusInv => ConditionFollowsPhase
  BY DEF StatusInv, ConditionFollowsPhase, Coherent
<1>. QED  BY <1>1, StatusesStayCoherent, PTL

-----------------------------------------------------------------------------
(* Counting.  The log shows the changes the update handler has yet to see.  *)

\* f gives for each object of the log how often the job had entered p by then:
\* more often with each change to p.  No count is ahead of the first object.
Bound(p, f, versions, job, copy, total) ==
    /\ \A i \in 1..Len(versions) : versions[i].count[p] <= f[1]
    /\ job.count[p] <= f[1] /\ copy.count[p] <= f[1]
    /\ \A i, j \in 1..Len(versions) : i <= j => f[i] <= f[j]
    /\ \A i \in 1..(Len(versions) - 1) :
          versions[i].phase # p /\ versions[i + 1].phase = p => f[i] < f[i + 1]
    /\ f[Len(versions)] <= total[p]

\* A change of phase that is written is a change of the last object of the log,
\* also where the add handler has changed that in place.
CountsInv ==
    /\ \A p \in Counted : \E f \in [1..Len(log) -> Nat] :
          Bound(p, f, log, api, handler.new, entered)
    /\ \/ api.phase = log[Len(log)].phase
       \/ api.phase \notin Counted /\ log[Len(log)].phase \notin Counted
    /\ handler.pc = "pending" => handler.new.phase = "Pending"

\* What is written into the log keeps the bound, if entering a phase is noted.
LEMMA AppendKeepsBound ==
    ASSUME NEW versions \in Seq(Job), Len(versions) >= 1,
           NEW p \in Counted, NEW f \in [1..Len(versions) -> Nat],
           NEW job, NEW copy, NEW copy2,
           NEW total \in [Counted -> Nat], NEW total2 \in [Counted -> Nat],
           Bound(p, f, versions, job, copy, total), total[p] <= total2[p],
           NEW v, v.count[p] <= f[1], copy2.count[p] <= f[1],
           v.phase = p /\ versions[Len(versions)].phase # p
                => total[p] < total2[p]
    PROVE  \E g \in [1..Len(Append(versions, v)) -> Nat] :
              Bound(p, g, Append(versions, v), v, copy2, total2)
<1> DEFINE w == Append(versions, v)
           n == Len(versions)
           g == [i \in 1..(n + 1) |-> IF i = n + 1 THEN total2[p] ELSE f[i]]
<1>1. /\ n \in Nat /\ n >= 1 /\ Len(w) = n + 1
      /\ w[n + 1] = v /\ \A i \in 1..n : w[i] = versions[i]
  OBVIOUS
<1>2. \A i \in 1..(n + 1) : i \in 1..n \/ i = n + 1
  BY <1>1
<1>3. total[p] \in Nat /\ total2[p] \in Nat /\ \A i \in 1..n : f[i] \in Nat
  OBVIOUS
<1>4. /\ g \in [1..(n + 1) -> Nat] /\ g[n + 1] = total2[p]
      /\ \A i \in 1..n : g[i] = f[i]
  BY <1>1, <1>2, <1>3
<1> HIDE DEF w, g
<1>5. f[n] <= total[p] /\ 1 \in 1..n /\ n \in 1..n
  BY <1>1 DEF Bound
<1>6. \A i \in 1..(n + 1) : w[i].count[p] <= g[1]
  BY <1>1, <1>2, <1>4, <1>5 DEF Bound
<1>7. ASSUME NEW i \in 1..(n + 1), NEW j \in 1..(n + 1), i <= j
      PROVE  g[i] <= g[j]
  <2>1. CASE j \in 1..n
    <3>1. i \in 1..n
      BY <1>1, <1>7, <2>1
    <3>2. QED BY <1>4, <1>7, <2>1, <3>1 DEF Bound
  <2>2. CASE j = n + 1 /\ i \in 1..n
    <3>1. f[i] <= f[n]
      BY <1>1, <1>5, <2>2 DEF Bound
    <3>2. QED BY <1>3, <1>4, <1>5, <2>2, <3>1
  <2>3. CASE i = n + 1 /\ j = n + 1
    BY <1>3, <1>4, <2>3
  <2>4. QED BY <1>1, <1>2, <1>7, <2>1, <2>2, <2>3
<1>8. ASSUME NEW i \in 1..n, w[i].phase # p, w[i + 1].phase = p
      PROVE  g[i] < g[i + 1]
  <2>1. CASE i = n
    <3>1. total[p] < total2[p]
      BY <1>1, <1>8, <2>1
    <3>2. QED BY <1>3, <1>4, <1>5, <2>1, <3>1
  <2>2. CASE i # n
    <3>1. i \in 1..(n - 1) /\ i + 1 \in 1..n
      BY <1>1, <2>2
    <3>2. QED BY <1>1, <1>4, <1>8, <3>1 DEF Bound
  <2>3. QED BY <2>1, <2>2
<1>9. Bound(p, g, w, v, copy2, total2)
  BY <1>1, <1>3, <1>4, <1>5, <1>6, <1>7, <1>8 DEF Bound
<1>. QED  BY <1>1, <1>4, <1>9 DEF w

\* Entering a phase is counted: more or as much as before.
LEMMA EnteredGrows ==
    ASSUME StatusInv, StatusInv', [Next]_vars, NEW p \in Counted
    PROVE  entered[p] \in Nat /\ entered'[p] \in Nat /\ entered[p] <= entered'[p]
<1>1. entered \in [Counted -> Nat] /\ entered' \in [Counted -> Nat]
  BY DEF StatusInv
<1>2. CASE PassWritesPhase
  BY <1>1, <1>2 DEF PassWritesPhase
<1>3. CASE UNCHANGED entered
  BY <1>1, <1>3
<1>. QED  BY <1>2, <1>3
          DEF Next, vars, PassStep, HandlerStep, ReadJob, NamingIsRefused, Decide,
              PassWritesNumbers, HandleJobAdd, HandlerWritesPhase,
              HandleJobUpdate, HandlerWritesCounts, HandlerWritesNumbers,
              SyncCache, Edit, Crash

\* No work counts nothing.
LEMMA NoWorkCountsNothing ==
    /\ NoWork.pc = "idle"
    /\ \A p \in Counted : NoWork.new.count[p] = 0
BY DEF NoWork, NewJob

\* The copy of the handler that is kept or dropped is not ahead.
LEMMA CopyIsBound ==
    ASSUME NEW p \in Counted, NEW n \in Nat, handler.new.count[p] <= n,
           handler'.new = handler.new \/ handler' = NoWork
    PROVE  handler'.new.count[p] <= n
<1>1. CASE handler'.new = handler.new
  BY <1>1
<1>2. CASE handler' = NoWork
  <2>1. handler'.new.count[p] = 0
    BY <1>2, NoWorkCountsNothing
  <2>. QED  BY <2>1
<1>. QED  BY <1>1, <1>2

\* A step that moves neither the log nor what the API server holds.
LEMMA StillCounts ==
    ASSUME StatusInv, StatusInv', CountsInv, [Next]_vars, UNCHANGED <<api, log>>,
           handler'.new = handler.new \/ handler' = NoWork,
           handler'.pc = "pending" => handler' = handler
    PROVE  CountsInv'
<1>1. ASSUME NEW p \in Counted
      PROVE  \E f \in [1..Len(log) -> Nat] :
                Bound(p, f, log, api, handler'.new, entered')
  <2>1. PICK f \in [1..Len(log) -> Nat] :
            Bound(p, f, log, api, handler.new, entered)
    BY DEF CountsInv
  <2>2. f[1] \in Nat /\ f[Len(log)] \in Nat
    <3>1. 1 \in 1..Len(log) /\ Len(log) \in 1..Len(log)
      BY DEF StatusInv
    <3>. QED  BY <3>1
  <2>3. handler'.new.count[p] <= f[1]
    BY <2>1, <2>2, CopyIsBound DEF Bound
  <2>4. f[Len(log)] <= entered'[p]
    BY <2>1, <2>2, EnteredGrows DEF Bound
  <2>. QED  BY <2>1, <2>3, <2>4 DEF Bound
<1>. QED  BY <1>1 DEF CountsInv

\* A write that is accepted as a new object, and enters a phase only if that is
\* noted.
LEMMA AppendCounts ==
    ASSUME StatusInv, StatusInv', CountsInv, [Next]_vars,
           NEW v, api' = v, log' = Append(log, v),
           \A p \in Counted : \/ v.count[p] = api.count[p]
                              \/ v.count[p] = handler.new.count[p]
                              \/ v.count[p] = Cached.count[p],
           \A p \in Counted : v.phase = p /\ log[Len(log)].phase # p
                                => entered[p] < entered'[p],
           handler'.new = handler.new \/ handler' = NoWork,
           handler'.pc = "pending" => handler' = handler
    PROVE  CountsInv'
<1>1. /\ log \in Seq(Coherent) /\ Len(log) \in Nat /\ Len(log) >= 1
      /\ seen \in 1..Len(log)
      /\ entered \in [Counted -> Nat] /\ entered' \in [Counted -> Nat]
  BY DEF StatusInv
<1>2. log \in Seq(Job)
  BY <1>1, SeqMonotonic DEF Coherent
<1>3. ASSUME NEW p \in Counted
      PROVE  \E g \in [1..Len(Append(log, v)) -> Nat] :
                Bound(p, g, Append(log, v), v, handler'.new, entered')
  <2>1. PICK f \in [1..Len(log) -> Nat] :
            Bound(p, f, log, api, handler.new, entered)
    BY DEF CountsInv
  <2>2. f[1] \in Nat
    BY <1>1
  <2>3. v.count[p] <= f[1]
    BY <1>1, <2>1, <2>2 DEF Bound, Cached
  <2>4. handler'.new.count[p] <= f[1]
    BY <2>1, <2>2, CopyIsBound DEF Bound
  <2>5. entered[p] <= entered'[p]
    BY EnteredGrows
  <2>. QED  BY <1>1, <1>2, <2>1, <2>3, <2>4, <2>5, AppendKeepsBound
<1>4. Append(log, v)[Len(Append(log, v))] = v
  BY <1>1
<1>. QED  BY <1>3, <1>4 DEF CountsInv

\* A write by any of the writers.
LEMMA WriteCounts ==
    ASSUME StatusInv, StatusInv', CountsInv, [Next]_vars,
           NEW same \in BOOLEAN, NEW v, UpdateInCluster(same, v),
           \A p \in Counted : \/ v.count[p] = api.count[p]
                              \/ v.count[p] = handler.new.count[p]
                              \/ v.count[p] = Cached.count[p],
           CacheIsFresh /\ api' = v =>
              \A p \in Counted : v.phase = p /\ log[Len(log)].phase # p
                                   => entered[p] < entered'[p],
           handler'.new = handler.new \/ handler' = NoWork,
           handler'.pc = "pending" => handler' = handler
    PROVE  CountsInv'
<1>1. CASE UNCHANGED <<api, log>>
  BY <1>1, StillCounts
<1>2. CASE Accept(v)
  <2>1. CASE v = api
    BY <1>2, <2>1, StillCounts DEF Accept
  <2>2. CASE v # api
    BY <1>2, <2>2, AppendCounts DEF Accept
  <2>. QED  BY <2>1, <2>2
<1>. QED  BY <1>1, <1>2 DEF UpdateInCluster

\* The fields the groups of writes take and leave.
LEMMA GroupFields ==
    ASSUME StatusInv, NEW v \in Coherent
    PROVE  /\ WithPhase(v).phase = v.phase /\ WithPhase(v).count = Cached.count
           /\ WithCounts(v).phase = Cached.phase /\ WithCounts(v).count = v.count
           /\ WithNumbers(v).phase = Cached.phase
           /\ WithNumbers(v).count = Cached.count
<1>1. Cached \in Job
  BY GroupsKeepCoherent DEF Coherent
<1>. QED  BY <1>1 DEF WithPhase, WithCounts, WithNumbers, Job

\* The steps of a pass: it writes no count, and notes what it enters.
LEMMA PassCounts ==
    ASSUME StatusInv, StatusInv', CountsInv, PassStep
    PROVE  CountsInv'
<1>1. [Next]_vars
  BY DEF Next
<1>2. CASE ReadJob \/ NamingIsRefused
  BY <1>1, <1>2, StillCounts DEF ReadJob, NamingIsRefused
<1>3. CASE Decide
  <2>1. /\ \/ UNCHANGED <<api, log>>
           \/ /\ api' = [api EXCEPT !.spec = "named"]
              /\ log' = Append(log, api')
        /\ UNCHANGED handler
    BY <1>3 DEF Decide, SetDefaultJobNameInCluster
  <2>2. [api EXCEPT !.spec = "named"].phase = api.phase
        /\ [api EXCEPT !.spec = "named"].count = api.count
    BY DEF StatusInv, Coherent, Job
  <2>3. \A p \in Counted : api.phase = p => log[Len(log)].phase = p
    BY DEF CountsInv
  <2>. QED  BY <1>1, <2>1, <2>2, <2>3, StillCounts, AppendCounts
<1>4. CASE PassWritesPhase
  <2> DEFINE v == WithPhase(pass.new)
  <2>1. /\ UpdateInCluster(SamePhase(pass.old, pass.new), v)
        /\ UNCHANGED handler
        /\ entered' = [p \in Counted |->
              IF api'.phase = p /\ api.phase # p THEN entered[p] + 1
                                                 ELSE entered[p]]
    BY <1>4 DEF PassWritesPhase
  <2>2. pass.new \in Coherent
    BY DEF StatusInv, CoherentWork
  <2>3. v.count = Cached.count
    BY <2>2, GroupFields
  <2> HIDE DEF v
  <2>4. ASSUME api' = v, NEW p \in Counted, v.phase = p,
               log[Len(log)].phase # p
        PROVE  entered[p] < entered'[p]
    <3>1. api.phase # p
      BY <2>4 DEF CountsInv
    <3>2. entered[p] \in Nat
      BY DEF StatusInv
    <3>. QED  BY <2>1, <2>4, <3>1, <3>2
  <2>5. SamePhase(pass.old, pass.new) \in BOOLEAN
    BY DEF SamePhase
  <2>. QED  BY <1>1, <2>1, <2>3, <2>4, <2>5, WriteCounts
<1>5. CASE PassWritesNumbers
  <2> DEFINE v == WithNumbers(pass.new)
  <2>1. UpdateInCluster(SameNumbers(pass.old, pass.new), v)
        /\ UNCHANGED handler
    BY <1>5 DEF PassWritesNumbers
  <2>2. v.count = Cached.count /\ v.phase = Cached.phase
    BY GroupFields DEF StatusInv, CoherentWork
  <2> HIDE DEF v
  <2>3. CacheIsFresh => v.phase = log[Len(log)].phase
    BY <2>2 DEF CacheIsFresh, Cached
  <2>4. SameNumbers(pass.old, pass.new) \in BOOLEAN
    BY DEF SameNumbers
  <2>. QED  BY <1>1, <2>1, <2>2, <2>3, <2>4, WriteCounts
<1>. QED  BY <1>2, <1>3, <1>4, <1>5 DEF PassStep

\* The add handler changes a phase in the cache that is none to become Pending.
LEMMA AddHandlerCounts ==
    ASSUME StatusInv, StatusInv', CountsInv, HandleJobAdd
    PROVE  CountsInv'
<1>1. [Next]_vars
  BY DEF Next, HandlerStep
<1>2. CASE log[1].phase # ""
  <2>1. handler' = NoWork /\ UNCHANGED <<api, log>>
    BY <1>2 DEF HandleJobAdd
  <2>. QED  BY <1>1, <2>1, StillCounts, NoWorkCountsNothing
<1>3. CASE log[1].phase = ""
  <2> DEFINE added == UpdateJobStatus(log[1], "Pending")
  <2>1. /\ log \in Seq(Coherent) /\ Len(log) \in Nat /\ Len(log) >= 1
        /\ 1 \in 1..Len(log) /\ Len(log) \in 1..Len(log) /\ log[1] \in Job
    <3>1. /\ log \in Seq(Coherent) /\ Len(log) \in Nat /\ Len(log) >= 1
          /\ 1 \in 1..Len(log) /\ Len(log) \in 1..Len(log)
      BY DEF StatusInv
    <3>2. log[1] \in Coherent
      BY <3>1, ElementOfSeq
    <3>. QED  BY <3>1, <3>2 DEF Coherent
  <2>2. added.phase = "Pending" /\ added.count = log[1].count
    BY <1>3, <2>1 DEF UpdateJobStatus, Job
  <2>3. /\ log' = [log EXCEPT ![1] = added]
        /\ handler' = [pc |-> "pending", old |-> log[1], new |-> added]
        /\ UNCHANGED <<api, entered>>
    BY <1>3 DEF HandleJobAdd
  <2> HIDE DEF added
  <2>4. /\ Len(log') = Len(log) /\ log'[1] = added
        /\ \A i \in 1..Len(log) : i # 1 => log'[i] = log[i]
    BY <2>1, <2>3
  <2>5. ASSUME NEW p \in Counted
        PROVE  \E f \in [1..Len(log') -> Nat] :
                  Bound(p, f, log', api', handler'.new, entered')
    <3>1. PICK f \in [1..Len(log) -> Nat] :
              Bound(p, f, log, api, handler.new, entered)
      BY DEF CountsInv
    <3>2. \A i \in 1..Len(log) : log'[i].count[p] <= f[1]
      BY <2>1, <2>2, <2>4, <3>1 DEF Bound
    <3>3. handler'.new.count[p] <= f[1]
      BY <2>1, <2>2, <2>3, <3>1 DEF Bound
    <3>4. p \notin {"", "Pending"}
      BY DEF Counted
    <3>5. \A i \in 1..(Len(log) - 1) :
              log'[i].phase # p /\ log'[i + 1].phase = p => f[i] < f[i + 1]
      <4>1. \A i \in 1..(Len(log) - 1) :
                /\ i \in 1..Len(log) /\ i + 1 \in 1..Len(log) /\ i + 1 # 1
        BY <2>1
      <4>2. \A i \in 1..(Len(log) - 1) : log'[i + 1] = log[i + 1]
        BY <2>4, <4>1
      <4>3. \A i \in 1..Len(log) : log'[i].phase # p => log[i].phase # p
        <5>1. \A i \in 1..Len(log) :
                  (i = 1 /\ log[i].phase # p) \/ log'[i] = log[i]
          BY <1>3, <2>4, <3>4
        <5>. QED  BY <5>1
      <4>. QED  BY <3>1, <4>1, <4>2, <4>3 DEF Bound
    <3>. QED  BY <2>3, <2>4, <3>1, <3>2, <3>3, <3>5 DEF Bound
  <2>6. \/ api'.phase = log'[Len(log')].phase
        \/ api'.phase \notin Counted /\ log'[Len(log')].phase \notin Counted
    BY <1>3, <2>1, <2>2, <2>3, <2>4 DEF CountsInv, Counted
  <2>. QED  BY <2>2, <2>3, <2>5, <2>6 DEF CountsInv
<1>. QED  BY <1>2, <1>3

\* An event is counted once: what it adds, the job has entered in between.
LEMMA EventCountsOnce ==
    ASSUME NEW old \in Job, NEW new \in Job, NEW p \in Counted,
           NEW m \in Nat, NEW n \in Nat, new.count[p] <= m, m <= n,
           old.phase # p /\ new.phase = p => m < n
    PROVE  /\ HandleJobStatus(old, new).count[p] <= n
           /\ HandleJobStatus(old, new).phase = new.phase
<1>1. new.count \in [Counted -> Nat] /\ new.count[p] \in Nat
  BY DEF Job
<1>2. CASE Counts(old, new)
  <2>1. HandleJobStatus(old, new) = [new EXCEPT !.count[new.phase] = @ + 1]
    BY <1>2 DEF HandleJobStatus
  <2>2. HandleJobStatus(old, new).phase = new.phase
        /\ HandleJobStatus(old, new).count =
              [new.count EXCEPT ![new.phase] = @ + 1]
    BY <2>1 DEF Job
  <2>3. CASE new.phase = p
    <3>1. old.phase # p
      BY <1>2, <2>3 DEF Counts
    <3>. QED  BY <1>1, <2>2, <2>3, <3>1
  <2>4. CASE new.phase # p
    BY <1>1, <2>2, <2>4
  <2>. QED  BY <2>2, <2>3, <2>4
<1>3. CASE ~Counts(old, new)
  <2>1. HandleJobStatus(old, new) \in
            {new, [new EXCEPT !.completed = TRUE, !.ready = 0]}
    BY <1>3 DEF HandleJobStatus
  <2>2. HandleJobStatus(old, new).phase = new.phase
        /\ HandleJobStatus(old, new).count = new.count
    BY <2>1 DEF Job
  <2>. QED  BY <1>1, <2>2
<1>. QED  BY <1>2, <1>3

\* The update handler moves on to the next object, and counts what it shows.
LEMMA UpdateHandlerCounts ==
    ASSUME StatusInv, StatusInv', CountsInv, HandleJobUpdate
    PROVE  CountsInv'
<1> DEFINE counted == HandleJobStatus(log[1], log[2])
           t == Tail(log)
           n == Len(log)
<1>1. /\ log \in Seq(Coherent) /\ n \in Nat /\ n >= 2
      /\ 1 \in 1..n /\ 2 \in 1..n
  BY DEF StatusInv, HandleJobUpdate
<1>2. log[1] \in Job /\ log[2] \in Job
  <2>1. log[1] \in Coherent /\ log[2] \in Coherent
    BY <1>1, ElementOfSeq
  <2>. QED  BY <2>1 DEF Coherent
<1>3. /\ t \in Seq(Coherent) /\ Len(t) = n - 1
      /\ \A i \in 1..(n - 1) : t[i] = log[i + 1] /\ i + 1 \in 1..n
  BY <1>1, HeadTailProperties
<1>4. /\ log' = [t EXCEPT ![1] = counted]
      /\ handler' = [pc |-> "counts", old |-> log[2], new |-> counted]
      /\ UNCHANGED <<api, entered>>
  BY DEF HandleJobUpdate
<1> HIDE DEF counted, t
<1>5. /\ Len(log') = n - 1 /\ log'[1] = counted /\ handler'.new = counted
      /\ \A i \in 1..(n - 1) : i # 1 => log'[i] = log[i + 1]
  BY <1>1, <1>3, <1>4
<1>6. counted.phase = log[2].phase
  BY <1>2 DEF counted, HandleJobStatus, Job
<1>7. \A i \in 1..(n - 1) : log'[i].phase = log[i + 1].phase
  <2>1. \A i \in 1..(n - 1) : i = 1 \/ log'[i] = log[i + 1]
    BY <1>5
  <2>2. log'[1].phase = log[1 + 1].phase
    BY <1>5, <1>6
  <2>. QED  BY <2>1, <2>2
<1>8. ASSUME NEW p \in Counted
      PROVE  \E g \in [1..Len(log') -> Nat] :
                Bound(p, g, log', api', handler'.new, entered')
  <2>1. PICK f \in [1..n -> Nat] :
            Bound(p, f, log, api, handler.new, entered)
    BY DEF CountsInv
  <2> DEFINE g == [i \in 1..(n - 1) |-> f[i + 1]]
  <2>2. /\ g \in [1..(n - 1) -> Nat] /\ g[1] = f[2] /\ g[n - 1] = f[n]
        /\ \A i \in 1..(n - 1) : g[i] = f[i + 1]
    BY <1>1, <1>3
  <2> HIDE DEF g
  <2>3. f[1] \in Nat /\ f[2] \in Nat /\ f[1] <= f[2]
    BY <1>1, <2>1 DEF Bound
  <2>4. log[1].phase # p /\ log[2].phase = p => f[1] < f[2]
    <3>1. 1 \in 1..(n - 1) /\ 1 + 1 = 2
      BY <1>1
    <3>2. \A i \in 1..(n - 1) :
              log[i].phase # p /\ log[i + 1].phase = p => f[i] < f[i + 1]
      BY <2>1 DEF Bound
    <3>. QED  BY <3>1, <3>2
  <2>5. log[2].count[p] <= f[1]
    BY <1>1, <2>1 DEF Bound
  <2>6. counted.count[p] <= g[1]
    BY <1>2, <2>2, <2>3, <2>4, <2>5, EventCountsOnce DEF counted
  <2>7. \A i \in 1..(n - 1) : log'[i].count[p] <= g[1]
    <3>1. ASSUME NEW i \in 1..(n - 1), i # 1
          PROVE  log'[i].count[p] <= g[1]
      <4>1. log'[i] = log[i + 1] /\ i + 1 \in 1..n
        BY <1>3, <1>5, <3>1
      <4>2. log[i + 1] \in Coherent
        BY <1>1, <4>1, ElementOfSeq
      <4>3. log[i + 1].count[p] \in Nat /\ log[i + 1].count[p] <= f[1]
        BY <2>1, <4>1, <4>2 DEF Bound, Coherent, Job
      <4>. QED  BY <2>2, <2>3, <4>1, <4>3
    <3>. QED  BY <1>5, <2>6, <3>1
  <2>8. api.count[p] <= g[1]
    <3>1. api.count[p] \in Nat /\ api.count[p] <= f[1]
      BY <2>1 DEF Bound, StatusInv, Coherent, Job
    <3>. QED  BY <2>2, <2>3, <3>1
  <2>9. \A i, j \in 1..(n - 1) : i <= j => g[i] <= g[j]
    <3>1. \A i, j \in 1..(n - 1) : i <= j => f[i + 1] <= f[j + 1]
      BY <1>1, <1>3, <2>1 DEF Bound
    <3>. QED  BY <2>2, <3>1
  <2>10. \A i \in 1..((n - 1) - 1) :
            log'[i].phase # p /\ log'[i + 1].phase = p => g[i] < g[i + 1]
    <3>1. \A i \in 1..((n - 1) - 1) :
              i \in 1..(n - 1) /\ i + 1 \in 1..(n - 1)
      BY <1>1
    <3>2. \A i \in 1..(n - 1) :
              log[i].phase # p /\ log[i + 1].phase = p => f[i] < f[i + 1]
      BY <2>1 DEF Bound
    <3>. QED  BY <1>7, <2>2, <3>1, <3>2
  <2>11. g[n - 1] <= entered[p]
    BY <2>1, <2>2 DEF Bound
  <2>. QED  BY <1>4, <1>5, <2>2, <2>6, <2>7, <2>8, <2>9, <2>10, <2>11 DEF Bound
<1>9. log'[Len(log')].phase = log[n].phase
  <2>1. n - 1 \in 1..(n - 1) /\ (n - 1) + 1 = n
    BY <1>1
  <2>. QED  BY <1>5, <1>7, <2>1
<1>10. handler'.pc = "counts"
  BY <1>4
<1>. QED  BY <1>4, <1>8, <1>9, <1>10 DEF CountsInv

\* The writes of the handlers: the count of the event, or none; Pending is not
\* counted.
LEMMA HandlerStepCounts ==
    ASSUME StatusInv, StatusInv', CountsInv, HandlerStep
    PROVE  CountsInv'
<1>1. [Next]_vars
  BY DEF Next
<1>2. handler.new \in Coherent
  BY DEF StatusInv, CoherentWork
<1>3. ASSUME CacheIsFresh
      PROVE  Cached.phase = log[Len(log)].phase
  BY <1>3 DEF CacheIsFresh, Cached
<1>4. CASE HandlerWritesPhase
  <2> DEFINE v == WithPhase(handler.new)
  <2>1. UpdateInCluster(SamePhase(handler.old, handler.new), v)
        /\ handler' = NoWork /\ handler.pc = "pending"
    BY <1>4 DEF HandlerWritesPhase
  <2>2. v.phase = "Pending" /\ v.count = Cached.count
    BY <1>2, <2>1, GroupFields DEF CountsInv
  <2> HIDE DEF v
  <2>3. SamePhase(handler.old, handler.new) \in BOOLEAN /\ "Pending" \notin Counted
    BY DEF SamePhase, Counted
  <2>. QED  BY <1>1, <2>1, <2>2, <2>3, WriteCounts, NoWorkCountsNothing
<1>5. CASE HandlerWritesCounts
  <2> DEFINE v == WithCounts(handler.new)
  <2>1. /\ UpdateInCluster(handler.old.count = handler.new.count, v)
        /\ handler' = [handler EXCEPT !.pc = "numbers"]
    BY <1>5 DEF HandlerWritesCounts
  <2>2. v.phase = Cached.phase /\ v.count = handler.new.count
    BY <1>2, GroupFields
  <2> HIDE DEF v
  <2>3. handler'.new = handler.new /\ handler'.pc = "numbers"
    BY <2>1 DEF StatusInv, CoherentWork
  <2>4. (handler.old.count = handler.new.count) \in BOOLEAN
    OBVIOUS
  <2>. QED  BY <1>1, <1>3, <2>1, <2>2, <2>3, <2>4, WriteCounts
<1>6. CASE HandlerWritesNumbers
  <2> DEFINE v == WithNumbers(handler.new)
  <2>1. UpdateInCluster(SameNumbers(handler.old, handler.new), v)
        /\ handler' = NoWork
    BY <1>6 DEF HandlerWritesNumbers
  <2>2. v.phase = Cached.phase /\ v.count = Cached.count
    BY <1>2, GroupFields
  <2> HIDE DEF v
  <2>3. SameNumbers(handler.old, handler.new) \in BOOLEAN
    BY DEF SameNumbers
  <2>. QED  BY <1>1, <1>3, <2>1, <2>2, <2>3, WriteCounts, NoWorkCountsNothing
<1>. QED  BY <1>4, <1>5, <1>6, AddHandlerCounts, UpdateHandlerCounts
          DEF HandlerStep

\* The bound at the first object is one at the last, and so on what was entered.
LEMMA CountsBelowEntered ==
    ASSUME StatusInv, CountsInv, NEW p \in Counted
    PROVE  /\ entered[p] \in Nat /\ api.count[p] \in Nat
           /\ api.count[p] <= entered[p]
<1>1. PICK f \in [1..Len(log) -> Nat] :
          Bound(p, f, log, api, handler.new, entered)
  BY DEF CountsInv
<1>2. 1 \in 1..Len(log) /\ Len(log) \in 1..Len(log) /\ 1 <= Len(log)
  BY DEF StatusInv
<1>3. entered[p] \in Nat /\ api.count[p] \in Nat
  BY DEF StatusInv, Coherent, Job
<1>4. f[1] \in Nat /\ f[Len(log)] \in Nat
  BY <1>2
<1>5. f[1] <= f[Len(log)] /\ f[Len(log)] <= entered[p] /\ api.count[p] <= f[1]
  BY <1>1, <1>2 DEF Bound
<1>. QED  BY <1>3, <1>4, <1>5

\* After a crash the log is what the API server holds.
LEMMA CrashCounts ==
    ASSUME StatusInv, StatusInv', CountsInv, Crash
    PROVE  CountsInv'
<1>1. /\ log' = <<api>> /\ Len(log') = 1 /\ log'[1] = api
      /\ UNCHANGED <<api, entered>>
  BY DEF Crash
<1>2. handler'.new = NoWork.new /\ handler'.pc = "added"
  BY DEF Crash, NoWork
<1>3. ASSUME NEW p \in Counted
      PROVE  \E g \in [1..Len(log') -> Nat] :
                Bound(p, g, log', api', handler'.new, entered')
  <2>1. entered[p] \in Nat /\ api.count[p] \in Nat /\ api.count[p] <= entered[p]
    BY CountsBelowEntered
  <2> DEFINE g == [i \in 1..1 |-> entered[p]]
  <2>2. g \in [1..1 -> Nat] /\ g[1] = entered[p]
    BY <2>1
  <2> HIDE DEF g
  <2>3. api.count[p] <= g[1] /\ handler'.new.count[p] <= g[1]
    BY <1>2, <2>1, <2>2, NoWorkCountsNothing
  <2>4. (\A i \in 1..1 : i = 1) /\ 1..(1 - 1) = {}
    OBVIOUS
  <2>. QED  BY <1>1, <2>1, <2>2, <2>3, <2>4 DEF Bound
<1>. QED  BY <1>1, <1>2, <1>3 DEF CountsInv

\* Every step.
LEMMA StepCounts ==
    ASSUME StatusInv, StatusInv', CountsInv, [Next]_vars
    PROVE  CountsInv'
<1>1. CASE SyncCache \/ UNCHANGED vars
  BY <1>1, StillCounts DEF SyncCache, vars
<1>2. CASE Edit
  <2>1. PICK s \in Specs : api' = [api EXCEPT !.spec = s]
    BY <1>2 DEF Edit
  <2>2. [api EXCEPT !.spec = s].phase = api.phase
        /\ [api EXCEPT !.spec = s].count = api.count
    BY DEF StatusInv, Coherent, Job
  <2>3. \A p \in Counted : api.phase = p => log[Len(log)].phase = p
    BY DEF CountsInv
  <2>4. log' = Append(log, api') /\ UNCHANGED handler
    BY <1>2 DEF Edit
  <2>. QED  BY <2>1, <2>2, <2>3, <2>4, AppendCounts
<1>. QED  BY <1>1, <1>2, PassCounts, HandlerStepCounts, CrashCounts DEF Next

\* The log bounds the counts, whatever is read in place, lost or restarted.
THEOREM CountsAreBounded == Spec => []CountsInv
<1>1. Init => CountsInv
  <2> SUFFICES ASSUME Init PROVE CountsInv
    OBVIOUS
  <2>1. PICK s \in InitSpecs : api = NewJob(s)
    BY DEF Init
  <2>2. /\ log = <<api>> /\ Len(log) = 1 /\ log[1] = api
        /\ \A p \in Counted : api.count[p] = 0 /\ entered[p] = 0
        /\ handler.new = NoWork.new /\ handler.pc = "added"
    BY <2>1 DEF Init, NewJob, NoWork
  <2>3. ASSUME NEW p \in Counted
        PROVE  \E f \in [1..Len(log) -> Nat] :
                  Bound(p, f, log, api, handler.new, entered)
    <3> DEFINE f == [i \in 1..1 |-> 0]
    <3>1. f \in [1..1 -> Nat] /\ f[1] = 0
      OBVIOUS
    <3> HIDE DEF f
    <3>2. (\A i \in 1..1 : i = 1) /\ 1..(1 - 1) = {}
      OBVIOUS
    <3>. QED  BY <2>2, <3>1, <3>2, NoWorkCountsNothing DEF Bound
  <2>. QED  BY <2>2, <2>3 DEF CountsInv
<1>2. StatusInv /\ StatusInv' /\ CountsInv /\ [Next]_vars => CountsInv'
  BY StepCounts
<1>. QED  BY <1>1, <1>2, StatusesStayCoherent, PTL DEF Spec

\* No restart and no rescheduling is counted twice, however often its event is
\* read from an object changed in place, written late, or lost in a crash.
THEOREM CountsAreSound == Spec => []CountsSound
<1>1. StatusInv /\ CountsInv => CountsSound
  BY CountsBelowEntered DEF CountsSound
<1>. QED  BY <1>1, StatusesStayCoherent, CountsAreBounded, PTL
=============================================================================
