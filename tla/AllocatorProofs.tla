--------------------------- MODULE AllocatorProofs ---------------------------
(***************************************************************************)
(* Theorems about Allocator: types, and the bound on the time between two  *)
(* slots, for every set of jobs, period and jitter of the resync.          *)
(***************************************************************************)
EXTENDS Allocator, FiniteSetTheorems, TLAPS

\* What bounds the wait: it is at most the time since the last slot as long as
\* slots are refused, and the resync that comes next finds an idle worker.
SlotInv ==
    /\ TypeOK
    /\ resync.clock <= resync.period
    /\ exists = {} => waited = 0
    /\ ~Idle => waited = 0
    /\ since < Period => waited <= since
    /\ waited <= LongestWait
    /\ Idle /\ queue = <<>> => waited <= Period - Slack + resync.clock

-----------------------------------------------------------------------------
(* The work queue.                                                          *)

\* A listing is a queue of these jobs; it is empty only if there are none.
LEMMA ListingsAreQueues ==
    ASSUME NEW S \in SUBSET Jobs, NEW q \in Listings(S)
    PROVE  /\ q \in Seq(Jobs) /\ Once(q) /\ Elements(q) \subseteq S
           /\ S # {} => q # <<>>
<1>1. IsFiniteSet(S) /\ Cardinality(S) \in Nat
  BY JobsAssumption, FS_Subset, FS_CardinalityType
<1>2. q \in [1..Cardinality(S) -> S] /\ Once(q)
  BY DEF Listings
<1>3. q \in Seq(S) /\ Len(q) = Cardinality(S)
  BY <1>1, <1>2
<1>4. q \in Seq(Jobs) /\ Elements(q) \subseteq S
  BY <1>3 DEF Elements
<1>5. S # {} => Len(q) # 0
  BY <1>1, <1>3, FS_EmptySet
<1>. QED  BY <1>2, <1>3, <1>4, <1>5

\* A job is queued, once.
LEMMA EnqueueQueues ==
    ASSUME NEW q \in Seq(Jobs), Once(q), NEW j \in Jobs
    PROVE  /\ Enqueue(q, j) \in Seq(Jobs) /\ Once(Enqueue(q, j))
           /\ Enqueue(q, j) # <<>>
<1>1. CASE j \in Elements(q)
  BY <1>1 DEF Enqueue, Elements
<1>2. CASE j \notin Elements(q)
  <2>1. /\ Enqueue(q, j) = Append(q, j)
        /\ Append(q, j) \in Seq(Jobs) /\ Len(Append(q, j)) = Len(q) + 1
    BY <1>2 DEF Enqueue
  <2>2. \A i \in 1..Len(q) : Append(q, j)[i] = q[i] /\ q[i] # j
    BY <1>2 DEF Elements
  <2>3. Append(q, j)[Len(q) + 1] = j
    OBVIOUS
  <2>4. Once(Append(q, j))
    BY <2>1, <2>2, <2>3 DEF Once
  <2>. QED  BY <2>1, <2>4
<1>. QED  BY <1>1, <1>2

\* Taking the first job out leaves the others once.
LEMMA TailQueues ==
    ASSUME NEW q \in Seq(Jobs), Once(q), q # <<>>
    PROVE  Tail(q) \in Seq(Jobs) /\ Once(Tail(q)) /\ Head(q) \in Jobs
<1>1. /\ Tail(q) \in Seq(Jobs) /\ Len(Tail(q)) = Len(q) - 1
      /\ \A i \in 1..(Len(q) - 1) : Tail(q)[i] = q[i + 1]
      /\ Len(q) \in Nat
  OBVIOUS
<1>2. Once(Tail(q))
  BY <1>1 DEF Once
<1>. QED  BY <1>1, <1>2

\* A resync appends the jobs that are not queued.
LEMMA ResyncQueues ==
    ASSUME NEW p \in Seq(Jobs), Once(p), NEW q \in Seq(Jobs), Once(q),
           Elements(p) \cap Elements(q) = {}
    PROVE  p \o q \in Seq(Jobs) /\ Once(p \o q)
<1>1. /\ p \o q \in Seq(Jobs) /\ Len(p \o q) = Len(p) + Len(q)
      /\ Len(p) \in Nat /\ Len(q) \in Nat
      /\ \A i \in 1..Len(p) : (p \o q)[i] = p[i]
      /\ \A i \in (Len(p) + 1)..(Len(p) + Len(q)) : (p \o q)[i] = q[i - Len(p)]
  OBVIOUS
<1>2. ASSUME NEW i \in 1..Len(p), NEW k \in 1..Len(q) PROVE p[i] # q[k]
  BY DEF Elements
<1>3. ASSUME NEW i \in 1..Len(p \o q), NEW k \in 1..Len(p \o q),
             (p \o q)[i] = (p \o q)[k]
      PROVE  i = k
  <2>1. CASE i <= Len(p) /\ k <= Len(p)
    BY <1>1, <1>3, <2>1 DEF Once
  <2>2. CASE i > Len(p) /\ k > Len(p)
    <3>1. i - Len(p) \in 1..Len(q) /\ k - Len(p) \in 1..Len(q)
      BY <1>1, <2>2
    <3>2. q[i - Len(p)] = q[k - Len(p)]
      BY <1>1, <1>3, <2>2
    <3>3. i - Len(p) = k - Len(p)
      BY <3>1, <3>2 DEF Once
    <3>. QED  BY <1>1, <3>3
  <2>3. CASE i <= Len(p) /\ k > Len(p)
    <3>1. k - Len(p) \in 1..Len(q) /\ i \in 1..Len(p)
      BY <1>1, <2>3
    <3>2. p[i] = q[k - Len(p)]
      BY <1>1, <1>3, <2>3
    <3>. QED  BY <1>2, <3>1, <3>2
  <2>4. CASE i > Len(p) /\ k <= Len(p)
    <3>1. i - Len(p) \in 1..Len(q) /\ k \in 1..Len(p)
      BY <1>1, <2>4
    <3>2. p[k] = q[i - Len(p)]
      BY <1>1, <1>3, <2>4
    <3>. QED  BY <1>2, <3>1, <3>2
  <2>. QED  BY <1>1, <2>1, <2>2, <2>3, <2>4
<1>. QED  BY <1>1, <1>3 DEF Once

-----------------------------------------------------------------------------
(* The invariant, action by action.                                         *)

\* The times are numbers.
LEMMA TypedNumbers ==
    ASSUME TypeOK
    PROVE  /\ Period \in Nat \ {0} /\ resync.period \in Nat \ {0}
           /\ resync.clock \in Nat /\ since \in Nat /\ waited \in Nat
<1>1. Period \in Nat \ {0}
  BY TimeAssumption
<1>2. resync.period \in ResyncPeriods /\ resync.clock \in Nat
  BY DEF TypeOK
<1>3. resync.period \in Nat \ {0}
  BY <1>2, TimeAssumption
<1>4. since \in Nat /\ waited \in Nat
  BY <1>1 DEF TypeOK
<1>. QED  BY <1>1, <1>2, <1>3, <1>4


\* When the operator starts, nobody has waited.
LEMMA InitSlots == Init => SlotInv
<1>. SUFFICES ASSUME Init PROVE SlotInv
  OBVIOUS
<1>1. queue \in Seq(Jobs) /\ Once(queue)
  BY ListingsAreQueues DEF Init
<1>2. resync \in [period : ResyncPeriods, clock : Nat] /\ resync.clock = 0
  BY DEF Init
<1>3. left \in [{"create", "delete", "fault"} -> Nat]
  BY BudgetAssumption DEF Init
<1>4. Period \in Nat \ {0} /\ resync.period \in Nat \ {0}
  BY <1>2, TimeAssumption
<1>. QED
  BY <1>1, <1>2, <1>3, <1>4 DEF Init, SlotInv, TypeOK, Idle, NoWork, Slack, LongestWait

\* Reconcile waits for nobody: a dropped event tells that the last slot is less
\* than a period ago, a slot ends the wait.
LEMMA ReconcileKeepsInv ==
    ASSUME SlotInv, Reconcile
    PROVE  SlotInv'
<1>. USE DEF SlotInv, TypeOK, LongestWait, Slack
<1>0. /\ Period \in Nat \ {0} /\ resync.period \in Nat \ {0}
      /\ resync.clock \in Nat /\ since \in Nat /\ waited \in Nat
  BY TypedNumbers
<1>1. CASE Throttle
  <2>1. queue' \in Seq(Jobs) /\ Once(queue')
    BY <1>1, TailQueues DEF Throttle
  <2>2. since < Period /\ waited <= since
    BY <1>0, <1>1 DEF Throttle, needReconcile
  <2>. QED  BY <1>0, <1>1, <2>1, <2>2 DEF Throttle, Idle
<1>2. CASE TakeSlot
  <2>1. queue' \in Seq(Jobs) /\ Once(queue') /\ Head(queue) \in Jobs
    BY <1>2, TailQueues DEF TakeSlot
  <2>2. work' \in [pc : {"get", "list", "optimize"}, jobs : {{j} : j \in Jobs}]
    BY <1>2, <2>1 DEF TakeSlot
  <2>3. since' = 0 /\ waited' = 0 /\ UNCHANGED <<exists, resync, left>>
    BY <1>2 DEF TakeSlot
  <2>4. TypeOK'
    BY <1>0, <2>1, <2>2, <2>3
  <2>5. LongestWait' >= 0 /\ Period - Slack + resync'.clock >= 0
    BY <1>0, <2>3
  <2>. QED  BY <1>0, <2>3, <2>4, <2>5
<1>3. ASSUME work # NoWork, Fail, UNCHANGED <<exists, since, resync, waited>>,
             left' \in [{"create", "delete", "fault"} -> Nat]
      PROVE  SlotInv'
  <2>1. PICK j \in work.jobs : queue' = Enqueue(queue, j)
    BY <1>3 DEF Fail
  <2>2. j \in Jobs
    BY <1>3, <2>1
  <2>3. queue' \in Seq(Jobs) /\ Once(queue') /\ queue' # <<>>
    BY <2>1, <2>2, EnqueueQueues
  <2>. QED  BY <1>0, <1>3, <2>3 DEF Fail, Idle
<1>4. ASSUME work # NoWork, NEW pc \in {"list", "optimize"}, Doing(pc),
             UNCHANGED <<exists, queue, since, resync, waited, left>>
      PROVE  SlotInv'
  <2>1. work' \in [pc : {"get", "list", "optimize"}, jobs : {{j} : j \in Jobs}]
    BY <1>4 DEF Doing
  <2>2. waited = 0
    BY <1>4 DEF Idle
  <2>. QED  BY <1>0, <1>4, <2>1, <2>2 DEF Idle
<1>5. CASE GetJob
  <2>1. work # NoWork
    BY <1>5 DEF GetJob, NoWork
  <2>. QED  BY <1>3, <1>4, <1>5, <2>1 DEF GetJob
<1>6. CASE ListNodes
  <2>1. work # NoWork
    BY <1>6 DEF ListNodes, NoWork
  <2>2. left' \in [{"create", "delete", "fault"} -> Nat]
    BY <1>6 DEF ListNodes, Spend
  <2>. QED  BY <1>3, <1>4, <1>6, <2>1, <2>2 DEF ListNodes
<1>7. CASE AllocateAll
  <2>1. waited = 0
    BY <1>7 DEF AllocateAll, Idle, NoWork
  <2>. QED  BY <1>0, <1>7, <2>1 DEF AllocateAll, Idle
<1>. QED  BY <1>1, <1>2, <1>5, <1>6, <1>7 DEF Reconcile

\* An event of a job enqueues it, and its time goes on.
LEMMA EventKeepsInv ==
    ASSUME SlotInv, NEW j \in Jobs, OnJobAdd(j) \/ UpdateJob(j) \/ DeleteJob(j)
    PROVE  SlotInv'
<1>. USE DEF SlotInv, TypeOK, LongestWait, Slack
<1>0. /\ Period \in Nat \ {0} /\ resync.period \in Nat \ {0}
      /\ resync.clock \in Nat /\ since \in Nat /\ waited \in Nat
  BY TypedNumbers
<1>1. queue' \in Seq(Jobs) /\ Once(queue') /\ queue' # <<>>
  BY EnqueueQueues DEF OnJobAdd, UpdateJob, DeleteJob
<1>2. left' \in [{"create", "delete", "fault"} -> Nat]
  BY DEF OnJobAdd, UpdateJob, DeleteJob, Spend
<1>3. CASE OnJobAdd(j)
  BY <1>0, <1>1, <1>2, <1>3 DEF OnJobAdd, Idle
<1>4. CASE UpdateJob(j)
  BY <1>0, <1>1, <1>2, <1>4 DEF UpdateJob, Idle
<1>5. CASE DeleteJob(j)
  BY <1>0, <1>1, <1>2, <1>5 DEF DeleteJob, Idle
<1>. QED  BY <1>3, <1>4, <1>5

\* A resync leaves the queue empty only if there is no job.
LEMMA ResyncKeepsInv ==
    ASSUME SlotInv, Resync
    PROVE  SlotInv'
<1>. USE DEF SlotInv, TypeOK, LongestWait, Slack
<1>0. /\ Period \in Nat \ {0} /\ resync.period \in Nat \ {0}
      /\ resync.clock \in Nat /\ since \in Nat /\ waited \in Nat
  BY TypedNumbers
<1>1. PICK q \in Listings(exists \ Elements(queue)) : queue' = queue \o q
  BY DEF Resync
<1>2. /\ q \in Seq(Jobs) /\ Once(q)
      /\ Elements(q) \subseteq exists \ Elements(queue)
      /\ exists \ Elements(queue) # {} => q # <<>>
  BY ListingsAreQueues
<1>3. queue' \in Seq(Jobs) /\ Once(queue')
  BY <1>1, <1>2, ResyncQueues
<1>4. queue' = <<>> => exists = {}
  <2>. SUFFICES ASSUME queue' = <<>> PROVE exists = {}
    OBVIOUS
  <2>1. Len(queue) + Len(q) = 0
    BY <1>1, <1>2
  <2>2. queue = <<>> /\ q = <<>>
    BY <1>2, <2>1
  <2>3. Elements(queue) = {}
    BY <2>2 DEF Elements
  <2>. QED  BY <1>2, <2>2, <2>3
<1>5. /\ resync' = [resync EXCEPT !.clock = 0]
      /\ UNCHANGED <<exists, since, work, waited, left>>
  BY DEF Resync
<1>6. /\ resync' \in [period : ResyncPeriods, clock : Nat]
      /\ resync'.period = resync.period /\ resync'.clock = 0
  BY <1>0, <1>5
<1>7. TypeOK'
  BY <1>3, <1>5, <1>6
<1>8. Idle' /\ queue' = <<>> => waited' <= Period - Slack + resync'.clock
  BY <1>0, <1>4, <1>5, <1>6
<1>. QED  BY <1>0, <1>5, <1>6, <1>7, <1>8 DEF Idle

\* Time passes only while the queue is empty and the resync is not due.
LEMMA TickKeepsInv ==
    ASSUME SlotInv, Tick
    PROVE  SlotInv'
<1>. USE DEF SlotInv, TypeOK, LongestWait, Slack
<1>0. /\ Period \in Nat \ {0} /\ resync.period \in Nat \ {0}
      /\ resync.clock \in Nat /\ since \in Nat /\ waited \in Nat
  BY TypedNumbers
<1>1. resync' = [resync EXCEPT !.clock = resync.clock + 1]
  BY DEF Tick
<1>2. /\ resync' \in [period : ResyncPeriods, clock : Nat]
      /\ resync'.period = resync.period
      /\ resync'.clock = resync.clock + 1
  BY <1>0, <1>1
<1>3. waited <= Period - Slack + resync.clock
  BY DEF Tick
<1>4. /\ since' = IF since < Period THEN since + 1 ELSE since
      /\ waited' = IF exists = {} THEN 0
                   ELSE IF waited <= LongestWait THEN waited + 1 ELSE waited
      /\ UNCHANGED <<exists, queue, work, left>>
      /\ work = NoWork /\ resync.clock < resync.period
  BY DEF Tick, Idle
<1>5. since' \in 0..Period /\ waited' \in Nat /\ waited' <= waited + 1
  BY <1>0, <1>4
<1>6. TypeOK'
  BY <1>2, <1>4, <1>5
<1>7. waited' <= Period - Slack + resync'.clock /\ resync'.clock <= resync'.period
  BY <1>0, <1>2, <1>3, <1>4, <1>5
<1>8. since' < Period => waited' <= since'
  BY <1>0, <1>4, <1>5
<1>. QED  BY <1>0, <1>2, <1>4, <1>6, <1>7, <1>8 DEF Idle

\* Every step preserves the invariant.
LEMMA StepKeepsSlots ==
    ASSUME SlotInv, [Next]_vars
    PROVE  SlotInv'
<1>1. CASE UNCHANGED vars
  BY <1>1 DEF vars, SlotInv, TypeOK, Idle, LongestWait
<1>. QED
  BY <1>1, ReconcileKeepsInv, EventKeepsInv, ResyncKeepsInv, TickKeepsInv DEF Next

\* The inductive invariant of the scheduling cycle.
THEOREM SlotsAreBounded == Spec => []SlotInv
<1>. QED  BY InitSlots, StepKeepsSlots, PTL DEF Spec

\* Type correctness, and a work queue that holds no job twice.
THEOREM AllocatorTypeCorrect == Spec => []TypeOK
<1>1. SlotInv => TypeOK
  BY DEF SlotInv
<1>. QED  BY <1>1, SlotsAreBounded, PTL

\* needReconcile and updateLastTime together give some job a slot in time,
\* whatever the jitter of the resync, for as long as there are jobs.
THEOREM SlotsComeInTime == Spec => []SlotInTime
<1>1. SlotInv => SlotInTime
  BY DEF SlotInv, SlotInTime
<1>. QED  BY <1>1, SlotsAreBounded, PTL
=============================================================================
