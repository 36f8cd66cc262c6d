------------------------------ MODULE Allocator ------------------------------
(***************************************************************************)
(* The scheduling cycle of the allocator (pkg/allocator/allocator.go).     *)
(* One timestamp throttles the reconciling of all jobs: at most one event  *)
(* of any job per period is served, the others are dropped.  A slot is     *)
(* taken before the job is read, so a job that is gone or a failing list   *)
(* wastes it.  Pod and node events are watched without being enqueued, and *)
(* FitPolicy returns no allocation, so nothing is ever written.            *)
(*                                                                         *)
(* Time passes in units of the slack of one second; the worker is quicker. *)
(***************************************************************************)
EXTENDS Integers, Sequences, FiniteSets

CONSTANTS
    Jobs,          \* names of jobs
    Period,        \* scheduleDuration, which is --sync-period
    ResyncPeriods, \* the informer resyncs every 0.9 to 1.1 sync periods
    Budgets        \* how many jobs are created and deleted, and how many
                   \* calls fail, in each story

ASSUME JobsAssumption == IsFiniteSet(Jobs)
ASSUME TimeAssumption ==
    /\ Period \in Nat \ {0}
    /\ ResyncPeriods \subseteq Nat \ {0}
ASSUME BudgetAssumption ==
    Budgets \subseteq [{"create", "delete", "fault"} -> Nat]

VARIABLES
    exists,   \* the jobs in the cache
    queue,    \* the work queue
    since,    \* time since a.last, at most Period
    resync,   \* the resync: its period, and the time since the last one
    work,     \* what Reconcile is doing, and for which job
    waited,   \* history: time since the last slot, while there were jobs
    left      \* what is left of the budget

vars == <<exists, queue, since, resync, work, waited, left>>

-----------------------------------------------------------------------------
Slack == 1

Elements(q) == {q[i] : i \in 1..Len(q)}
Once(q) == \A i, k \in 1..Len(q) : q[i] = q[k] => i = k

\* Mutant: an item is queued again.
QueuesTwice(q, j) == Append(q, j)

\* The work queue holds an item once.
Enqueue(q, j) == IF j \in Elements(q) THEN q ELSE Append(q, j)

\* The orders in which the informer may list these jobs.
Listings(S) ==
    {q \in [1..Cardinality(S) -> S] : Once(q)}

NoWork == [pc |-> "idle", jobs |-> {}]
Idle == work = NoWork
Doing(pc) == work' = [work EXCEPT !.pc = pc]

Spend(kind) == left[kind] > 0 /\ left' = [left EXCEPT ![kind] = @ - 1]

\* The operator starts: the jobs there are count as added.
Init ==
    /\ exists \in SUBSET Jobs
    /\ queue \in Listings(exists)
    /\ since = 0
    /\ resync \in [period : ResyncPeriods, clock : {0}]
    /\ work = NoWork
    /\ waited = 0
    /\ left \in Budgets

-----------------------------------------------------------------------------
(* Reconcile.                                                               *)

needReconcile == Period - since < Slack

\* Mutant: an event that is dropped moves the timestamp.
ThrottleMovesLast ==
    /\ Idle /\ queue # <<>> /\ ~needReconcile
    /\ queue' = Tail(queue)
    /\ since' = 0
    /\ UNCHANGED <<exists, resync, work, waited, left>>

\* The event is dropped.
Throttle ==
    /\ Idle /\ queue # <<>> /\ ~needReconcile
    /\ queue' = Tail(queue)
    /\ UNCHANGED <<exists, since, resync, work, waited, left>>

TakeSlot ==
    /\ Idle /\ queue # <<>> /\ needReconcile
    /\ work' = [pc |-> "get", jobs |-> {Head(queue)}]
    /\ queue' = Tail(queue)
    /\ since' = 0 /\ waited' = 0
    /\ UNCHANGED <<exists, resync, left>>

\* An error puts the job back into the queue some milliseconds later.
Fail ==
    /\ work' = NoWork
    /\ \E j \in work.jobs : queue' = Enqueue(queue, j)

GetJob ==
    /\ work.pc = "get"
    /\ \/ work.jobs \subseteq exists /\ Doing("list") /\ UNCHANGED queue
       \/ ~(work.jobs \subseteq exists) /\ Fail
    /\ UNCHANGED <<exists, since, resync, waited, left>>

\* The nodes and the pods are listed.
ListNodes ==
    /\ work.pc = "list"
    /\ \/ Doing("optimize") /\ UNCHANGED <<queue, left>>
       \/ Spend("fault") /\ Fail
    /\ UNCHANGED <<exists, since, resync, waited>>

\* allocateAll, for this one job; the allocations are logged only.
AllocateAll ==
    /\ work.pc = "optimize"
    /\ work' = NoWork
    /\ UNCHANGED <<exists, queue, since, resync, waited, left>>

Reconcile == Throttle \/ TakeSlot \/ GetJob \/ ListNodes \/ AllocateAll

-----------------------------------------------------------------------------
(* Events of jobs, each of which enqueues the job.                          *)

\* The add handler finds no initial allocation to write.
OnJobAdd(j) ==
    /\ j \notin exists /\ Spend("create")
    /\ exists' = exists \cup {j}
    /\ queue' = Enqueue(queue, j)
    /\ UNCHANGED <<since, resync, work, waited>>

UpdateJob(j) ==
    /\ j \in exists
    /\ queue' = Enqueue(queue, j)
    /\ UNCHANGED <<exists, since, resync, work, waited, left>>

\* Nobody waits when there is no job.
DeleteJob(j) ==
    /\ j \in exists /\ Spend("delete")
    /\ exists' = exists \ {j}
    /\ queue' = Enqueue(queue, j)
    /\ waited' = IF exists' = {} THEN 0 ELSE waited
    /\ UNCHANGED <<since, resync, work>>

Resync ==
    /\ resync.clock = resync.period
    /\ resync' = [resync EXCEPT !.clock = 0]
    /\ \E q \in Listings(exists \ Elements(queue)) : queue' = queue \o q
    /\ UNCHANGED <<exists, since, work, waited, left>>

\* A period and a resync, without the slack; counting stops just above.
LongestWait == Period - Slack + resync.period

\* Time passes when the worker has nothing to do.
Tick ==
    /\ Idle /\ queue = <<>>
    /\ resync.clock < resync.period
    /\ resync' = [resync EXCEPT !.clock = @ + 1]
    /\ since' = IF since < Period THEN since + 1 ELSE since
    /\ waited' = IF exists = {} THEN 0
                 ELSE IF waited <= LongestWait THEN waited + 1 ELSE waited
    /\ UNCHANGED <<exists, queue, work, left>>

Next ==
    \/ Reconcile \/ Resync \/ Tick
    \/ \E j \in Jobs : OnJobAdd(j) \/ UpdateJob(j) \/ DeleteJob(j)

Spec == Init /\ [][Next]_vars

\* The worker works, the informer resyncs, and time passes however many updates
\* there are: only finitely many of them come within one unit.
Fairness == WF_vars(Reconcile) /\ WF_vars(Resync) /\ SF_vars(Tick)
FairSpec == Spec /\ Fairness

-----------------------------------------------------------------------------
(* Properties.                                                              *)

\* Every variable has its type, and the queue holds no job twice.
TypeOK ==
    /\ exists \subseteq Jobs
    /\ queue \in Seq(Jobs) /\ Once(queue)
    /\ since \in 0..Period
    /\ resync \in [period : ResyncPeriods, clock : Nat]
    /\ work \in {NoWork} \cup
            [pc : {"get", "list", "optimize"}, jobs : {{j} : j \in Jobs}]
    /\ waited \in Nat
    /\ left \in [{"create", "delete", "fault"} -> Nat]

\* While there are jobs, some job gets a slot after a period and a resync at
\* the latest: a resync that comes a bit too early is made up for by the next.
SlotInTime == waited <= LongestWait

\* A job that stays alone is optimised over and over again, although others,
\* once deleted, and failing calls have wasted slots.
LoneJobOptimized ==
    \A j \in Jobs :
        <>[](exists = {j}) => []<>(work = [pc |-> "optimize", jobs |-> {j}])
=============================================================================
