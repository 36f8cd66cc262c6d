# A verification of DI Orchestrator

TLA+ models of the operator of DI Orchestrator, the TLC runs that check them and
the theorems about them that TLAPS checks. Paths are relative to the repository;
lines are those of the commit the models were written from.

## 1. The system

The operator (`cmd/operator`) runs two controller-runtime controllers in one
process, over the same informer caches: the **DIJob controller** and the
**Allocator**. The **DI Server** (`cmd/server`) is a process of its own. All of
them meet in the Kubernetes API server: a `DIJob` object with its spec and
status, one pod per replica, one headless service per job.

| Component | State it keeps | Operations | What makes it correct |
|---|---|---|---|
| DIJob controller, pass (`pkg/controllers/dijob.go`, `dijob_controller.go`, `pkg/context/pod.go`) | none of its own; a pass works on copies of the cached job and pods | `Reconcile`: by phase, create, delete, or write the next phase | the job ends up with the replicas of its spec or is over; ranks are unique; pods that work are left alone; a finished job stays finished |
| DIJob controller, event handlers (`handler.go`, `dijob_controller.go`) | none; each event carries an old and a new object | add: write Pending; update: count restarts and reschedules, set the completion timestamp | every restart is counted once |
| DIJob status (`pkg/context/status.go`) | phase, conditions, restarts, reschedules, replica numbers, allocation, profilings, completion timestamp | one function per group of fields: Get from the cache, overwrite, Update, retry for a second, give up | writers do not undo each other; the limit on restarts holds |
| Services (`reconcileServices` in `dijob.go`, `DeletePodsAndServices` in `pod.go`) | none | creates the headless service after the pods; deletes it before those of a job that is over | a job at work has its service, one that is over has none |
| Allocator (`pkg/allocator`) | `last`, the time of the last pass over any job | on a job's creation: allocate; per scheduling period: optimise | slots are not lost for longer than a period and a resync; a job alone is optimised for ever |
| DI Server (`pkg/server`) | none | get, add, delete replicas; post profilings | the table of addresses fits the ranks that were given out, with a cache of any age |
| Validation and default names (`pkg/utils/validator.go`, `SetDefaultJobNameInCluster`) | none | reject or complete a job | names are unique, a good job is not rejected, a bad one fails |

How they interact:

* The **API server** is the only shared store. An `Update` is refused when the
  object it was made from is not the current one. `Get` and `List` go to the
  caches, which trail the store by an unknown time, each kind on its own.
* The **work queue** runs at most one pass per job at a time, after events of
  the job, its pods and services, and at each resync. `Reconcile` returns no
  error, so a pass that fails is not repeated before the next event or resync.
* The **update handler** runs in the informer's delivery goroutine, concurrently
  with passes, and blocks up to a second per write.
* The **kubelet**, the **scheduler**, node drains and users change pods and jobs
  at any time.

What is hard here: a pass decides on old copies and acts on the present; its
effects (several creations and deletions, then one status write) are not atomic
and the operator may stop between any two; the status write may be lost while
the effects stand; the restart counter is incremented by another goroutine than
the one that compares it with the limit; pods are deleted by name, and names are
reused. `PROJECT.json` lists the hazards line by line, and says of those no property covers
why not.

## 2. Modules

| Module | Extends | What it is |
|---|---|---|
| `DIJobController` | | one job, its pods, the pass, the update handler, the two caches, and the environment (kubelet, user, allocation, faults, crashes) |
| `JobLifecycle` | | what the phase promises to whoever watches the job, and what is left of that when restarts may go uncounted (`LossySpec`); `DIJobController` implements it when caches keep up |
| `JobServices` | `DIJobController` | the headless service as a further part of the pass |
| `DIServer` | `JobServices` | the DI Server answering requests while the operator works |
| `JobStatus` | | one job and everybody in the operator who writes it, group of fields by group of fields, with naming and validation |
| `Allocator` | | the scheduling cycle: throttle, work queue, resync |
| `Validation`, `PodCounts` | | pure functions for inputs of any size, with their theorems |
| `MCDIJobController`, `MCDIServer`, `MCJobStatus`, `MCAllocator` | | constant values for TLC |
| `DIJobControllerProofs`, `DIJobControllerExact`, `DIJobControllerPods`, `DIServerProofs`, `JobStatusProofs`, `AllocatorProofs` | | the theorems; the first four build on one another in this order |

### DIJobController

State:

* `jobs`, `seen`: the versions of the DIJob. The first is the last one the update
  handler has processed, the last one is what the API server holds, `jobs[seen]`
  is what the cache holds. A version keeps the fields control depends on: phase,
  restarts, the replicas of each task, the allocation; `entries` is a history
  variable counting how often the phase became Restarting.
* `pods`, `pcache`: the pods in the API server and in the cache, by task and
  local rank, which make up the pod's name. A pod has a state (Pending,
  Scheduled, Ready, Succeeded, Failed, Killed for exit code 143, Rejected for a
  refusal by the node), a deletion mark, and the annotations rank, replicas and
  node.
* `rec`: the pass: what it read, the phase it will write, the pods still to
  delete and to create.
* `left`: what is left of the budget of disruptions.

Actions follow the code: `BeginPass` is the `Get` of `Reconcile`; one action per
case of the switch in `reconcileWithJobStatus` takes the list of pods and decides
(`ReconcilePending` ... `ReconcileRescheduling`, `CleanUp`); `DeletePod`,
`CreatePod`, `CreateFails`, `BuildPodPanics` are single API calls;
`FinishPass` is the deferred status write, which succeeds, changes nothing, or
times out. `HandleJobUpdate` is one update event with its write.
`SetDefaultJobNameInCluster` writes the object back before the pods are listed,
so listing waits for a fresh job or, if that write times out, goes on with a
stale one. `Crash` loses the pass and the unhandled events; `Restart` follows a
panic. With `Lagging = FALSE` a pass only starts once the handler and the job's
cache are up to date and lists up-to-date pods; with `Lagging = TRUE` there is no
such condition.

Abstractions, and why they are faithful to what the properties tell apart:

* Replica numbers, conditions, timestamps and events change no decision
  modelled here. A write to them makes a version of the job equal to the last
  one in the fields kept and is not a step; the conflict it may cause is covered
  by the budget of timeouts, that is, a status write that is given up.
* Annotations are parsed without error, as `BuildPod` wrote them.
* The pod phase Unknown is left out, which Kubernetes no longer sets and the code takes
  for a failure (`util.go:257`); a failure is `Failed`.
* The job's cache takes the versions one by one; the pod cache skips to the pods there
  are. So a list is of some earlier moment, as stale as can be, but two lists of
  different earlier moments do not follow each other.
* Pods have one container, so counting ready containers is counting pods
  (`PodCounts` proves this, and what happens with more).
* Event handlers change the object of the cache in place before they write it. The
  model shows the count to passes only once it is written; `JobStatus` models the
  change in place.
* A job is past the add handler and past validation, both of which are in
  `JobStatus`. A task has its replicas, at least one (the CRD's minimum), or is
  absent, written 0.
* `MaxBacklog` bounds `jobs` for the writes that grow it; the writes of the
  handler consume a version first. `Budgets` bounds disruptions. Neither limits
  the operator's own steps otherwise.

### JobServices and DIServer

`JobServices` composes the controller with the service: the API server's, the
cache's (`scache`), and what the pass has still to do with it (`due`), set when
the pods are listed. `CreateService` comes after the pods, and only if
`reconcilePods` returned no error (`EndsAtStray`, and the `due'` of `CallPods`);
`DeleteService` comes before the pods, and not at all when there are none. The
handler, the pods and the user take their steps of `DIJobController` unchanged.
All services of a job have the same name, so the branch for more than one
(`dijob.go`, `reconcileServices`) cannot be reached.

`DIServer` adds the server's pod cache `spods`, which trails on its own, the last
answer, and a history variable `steady` (the job was never Restarting or
Rescheduling). `GetReplicas` builds the table of addresses: as long as the
annotation of the first pod with an IP says, for any order of the list, indexed by
ranks, with the panic that gin turns into an error. `AddOrDeleteReplicas` and
`PostProfilings` are the handlers with the writes at their end:
`UpdateJobAllocationInCluster` compares old with new and returns, as only replicas
changed; profilings are a struct without fields, so they are always equal. The
model has the writes and their guards; that they never get past the guards is a
result, not an assumption. Requests for jobs that do not exist are left out.

### JobStatus

The other half of the same code: what `DIJobController` knows in detail, the pods
and what a pass makes of them, is left open here, and what it leaves out is
spelt out: the conditions, both counters, the ready replicas and task numbers, the
completion timestamp, the add handler, naming and validation, and each of the
writes of `pkg/context/status.go` with the fields it takes from its caller and
those it takes from the cache.

State: `api`, the job in the API server; `log`, the objects the informer
received, of which the handlers are at the first and `seen` is the index of the
one in the cache; `pass` and `handler`, each with the copies `old` and `new` it
works on; `entered`, a history of how often the job became Restarting and
Rescheduling; `left`, the budget of writes given up, of edits and of crashes.

* `HandleJobAdd` and `HandleJobUpdate` change the object in `log` itself, as the
  handlers change the object the informer gave them. A pass that reads the cache
  (`ReadJob`) gets a copy of what they left there.
* `UpdateInCluster` is the pattern of all writes: nothing if `old` and `new` agree
  in the group; else the cached object with the group taken from `new`, accepted
  if the cache is current; or given up. `WithPhase`, `WithCounts`, `WithNumbers`
  are the groups; the last one carries the completion timestamp too.
* `SetDefaultJobNameInCluster` reads the job again and names the tasks both of what
  it writes and of the pass's copy, the latter also when the write is refused
  (`NamingIsRefused`). `Decide` validates that copy; a job that is not valid fails
  (`reject`), one that is over is cleaned up, any other gets one of the phases
  `reconcileWithJobStatus` may set from the one read (`NextPhases`) and any
  replica numbers.
* The tasks of a spec are `named`, `unnamed` or `invalid`. What this takes for granted
  of lists of tasks is checked against `Validation` by an assumption of
  `MCJobStatus` (`SpecsStandForTasks`).
* The reason of a condition follows from its type, so a condition is its type and
  whether it is True. `tasks` stands for a non-empty `taskStatus`, `sized` for
  `replicas` being what the spec asks for: the first pass that looks at the pods sets
  it, and as an edit keeps the number of replicas no other does. The three and the
  ready replicas decide whether the numbers are written at all (`SameNumbers`).
* The allocation is in `DIJobController` and `DIServer`. The deletion of a finished
  job's pods, which comes before its numbers are cleared, is taken to succeed: an
  error there ends the pass without the write, and a later pass comes back to it.

### Allocator

State: the jobs there are, the work queue, the time `since` the last slot (the
field `last`), the resync's clock, what the worker is doing, and a history
`waited`. A reconcile either drops the event (`Throttle`) or takes the slot
(`TakeSlot`) *before* it reads the job and lists nodes and pods; those may fail
(`Fail`), which puts the job back into the queue, where the fresh timestamp
drops it. `OnJobAdd`, `UpdateJob` and `DeleteJob` enqueue; pod and node events are
watched without being mapped to a job. `Resync` enqueues everything, in any order,
every 0.9 to 1.1 sync periods. Time is counted in units of the slack of one second
and stands still while the worker works: a reconcile is quick. Nothing is
ever written, as `FitPolicy` returns no allocation; the arithmetic of resources that
feeds it is left out for that reason.

### Validation and PodCounts

Translations of functions without state, for lists and sets of any size, so that
theorems say what a run over small inputs could not: `Validation` names tasks and
validates them; `PodCounts` counts scheduled conditions, ready containers and the
pods a node is charged for.

## 3. Runs

Bounds of the controller: up to two tasks and two replicas, a restart limit of 1,
at most three versions of the job not yet handled. Two pods are what ranks, counts
and partial creations need to go wrong; a limit of 1 reaches both a restart and
giving up within two failures; three versions let an event be overtaken by two
writes. Disruptions come in `Budgets`, a set with one budget per story; a run covers
all of them from its initial states. `Served` has one task of one replica, with three
failures and a crash, which may come between a restart and its counting, or a failing call
or a deleted service around a scaling to two replicas: the server adds a cache and no
step that disturbs the operator. The runs of
`JobStatus` have one ready replica, which tells "ready" from "none", at most
`MaxEntries` entries into Restarting and as many into Rescheduling, and a pass adds a
version only while `MaxBacklog` allows; handlers add theirs on top. `Slots` has two
jobs, enough for one to take the other's slot, a period of ten units, and a resync
after nine to eleven, so that a resync may come both before and after the slack.

| Run | Checks | Shows |
|---|---|---|
| `Prompt` | `TypeOK`, `RanksDistinct`, `BackoffRespected`, `RestartsExact`, `TerminalAbsorbing`, `ReadyPodsKept`, `FollowsLifecycle`, `SettlesOrStuck` | with caught-up caches, two tasks, and two failures with an eviction, one failure with an eviction and a failing call, or a failure or a failing call and a user who grows, moves or removes tasks |
| `Lagging` | `RestartsNotOvercounted`, `NoEarlyFailure`, `SettlesOrStuck` | with stale caches: a failure, a crash and a lost write; a failure and scaling; a pod evicted and one refused |
| `PreemptibleSettles` | `PanicsExplained`, `SettlesOrStuck` | a preemptible job that is reallocated while a pod fails or is killed, with stale caches: where it ends, and what a panic takes |
| `Served` | `ServerTypeOK`, `SteadyAnswers`, `FollowsLossyLifecycle`, `RestartsNeverFall`, `ServiceKept`, `RunningIsServed`, `ServiceRemoved`, `RunningIsAnswered` of `DIServer`, `JobServices` and `DIJobController` | the service comes and goes with the job, no sooner, and the server's answers fit it; the job keeps its lifecycle and the count it has shown although the operator may crash before it has counted a restart |
| `StatusWriters` | `TypeOK`, `ConditionFollowsPhase`, `CountsSound`, `EndsUnready`, `InvalidFails` of `JobStatus` | all writers of an unnamed or invalid job with stale caches, objects changed in place, and a write given up, an edit of the tasks, or a crash |
| `Slots` | `TypeOK`, `SlotInTime`, `LoneJobOptimized` of `Allocator` | slots come in time although events are dropped and slots wasted |
| `PendingAfterCrash` | violates `PendingProgresses` | a crash between two creations leaves the job Pending for good |
| `SucceededEarly` | violates `SucceededMeansAll` | an eviction makes the other replica's success the job's |
| `StaleRanks` | violates `RanksDistinct` | stale pod lists give a rank twice |
| `EmptyAllocation` | violates `NoPanic` | a preemptible job without allocation panics the operator |
| `CompletionLost` | violates `CompletionRecorded` | a job ends without a completion timestamp, with nothing lost and no crash |
| `ValidRejected` | violates `RejectsOnlyInvalid` | a pass whose copy is older than the names in the cache fails a valid job, which a user has named just then |

`SettlesOrStuck` is the answer to "does the operator do its work": once
disruptions end, the job is over, or has the replicas its spec asks for and goes
about its work, or stays in one of the dead ends the code has. Those are
spelt out and nothing else is let through:

* `PendingStuck`: Pending with some pods, none terminating (`dijob.go:69-81`);
* `IgnoredStuck`: a pod neither ready nor failed: refused by its node, or killed
  while preemptible (`util.go:257-272`);
* `StrayStuck`: scaling down kept a replica the task no longer has, which stops
  `createMissedReplicas` (`dijob.go:262-271`, `291-294`);
* `MisplacedStuck`: the number of pods is right but they are other tasks'
  replicas (`dijob.go:234`), or the job is preemptible, where missing pods are
  not looked for (`dijob.go:237-253`);
* a panic over and over again: an allocation index out of range after a
  reallocation (`pod.go:37`, `dijob.go:249`).

`RanksDistinct`, `BackoffRespected`, `RestartsExact` and `TerminalAbsorbing` hold
with caught-up caches and are not claimed of stale ones; `StaleRanks` shows the
first of them failing there. `RestartsNotOvercounted` and `NoEarlyFailure` are
what is left of the counting when caches are stale and writes are lost.

`FollowsLossyLifecycle` is what is left of `FollowsLifecycle` when writes are lost or the
operator crashes but passes start from caught-up caches: every change of the phase is
still one of the lifecycle, a restart may go uncounted, and no job is given up before
its limit. `Served` reaches a restart that is never counted, and a job that for this
reason fails one restart later than its limit says. `RestartsNeverFall` needs caught-up caches
too: the handler writes the count of the version it was given over whatever the job is by
then, so that with stale caches the handling of an old event takes back what a later one
has counted (TLC shows it with the constants of `Lagging`); that no restart is then
counted twice, and none forgotten so that the job fails early, is what
`RestartsNotOvercounted` and `NoEarlyFailure` say.

`ReadyPodsKept` says when a deletion may cost a pod that is ready: only while more pods of
its type live than the job wants of it, which is the replicas of all tasks of the type
(`Wanted`). The code goes by the last task of a type instead (`TypeNum`, `dijob.go:260`),
and the validator lets several tasks be of type none. So the property is claimed of tasks
of different types, as in `Prompt`; with two tasks of type none TLC finds it violated when
one of them is scaled down from two replicas to one, and `SharedTypesAreForgotten` proves
that the code then keeps too few.

The property is about each single deletion, not about what was listed, and needs that no pod is evicted while the job is scaled (`Unmixed`, as in the
budgets of `Prompt`): surplus pods are chosen from a list and deleted one by one, so when
a replica is evicted after a scaling down was listed, the deletion of the other one is no
longer of a surplus pod. A preemptible job is excluded, as it is rescheduled by
deleting all its pods, and so is the phase Pending, whose repair deletes the whole list
(`dijob.go:78`).

`PanicsExplained` is stronger than it looks: `pod.go:37` and `dijob.go:249` index the
allocation by a rank, and ranks come from counting, from the highest rank listed, and from
annotations of pods that may be older than the allocation. It says that only two things
lead there, whatever the age of the caches: more replicas wanted than nodes allocated, or
a restart, whose ranks start above those in use.

`SteadyAnswers` and `RunningIsAnswered` stop at the first restart or rescheduling: from
then on pods of different generations are listed together, of which the older say how
long the table is while the newer have ranks beyond it, and a GET may fail. The service
may be missing while the job restarts for ever at a stray replica; `RunningIsServed`
is claimed of a job that stays Running.

`SlotInTime` is a statement about all jobs together. Which of several jobs gets the slot
depends on the order of the queue after a resync, and the code does nothing to
alternate, so `LoneJobOptimized` is claimed of a job that is alone in the end.

Every property of a passing run has a mutant, a small wrong change of one
definition (`\* Mutant` in the module) under which TLC finds the property
violated.

### Fairness

`FairSpec` of `DIJobController` assumes weak fairness of the pass (`PassStep`: the
resync of controller-runtime starts a pass again and again, and a pass runs to its
end), of event handling, of cache updates, of the restart of a panicked operator
(its Deployment), and of the scheduler and kubelet starting and removing pods. No
failure, eviction, crash, edit or completion of a pod is ever forced. In
particular a pod may be Ready for ever, and a status write is not assumed to
succeed: it may time out as long as the budget lasts.

`FairServerSpec` assumes the same of the composition, where the pass now includes
the service, and of the two further caches. Nobody has to send a request.

In `JobStatus` the pass, the handlers and the cache are weakly fair in the same
way; `EndsUnready` is claimed of behaviours in which no write is given up.

In `Allocator` the worker and the resync are weakly fair, and time is strongly fair:
updates of a job may come at any moment, each keeping the worker busy for an instant,
but only finitely many of them come within a unit of time. A Zeno behaviour is
all that this excludes.

### Findings

The six violations above are differences between the code and what the
repository says of it, or plain errors; `PROJECT.json` quotes the lines.

`ValidRejected` needs somebody else between the two reads of a pass: a user, or an
earlier pass that named the tasks and then gave up writing its numbers. If it does write
them, `replicas` at least is new, the cache must have the names by then, and so has the
copy of the next pass.

`docs/architecture.md:132-133` words two transitions in another way than the figure above
it: a failed worker makes the job Failed, and a rescheduled job is Restarting. In the
code, in the figure and in the tests (`dijob_controller_test.go:69-80`, `97-150`) a failed
worker makes it Restarting until the limit, and a rescheduled job is Rescheduling. The
model follows the code; no run is spent on the wording.

Some further differences met while modelling follow from the code without a run,
since a write that never happens has no behaviour to show: requests to add or delete
replicas and to post profilings have no effect beyond their answer
(`docs/architecture.md:179-181` says otherwise), and it is the jobs that are *not*
preemptible they would change (`processor.go:65`, against `architecture.md:179`);
`FitPolicy` allocates nothing; a job may be passed over by the
allocator for ever while another takes each slot (`docs/architecture.md:198`).

## 4. Proofs

Every theorem is proved for all values of the constants: any number of tasks,
replicas, jobs and nodes, any limit, backlog, set of edits and budget. The only
assumptions are those the modules declare (the values have the right types, `NoNode`
is not a node, sets that must be finite are).

### DIJobControllerProofs: with caches of any age

| Theorem | Statement |
|---|---|
| `TypeCorrect` | `Spec => []TypeOK` |
| `RestartsCounted` | `Spec => []CountInv` |
| `CountingIsSound` | `Spec => []RestartsNotOvercounted` |
| `FailuresAreLate` | `Spec => []NoEarlyFailure` |
| `RanksStayDistinct` | `~Lagging => (Spec => []RanksDistinct)` |

`NoEarlyFailure` and `RestartsNotOvercounted` are not inductive: a pass acts on
the count it read, and an event still to be handled carries a count from before
other writes. `CountInv` says that no version in the log counts more restarts
than had been made at the *first* version of the log, the one the handler has
processed; that each event that will be counted stands for an entry not counted
yet; and that neither the job a pass has read nor its decision to give up is
ahead of that first version. Handling an event then moves the bound by exactly
the entry it counts, whatever the present count is overwritten with.

`RanksDistinct` is strengthened by `RankInv`: while a pass with pods to create is
running, the ranks still to be given out lie above those of every live pod. This
uses that the list was up to date (`~Lagging`) and that only the pass creates
pods.

### DIJobControllerExact: with caught-up caches

`Calm` is `~Lagging` and budgets without lost writes and crashes.

| Theorem | Statement |
|---|---|
| `TerminalStays` | `~Lagging => (Spec => TerminalAbsorbing)` |
| `VersionsExact` | `Calm => (Spec => []ExactInv)` |
| `RestartsCountedExactly` | `Calm => (Spec => []RestartsExact)` |
| `LimitRespected` | `Calm => (Spec => []BackoffRespected)` |
| `ImplementsLifecycle` | `Calm => (Spec => FollowsLifecycle)` |
| `ImplementsLossyLifecycle` | `~Lagging => (Spec => FollowsLossyLifecycle)` |
| `CountNeverFalls` | `~Lagging => (Spec => RestartsNeverFall)` |

`TerminalStays` rests on `PhaseInv`: a pass under way knows the phase the job has, since
only passes change it, and with a job that is over it means to change nothing.

Exact counting needs more: between the pass that writes Restarting and the handler that
counts it, users may add versions. A pass starts only when the handler has caught up, so
the versions not handled yet show at most one change of the phase. `ExactInv` says so,
and that while the handler has not seen that change nothing after it is counted, while
once it has, the last version counts every restart; and that a pass under way read an
exact count that every version since still has. So it restarts the job only within the
limit. It is this that a lost write breaks, which is why the theorem assumes `Calm`.

`ImplementsLifecycle` is the refinement of `JobLifecycle` under
`phase <- Latest.phase, entries <- Latest.entries`. Beside `ExactInv` it rests on
`LawInv`: the phase a pass means to write is one the lifecycle allows from the phase it
read (`Leads`), including the limit. Every step is then a step of `JobLifecycle` or
leaves both unchanged.

Without `Calm`, `ExactInv` is lost and with it the exact limit, but neither `PhaseInv` nor
`LawInv`: `ImplementsLossyLifecycle` combines them with `NoEarlyFailure`, proved for caches
of any age, into the refinement of `LossySpec` by every step.

`CountNeverFalls` rests on the part of `ExactInv` that lost writes and crashes leave
(`ShownInv`): the versions not handled yet show at most one change of phase, and until the
handler has seen it they all show the same count. So the count in the event that the
handler is given is the present one, and writing it back, or one more, takes nothing
away.

### DIJobControllerPods: the pods

| Theorem | Statement |
|---|---|
| `ReadyPodsAreKept` | `~Lagging /\ ~Preemptible /\ Unmixed /\ DistinctTypes => (Spec => []KeepInv /\ ReadyPodsKept)` |
| `SharedTypesAreForgotten` | two tasks of one type, both with replicas: `TypeNum(v, type) < Wanted(v, type)` |
| `PanicsAreExplained` | `Spec => []PanicsExplained` |
| `OnlyPreemptiblePanics` | `~Preemptible => (Spec => []NoPanic)` |

`ReadyPodsKept` looks at the pods when one is deleted; the decision is made when they are
listed, and between the two the kubelet, the user and other deletions change them.
`KeepInv` is about the pods still to delete: each is past being ready (`Spent`), which no
step undoes, or, without all those still to delete, as many pods of its type live as the
job wants (`Spared`), which each deletion keeps, as it takes one of the others. That the plan of
`deleteRedundantReplicas` leaves it so is a fact about sets: of a type with at least as
many pods as are wanted exactly the wanted number is kept (`PlanSparing`). The second
alternative survives only if no live pod vanishes otherwise, hence `Unmixed`: as
long as nobody has scaled the job there is no surplus to delete, since a started job
never has more live pods than it wants (`Unscaled`), and when somebody has,
nothing is evicted. `Cardinality` enters by lemmas of the library (`PodsCount`).

`KeepInv` counts with `TypeNum`, as the code does; `ReadyPodsKept` asks for `Wanted`. For
tasks of different types the two are equal (`TypeNumIsWanted`), as a type is then that of
one task, whose pods are counted by a bijection with their local ranks (`TaskReplicas`).
`SharedTypesAreForgotten` shows that the hypothesis is needed: the last task's pods and
one more of the other's are all wanted.

`PanicInv` says that up to the first restart the pods listed or stored were built in
series from rank 0, each rank below the number of replicas beside it (`InPlace`), and
that what a pass has still to build fits as well. This needs no fresh cache: an old
list holds pods of an older series, of which the same is true, and `RankInv`, that ranks are
distinct, is not used. A job that is not preemptible never looks at its allocation, so
`PanicInv` is then `NoPanic`.

### DIServerProofs: the composition

| Theorem | Statement |
|---|---|
| `ServerTypeCorrect` | `ServerSpec => []ServerTypeOK` |
| `SteadyJobsAnswer` | `~Lagging => (ServerSpec => []SteadyAnswers)` |
| `ServerKeepsCounting` | `ServerSpec => []KnownInv /\ [](RestartsNotOvercounted /\ NoEarlyFailure) /\ []PanicsExplained` |
| `ServerFollowsLifecycle` | `~Lagging => (ServerSpec => FollowsLossyLifecycle /\ TerminalAbsorbing /\ RestartsNeverFall /\ []RanksDistinct)` |
| `ServerCountsExactly` | `Calm => (ServerSpec => [](RestartsExact /\ BackoffRespected) /\ FollowsLifecycle)` |
| `ServerKeepsReadyPods` | `~Lagging /\ ~Preemptible /\ Unmixed /\ DistinctTypes => (ServerSpec => ReadyPodsKept)` |
| `ServiceStays` | `~Lagging => (ServerSpec => ServiceKept)` |

`ServiceSteps` shows that a step of the composition is a step of the controller or one
that, as far as the controller is concerned, at most forgets deletions and spends the
budget of faults (`ServiceFault`). Each inductive invariant of the controller survives
that (`FaultsKeep`), and so do its properties (`ServerKeepsKnown`): what was proved of the
controller alone is not lost by composing it. `ServiceStays` adds that the service is due
for deletion only in a pass over a job that is over (`DueInv`); with `PhaseInv` the job
still is when the call is made.
 `SteadyInv` is about the pods in the API server *and*
in the server's cache: each could be entered into one table (`Tabled`), and while a pass
creates pods, the ranks still to come and the number still to create add up to
the replicas (`FirstPods`). That a pass without restarts creates either no pod or all of
them, from rank 0, is `CreatesAllOrNone`; that the count goes down by one with each
needs a first missing pod, which is `FirstIsMissing`.

### JobStatusProofs

| Theorem | Statement |
|---|---|
| `StatusesStayCoherent` | `Spec => []StatusInv` |
| `StatusTypeCorrect` | `Spec => []TypeOK` |
| `ConditionsFollow` | `Spec => []ConditionFollowsPhase` |
| `CountsAreBounded` | `Spec => []CountsInv` |
| `CountsAreSound` | `Spec => []CountsSound` |

`ConditionFollowsPhase` speaks of the API server, but what is written there comes
from copies of any age and from objects changed in place. `StatusInv` therefore
asks for the same of every object in the log and of both copies of the pass and
of the handler; it is `TypeOK` with the statuses restricted to coherent ones. It
is preserved because phase and conditions are one group of every write
(`GroupsKeepCoherent`) and because the only function that sets a phase sets its
condition (`UpdateKeepsCoherent`).

`CountsSound` compares the counters with how often the job was restarted and
rescheduled, but the objects in the log do not say how often that had happened when they
were current. `CountsInv` asks for *some* assignment `f` of such numbers to the
objects of the log: rising at each object that will be counted, ending at most
at `entered`, and with its first value bounding every counter held anywhere. A handled
event moves the bound from `f[1]` to `f[2]`, a write appends a value.

### AllocatorProofs, Validation, PodCounts

| Theorem | Statement |
|---|---|
| `AllocatorTypeCorrect` | `Spec => []TypeOK`, no job queued twice |
| `SlotsAreBounded`, `SlotsComeInTime` | `Spec => []SlotInv`, `Spec => []SlotInTime` |
| `NamedIsValidated` | named tasks pass the validator exactly when they were well formed |
| `LateCopyIsRejected` | a copy older than the names in the cache is rejected, for every list with two unnamed tasks |
| `ReadyCountsPods`, `SidecarsOvercount` | counting containers counts pods if there is one each, and too many if there are two |
| `ChargedWhenBound` | which pods a node is charged for |

`SlotInTime` follows from `SlotInv`: while slots are refused, nobody has waited longer
than since the last one; and when the queue is empty, the wait is bounded by the
period, less the slack, and the resync's clock.

### Only model-checked

Liveness (`SettlesOrStuck`, `RunningIsServed`, `ServiceRemoved`, `RunningIsAnswered`,
`EndsUnready`, `InvalidFails`, `LoneJobOptimized`) is out of the prover's reach: it needs
fairness and `ENABLED`. All other properties of the passing runs are theorems, under the
hypotheses their tables give. `SpecsStandForTasks` in `MCJobStatus`, an assumption about
bounded lists that links two modules, is evaluated by TLC.

## 5. Plan and what is left

Done, in the order of importance: the controller, the writers of the status, the
refinement of the lifecycle, the services, the server, the allocator, validation and
counting, and the proofs of all safety properties of the passing runs.

Left, should it become worth while:

1. An allocation policy: once `FitPolicy` allocates, `Allocator` and `DIJobController`
   are to be composed through `status.allocation`, and the arithmetic of resources
   begins to matter.
2. Writes of the server: once replicas or profilings are written, "requests take effect
   or fail" becomes an abstract specification for `DIServer`.
3. A job that becomes invalid while it has pods: it fails (`InvalidFails`), and its pods
   stay, since a failed job that is not valid is not cleaned up. The composition has
   valid jobs only.

### Not modelled

* Command line, environment and configuration (`cmd/`, `pkg/common/config.go`), logging
  and event recording: no state that changes while the program runs.
* The HTTP layer and the answers for jobs that do not exist.
* `CleanUpJob` and `WaitForAllReplicas` (`pkg/context/job.go:14-66`): called by tests only.
* `MarkIncorrectJobFailed`: for objects of another type, which a typed informer does
  not deliver.
* The branch of `reconcileServices` for several services: they would have one name.
* Generated deep copies, CRDs, the Helm chart, `hack/`, `e2e`.
