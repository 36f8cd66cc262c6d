------------------------------ MODULE JobStatus ------------------------------
(***************************************************************************)
(* One DIJob and everybody who writes it: the passes of the reconciler,    *)
(* which name the tasks, validate the spec and write the status, the add   *)
(* handler and the update handler (pkg/context/status.go, pkg/controllers/ *)
(* dijob_controller.go, handler.go and updateStatusReplicas of dijob.go),  *)
(* and the user.  What a pass finds the pods in is left open;              *)
(* DIJobController models that.                                            *)
(*                                                                         *)
(* The handlers change the object they are given before they write it, and *)
(* that object is the one in the informer cache until a newer one replaces *)
(* it: whoever reads the cache sees what was never written.                *)
(***************************************************************************)
EXTENDS Naturals, Sequences

CONSTANTS
    BackoffLimit,  \* spec.backoffLimit
    MaxReady,      \* bound on the number of ready replicas
    MaxEntries,    \* bound on how often the job restarts or is rescheduled
    MaxBacklog,    \* bound on the versions the update handler has not seen
    InitSpecs,     \* what the tasks may look like when the job is submitted
    Budgets        \* how many writes are given up, how many edits of the
                   \* spec and how many crashes there are, in each story

\* What the tasks of the spec look like: two tasks of different types, with
\* names or without, or two tasks of one type.
Specs == {"named", "unnamed", "invalid"}

ASSUME BoundsAssumption ==
    /\ InitSpecs \subseteq Specs
    /\ BackoffLimit \in Nat
    /\ MaxReady \in Nat /\ MaxEntries \in Nat /\ MaxBacklog \in Nat \ {0}
    /\ Budgets \subseteq [{"timeout", "edit", "crash"} -> Nat]

VARIABLES
    api,      \* the job the API server holds
    log,      \* the objects the informer got: the handlers are at the first,
              \* the last has the version of api
    seen,     \* index in log of the object in the cache
    pass,     \* the pass of the reconciler
    handler,  \* the event being handled
    entered,  \* history: how often the job became Restarting, Rescheduling
    left      \* what is left of the budget

vars == <<api, log, seen, pass, handler, entered, left>>

-----------------------------------------------------------------------------
Phases == {"", "Pending", "Starting", "Running", "Restarting",
           "Rescheduling", "Succeeded", "Failed"}
Terminal == {"Succeeded", "Failed"}
Counted == {"Restarting", "Rescheduling"}

\* The job is not preemptible: its taskStatus lists the pods by phase.
\* true: the types of the conditions whose status is True; sized: replicas is
\* the number of the spec, which stays the same, and no longer the default of
\* 0; tasks: taskStatus lists pods; completed: completionTimestamp is set.
Job == [spec : Specs, phase : Phases, true : SUBSET Phases,
        count : [Counted -> Nat], sized : BOOLEAN, ready : 0..MaxReady,
        tasks : BOOLEAN, completed : BOOLEAN]

NewJob(s) == [spec |-> s, phase |-> "", true |-> {},
              count |-> [p \in Counted |-> 0],
              sized |-> FALSE, ready |-> 0, tasks |-> FALSE,
              completed |-> FALSE]

Cached == log[seen]
CacheIsFresh == seen = Len(log)

\* Mutant: the conditions of other types stay as they are.
AddsCondition(v, p) ==
    IF v.phase = p THEN v ELSE [v EXCEPT !.phase = p, !.true = @ \cup {p}]

\* UpdateJobStatus: the condition of the new phase becomes the only true one,
\* unless it is true already.
UpdateJobStatus(v, p) ==
    LET true == IF v.phase \in Terminal THEN v.true \ {"Running"} ELSE v.true
    IN  IF v.phase = p THEN v
        ELSE [v EXCEPT !.phase = p, !.true = IF p \in true THEN true ELSE {p}]

SamePhase(v, w) == v.phase = w.phase /\ v.true = w.true
SameNumbers(v, w) ==
    v.sized = w.sized /\ v.ready = w.ready /\ v.tasks = w.tasks

Spend(kind) == left[kind] > 0 /\ left' = [left EXCEPT ![kind] = @ - 1]

-----------------------------------------------------------------------------
(* The Update...InCluster functions: nothing to do if old and new agree;    *)
(* else the cached object with the fields of the group as new has them is   *)
(* accepted if it is current, and after a second of refusals given up.      *)

Accept(v) ==
    /\ CacheIsFresh
    /\ api' = v
    /\ log' = IF v = api THEN log ELSE Append(log, v)

WithPhase(v) == [Cached EXCEPT !.phase = v.phase, !.true = v.true]
WithCounts(v) == [Cached EXCEPT !.count = v.count]

WithNumbers(v) ==
    [Cached EXCEPT !.sized = v.sized, !.ready = v.ready, !.tasks = v.tasks,
                   !.completed = v.completed]

UpdateInCluster(same, v) ==
    \/ same /\ UNCHANGED <<api, log, left>>
    \/ ~same /\ Accept(v) /\ UNCHANGED left
    \/ ~same /\ Spend("timeout") /\ UNCHANGED <<api, log>>

-----------------------------------------------------------------------------
(* A pass: the job is read, the default names are written back, the spec    *)
(* is validated, the pods are looked at, and what changed is written, the   *)
(* phase before the numbers.  A job that is not valid fails, and the pass   *)
(* ends there.                                                              *)

NoWork == [pc |-> "idle", old |-> NewJob("named"), new |-> NewJob("named")]

Init ==
    /\ api \in {NewJob(s) : s \in InitSpecs}
    /\ log = <<api>> /\ seen = 1
    /\ pass = NoWork
    /\ handler = [NoWork EXCEPT !.pc = "added"]
    /\ entered = [p \in Counted |-> 0]
    /\ left \in Budgets

ReadJob ==
    /\ pass.pc = "idle"
    /\ pass' = [NoWork EXCEPT !.pc = "read", !.old = Cached]
    /\ UNCHANGED <<api, log, seen, handler, entered, left>>

\* UpdateJobStatusByBackoffLimit
ByBackoffLimit(v) ==
    IF v.count["Restarting"] < BackoffLimit THEN "Restarting" ELSE "Failed"

\* The phases reconcileWithJobStatus may set, by the phase it finds.
NextPhases(v) ==
    CASE v.phase = "Pending" -> {"Starting", ByBackoffLimit(v)}
      [] v.phase = "Starting" ->
            {"Running", "Rescheduling", "Succeeded", ByBackoffLimit(v)}
      [] v.phase = "Running" -> {"Rescheduling", "Succeeded", ByBackoffLimit(v)}
      [] v.phase = "Restarting" -> {"Starting"}
      [] v.phase = "Rescheduling" -> {"Starting", "Pending"}
      [] OTHER -> {}

\* What a pass makes of the numbers of a job that is over.
\* Mutant: the ready replicas are left as they were.
ForgetsReady(v) == [v EXCEPT !.tasks = FALSE]
Cleared(v) == [v EXCEPT !.ready = 0, !.tasks = FALSE]

MayEnter(p) ==
    p \in Counted /\ p # pass.old.phase => entered[p] < MaxEntries

HasRoom == Len(log) < MaxBacklog

\* SetDefaultJobNameInCluster reads the job again and gives the tasks of the
\* copy of the pass their names where the job just read has none.
Named(copy) ==
    IF copy.spec = "unnamed" /\ Cached.spec = "unnamed"
    THEN [copy EXCEPT !.spec = "named"] ELSE copy

\* A refused write has changed the copy nevertheless.
NamingIsRefused ==
    /\ pass.pc = "read" /\ ~CacheIsFresh
    /\ Named(pass.old) # pass.old
    /\ pass' = [pass EXCEPT !.old = Named(@)]
    /\ UNCHANGED <<api, log, seen, handler, entered, left>>

SetDefaultJobNameInCluster ==
    \/ /\ CacheIsFresh
       /\ \/ api.spec = "unnamed" /\ HasRoom
             /\ api' = [api EXCEPT !.spec = "named"]
             /\ log' = Append(log, api')
          \/ api.spec # "unnamed" /\ UNCHANGED <<api, log>>
       /\ UNCHANGED left
    \/ ~CacheIsFresh /\ Spend("timeout") /\ UNCHANGED <<api, log>>

\* Mutant: only new jobs are validated.
ValidatesNewJobs(job) == job.spec = "named" \/ job.phase # ""

\* TaskTypeNameValidator: no name and no type is used twice.
TaskTypeNameValidator(job) == job.spec = "named"

Decide ==
    /\ pass.pc = "read"
    /\ SetDefaultJobNameInCluster
    /\ LET job == Named(pass.old)
           next(pc, new) == pass' = [pc |-> pc, old |-> job, new |-> new]
       IN  \/ /\ ~TaskTypeNameValidator(job)
              /\ next("reject", UpdateJobStatus(job, "Failed"))
           \/ /\ TaskTypeNameValidator(job) /\ job.phase \notin Terminal
              /\ \E p \in {job.phase} \cup NextPhases(job),
                    ready \in 0..MaxReady, tasks \in BOOLEAN :
                    /\ MayEnter(p)
                    /\ ready > 0 => tasks
                    /\ next("phase", [UpdateJobStatus(job, p) EXCEPT
                            !.sized = TRUE, !.ready = ready, !.tasks = tasks])
           \/ /\ TaskTypeNameValidator(job) /\ job.phase \in Terminal
              /\ next("numbers", Cleared(job))
    /\ UNCHANGED <<seen, handler, entered>>

PassWritesPhase ==
    /\ pass.pc \in {"phase", "reject"} /\ HasRoom
    /\ UpdateInCluster(SamePhase(pass.old, pass.new), WithPhase(pass.new))
    /\ pass' = IF pass.pc = "phase" THEN [pass EXCEPT !.pc = "numbers"]
                                     ELSE NoWork
    /\ entered' = [p \in Counted |->
            IF api'.phase = p /\ api.phase # p THEN entered[p] + 1 ELSE entered[p]]
    /\ UNCHANGED <<seen, handler>>

PassWritesNumbers ==
    /\ pass.pc = "numbers" /\ HasRoom
    /\ UpdateInCluster(SameNumbers(pass.old, pass.new), WithNumbers(pass.new))
    /\ pass' = NoWork
    /\ UNCHANGED <<seen, handler, entered>>

-----------------------------------------------------------------------------
(* The add handler, for the first object after a start: a job without a     *)
(* phase becomes Pending, in the cache at once.                             *)

HandleJobAdd ==
    /\ handler.pc = "added"
    /\ \/ /\ log[1].phase = ""
          /\ LET job == UpdateJobStatus(log[1], "Pending")
             IN  /\ log' = [log EXCEPT ![1] = job]
                 /\ handler' = [pc |-> "pending", old |-> log[1], new |-> job]
       \/ /\ log[1].phase # ""
          /\ handler' = NoWork
          /\ UNCHANGED log
    /\ UNCHANGED <<api, seen, pass, entered, left>>

HandlerWritesPhase ==
    /\ handler.pc = "pending"
    /\ UpdateInCluster(SamePhase(handler.old, handler.new),
                       WithPhase(handler.new))
    /\ handler' = NoWork
    /\ UNCHANGED <<seen, pass, entered>>

-----------------------------------------------------------------------------
(* The update handler: the table of registerJobStatusHandlers has an entry  *)
(* for every change between known phases but Succeeded to Rescheduling.     *)

\* Mutant: also events that do not change the phase are counted.
CountsAnyEvent(old, new) ==
    new.phase \in Counted /\ old.phase # ""

Counts(old, new) ==
    /\ new.phase \in Counted /\ old.phase \notin {"", new.phase}
    /\ ~(old.phase = "Succeeded" /\ new.phase = "Rescheduling")
Completes(old, new) ==
    new.phase \in Terminal /\ old.phase \notin {"", new.phase}

\* Mutant: one replica fewer is ready, instead of none.
OneReadyFewer(old, new) ==
    IF Counts(old, new) THEN [new EXCEPT !.count[new.phase] = @ + 1]
    ELSE IF Completes(old, new) THEN [new EXCEPT !.completed = TRUE, !.ready = @ - 1]
    ELSE new

HandleJobStatus(old, new) ==
    IF Counts(old, new) THEN [new EXCEPT !.count[new.phase] = @ + 1]
    ELSE IF Completes(old, new) THEN [new EXCEPT !.completed = TRUE, !.ready = 0]
    ELSE new

HandleJobUpdate ==
    /\ handler.pc = "idle" /\ seen >= 2
    /\ LET job == HandleJobStatus(log[1], log[2])
       IN  /\ log' = [Tail(log) EXCEPT ![1] = job]
           /\ handler' = [pc |-> "counts", old |-> log[2], new |-> job]
    /\ seen' = seen - 1
    /\ UNCHANGED <<api, pass, entered, left>>

HandlerWritesCounts ==
    /\ handler.pc = "counts"
    /\ UpdateInCluster(handler.old.count = handler.new.count,
                       WithCounts(handler.new))
    /\ handler' = [handler EXCEPT !.pc = "numbers"]
    /\ UNCHANGED <<seen, pass, entered>>

HandlerWritesNumbers ==
    /\ handler.pc = "numbers"
    /\ UpdateInCluster(SameNumbers(handler.old, handler.new),
                       WithNumbers(handler.new))
    /\ handler' = NoWork
    /\ UNCHANGED <<seen, pass, entered>>

-----------------------------------------------------------------------------
SyncCache ==
    /\ seen < Len(log)
    /\ seen' = seen + 1
    /\ UNCHANGED <<api, log, pass, handler, entered, left>>

\* The user changes the tasks.
Edit ==
    /\ HasRoom /\ Spend("edit")
    /\ \E s \in Specs \ {api.spec} : api' = [api EXCEPT !.spec = s]
    /\ log' = Append(log, api')
    /\ UNCHANGED <<seen, pass, handler, entered>>

\* The operator restarts: its caches are filled with what the API server has.
Crash ==
    /\ Spend("crash")
    /\ log' = <<api>> /\ seen' = 1
    /\ pass' = NoWork
    /\ handler' = [NoWork EXCEPT !.pc = "added"]
    /\ UNCHANGED <<api, entered>>

PassStep ==
    \/ ReadJob \/ NamingIsRefused \/ Decide
    \/ PassWritesPhase \/ PassWritesNumbers
HandlerStep ==
    \/ HandleJobAdd \/ HandlerWritesPhase
    \/ HandleJobUpdate \/ HandlerWritesCounts \/ HandlerWritesNumbers

Next == PassStep \/ HandlerStep \/ SyncCache \/ Edit \/ Crash

Spec == Init /\ [][Next]_vars

\* Passes are started over and over by the resync, events are handled and the
\* watch delivers.  A write that can succeed is not given up instead for ever:
\* the budget of timeouts is finite.
Fairness == WF_vars(PassStep) /\ WF_vars(HandlerStep) /\ WF_vars(SyncCache)
FairSpec == Spec /\ Fairness

-----------------------------------------------------------------------------
(* Properties.                                                              *)

Work(pcs) == [pc : pcs, old : Job, new : Job]

\* Every variable has its type, and what is written is of the type of a job.
TypeOK ==
    /\ api \in Job
    /\ log \in Seq(Job) /\ Len(log) >= 1 /\ seen \in 1..Len(log)
    /\ pass \in Work({"idle", "read", "phase", "numbers", "reject"})
    /\ handler \in Work({"idle", "added", "pending", "counts", "numbers"})
    /\ entered \in [Counted -> Nat]
    /\ left \in [{"timeout", "edit", "crash"} -> Nat]

\* Whatever order the writers come in and whatever they have read, the phase
\* and the conditions agree: the condition of the phase is true, no other is.
ConditionFollowsPhase ==
    api.true = {api.phase} \ {""}

\* No restart and no rescheduling is counted twice, although the counts are
\* written from old events and read from objects changed in place.
CountsSound == \A p \in Counted : api.count[p] <= entered[p]

\* A valid job that is over shows no ready replicas in the end: a pass that
\* still shows some is corrected by a later one, unless a write was given up.
EndsUnready ==
    <>[](api.phase \in Terminal /\ api.spec # "invalid")
        => \/ \A b \in Budgets : <>(left["timeout"] # b["timeout"])
           \/ <>[](api.phase \in Terminal => api.ready = 0)

\* A job whose spec stays invalid fails in the end, whatever phase it was in and
\* whatever is lost on the way; and a job that ends valid gets its names.
InvalidFails ==
    /\ <>[](api.spec = "invalid") => <>[](api.phase = "Failed")
    /\ <>[](api.spec # "invalid") => <>[](api.spec = "named")

\* "should set default task name when typed task name is not set": a job fails
\* the validation only if its tasks, with the default names, are not valid.
RejectsOnlyInvalid ==
    [][pass.pc = "read" /\ pass'.pc = "reject" => api.spec = "invalid"]_vars

\* "CompletionTimestamp defines the timestamp when the job was completed": a
\* job that is over for good has one in the end.
CompletionRecorded ==
    <>[](api.phase \in Terminal) => <>[](api.completed)
=============================================================================
