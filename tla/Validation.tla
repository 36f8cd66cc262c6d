------------------------------ MODULE Validation ------------------------------
(***************************************************************************)
(* The tasks of a job: their default names (SetDefaultJobNameInCluster in  *)
(* pkg/context/status.go) and their validation (pkg/utils/validator.go),   *)
(* for every list of tasks.  JobStatus has the steps and their races, for  *)
(* the few lists it tells apart.                                           *)
(***************************************************************************)
EXTENDS Sequences, Naturals, TLAPS

CONSTANTS
    Types,   \* types of tasks, used as their names too
    Names,   \* further names
    Untyped, \* TaskTypeNone
    NoName   \* the empty string

Task == [type : Types \cup {Untyped}, name : Names \cup Types \cup {NoName}]

-----------------------------------------------------------------------------
\* A typed task without a name gets its type for a name.
Unnamed(task) == task.name = NoName /\ task.type # Untyped

\* One attempt of SetDefaultJobNameInCluster: what it makes of the copy of the
\* pass, judging by the tasks it has read again ...
NamedLike(copy, current) ==
    [i \in DOMAIN copy |->
        IF i \in DOMAIN current /\ Unnamed(current[i])
        THEN [copy[i] EXCEPT !.name = current[i].type] ELSE copy[i]]

\* ... and what it writes.
Named(tasks) == NamedLike(tasks, tasks)

\* The copy is indexed by the tasks read again, of which there may be more.
IndexPanics(copy, current) ==
    \E i \in DOMAIN current \ DOMAIN copy : Unnamed(current[i])

\* TaskTypeNameValidator returns no error.
TaskTypeNameValidator(tasks) ==
    /\ \A i, k \in DOMAIN tasks :
          i # k => \/ tasks[i].type # tasks[k].type
                   \/ tasks[i].type = Untyped
    /\ \A i \in DOMAIN tasks :
          tasks[i].type = Untyped => tasks[i].name # NoName
    /\ \A i, k \in DOMAIN tasks : i # k => tasks[i].name # tasks[k].name

-----------------------------------------------------------------------------
(* What the functions promise.                                              *)

\* The tasks as submitted are fine: no type is used twice, a task without type
\* has a name, no name is used twice, nor a type whose task has no name.
WellFormed(tasks) ==
    \A i, k \in DOMAIN tasks :
        /\ tasks[i].type = Untyped => tasks[i].name # NoName
        /\ i # k =>
            /\ tasks[i].type = tasks[k].type => tasks[i].type = Untyped
            /\ tasks[i].name = tasks[k].name => tasks[i].name = NoName
            /\ Unnamed(tasks[k]) => tasks[i].name # tasks[k].type

\* Once named, tasks are accepted exactly when they were well formed: the
\* default names neither save a bad list nor spoil a good one.
THEOREM NamedIsValidated ==
  ASSUME NEW tasks \in Seq(Task), NoName \notin Types, NoName \notin Names,
         Untyped \notin Types
  PROVE  TaskTypeNameValidator(Named(tasks)) <=> WellFormed(tasks)
PROOF
<1>1. DOMAIN Named(tasks) = DOMAIN tasks
  BY DEF Named, NamedLike
<1>2. \A i \in DOMAIN tasks : tasks[i] \in Task
  OBVIOUS
<1>3. \A i \in DOMAIN tasks :
         /\ Named(tasks)[i].type = tasks[i].type
         /\ Named(tasks)[i].name =
               IF Unnamed(tasks[i]) THEN tasks[i].type ELSE tasks[i].name
  BY <1>2 DEF Named, NamedLike, Task
<1>4. \A i \in DOMAIN tasks :
         tasks[i].type \in Types \/ tasks[i].type = Untyped
  BY <1>2 DEF Task
<1>5. ASSUME TaskTypeNameValidator(Named(tasks))
      PROVE  WellFormed(tasks)
  <2> SUFFICES ASSUME NEW i \in DOMAIN tasks, NEW k \in DOMAIN tasks
               PROVE  /\ tasks[i].type = Untyped => tasks[i].name # NoName
                      /\ i # k =>
                          /\ tasks[i].type = tasks[k].type =>
                                tasks[i].type = Untyped
                          /\ tasks[i].name = tasks[k].name =>
                                tasks[i].name = NoName
                          /\ Unnamed(tasks[k]) => tasks[i].name # tasks[k].type
    BY DEF WellFormed
  <2>1. tasks[i].type = Untyped => tasks[i].name # NoName
    BY <1>1, <1>3, <1>5 DEF TaskTypeNameValidator, Unnamed
  <2>2. ASSUME i # k PROVE tasks[i].type = tasks[k].type => tasks[i].type = Untyped
    BY <1>1, <1>3, <1>5, <2>2 DEF TaskTypeNameValidator
  <2>3. ASSUME i # k PROVE Named(tasks)[i].name # Named(tasks)[k].name
    BY <1>1, <1>5, <2>3 DEF TaskTypeNameValidator
  <2>4. ASSUME i # k, tasks[i].name = tasks[k].name PROVE tasks[i].name = NoName
    BY <1>3, <2>3, <2>4 DEF Unnamed
  <2>5. ASSUME i # k, Unnamed(tasks[k]) PROVE tasks[i].name # tasks[k].type
    <3>1. tasks[k].type \in Types
      BY <1>4, <2>5 DEF Unnamed
    <3>2. CASE Unnamed(tasks[i])
      BY <3>1, <3>2 DEF Unnamed
    <3>3. CASE ~Unnamed(tasks[i])
      BY <1>3, <2>3, <2>5, <3>3
    <3> QED BY <3>2, <3>3
  <2> QED BY <2>1, <2>2, <2>4, <2>5
<1>6. ASSUME WellFormed(tasks)
      PROVE  TaskTypeNameValidator(Named(tasks))
  <2>1. ASSUME NEW i \in DOMAIN tasks, NEW k \in DOMAIN tasks, i # k
        PROVE  Named(tasks)[i].name # Named(tasks)[k].name
    <3>1. CASE Unnamed(tasks[i]) /\ Unnamed(tasks[k])
      BY <1>3, <1>6, <2>1, <3>1 DEF WellFormed, Unnamed
    <3>2. CASE Unnamed(tasks[i]) /\ ~Unnamed(tasks[k])
      BY <1>3, <1>6, <2>1, <3>2 DEF WellFormed
    <3>3. CASE ~Unnamed(tasks[i]) /\ Unnamed(tasks[k])
      BY <1>3, <1>6, <2>1, <3>3 DEF WellFormed
    <3>4. CASE ~Unnamed(tasks[i]) /\ ~Unnamed(tasks[k])
      BY <1>3, <1>6, <2>1, <3>4 DEF WellFormed, Unnamed
    <3> QED BY <3>1, <3>2, <3>3, <3>4
  <2>2. \A i, k \in DOMAIN tasks :
           i # k => \/ Named(tasks)[i].type # Named(tasks)[k].type
                    \/ Named(tasks)[i].type = Untyped
    BY <1>3, <1>6 DEF WellFormed
  <2>3. \A i \in DOMAIN tasks :
           Named(tasks)[i].type = Untyped => Named(tasks)[i].name # NoName
    BY <1>3, <1>6 DEF WellFormed, Unnamed
  <2> QED BY <1>1, <2>1, <2>2, <2>3 DEF TaskTypeNameValidator
<1> QED BY <1>5, <1>6

\* Naming is idempotent: what was written once is not changed by another pass.
THEOREM NamingIsIdempotent ==
  ASSUME NEW tasks \in Seq(Task), NoName \notin Types
  PROVE  Named(Named(tasks)) = Named(tasks)
PROOF
<1>1. \A i \in DOMAIN tasks : tasks[i] \in Task
  OBVIOUS
<1>2. \A i \in DOMAIN tasks : ~Unnamed(Named(tasks)[i])
  BY <1>1 DEF Named, NamedLike, Unnamed, Task
<1> QED BY <1>2 DEF Named, NamedLike

\* A pass whose copy is older than the names in the cache keeps its unnamed
\* tasks; with two of them the validator rejects it, whatever their types.
THEOREM LateCopyIsRejected ==
  ASSUME NEW tasks \in Seq(Task), NoName \notin Types,
         NEW i \in DOMAIN tasks, NEW k \in DOMAIN tasks, i # k,
         Unnamed(tasks[i]), Unnamed(tasks[k])
  PROVE  LET copy == NamedLike(tasks, Named(tasks))
         IN  copy = tasks /\ ~TaskTypeNameValidator(copy)
PROOF
<1>1. \A n \in DOMAIN tasks : tasks[n] \in Task
  OBVIOUS
<1>2. \A n \in DOMAIN tasks : ~Unnamed(Named(tasks)[n])
  BY <1>1 DEF Named, NamedLike, Unnamed, Task
<1>3. DOMAIN Named(tasks) = DOMAIN tasks
  BY DEF Named, NamedLike
<1>4. NamedLike(tasks, Named(tasks)) = [n \in DOMAIN tasks |-> tasks[n]]
  BY <1>2, <1>3 DEF NamedLike
<1>5. tasks = [n \in DOMAIN tasks |-> tasks[n]]
  OBVIOUS
<1>6. ~TaskTypeNameValidator(tasks)
  BY DEF TaskTypeNameValidator, Unnamed
<1> QED BY <1>4, <1>5, <1>6

\* The tasks read again make the pass index its copy past the end only when
\* tasks were added to the job in between.
THEOREM PanicNeedsGrowth ==
  ASSUME NEW copy \in Seq(Task), NEW current \in Seq(Task),
         Len(current) <= Len(copy)
  PROVE  ~IndexPanics(copy, current)
BY DEF IndexPanics
=============================================================================
