------------------------------ MODULE MCJobStatus ------------------------------
(* Values for the constants of JobStatus.                                    *)
EXTENDS JobStatus, TLC

Kinds == {"timeout", "edit", "crash"}
None == [k \in Kinds |-> 0]
Smooth == {None}
OneEdit == {"edit" :> 1 @@ None}
OneTrouble == {k :> 1 @@ None : k \in Kinds}

\* What JobStatus takes for granted of the tasks its Specs stand for.
V == INSTANCE Validation WITH
        Types <- {"learner", "collector"}, Names <- {"n"},
        Untyped <- "none", NoName <- ""

TasksOf(s) ==
    LET task(type, name) == [type |-> type, name |-> name]
    IN  CASE s = "named" -> {<<task("learner", "n"), task("collector", "collector")>>}
          [] s = "unnamed" -> {<<task("learner", ""), task("collector", "")>>}
          [] s = "invalid" -> {<<task("learner", ""), task("learner", "")>>,
                               <<task("learner", "learner"), task("learner", "")>>}

ASSUME SpecsStandForTasks ==
    /\ \A s \in Specs : \A tasks \in TasksOf(s) :
        /\ V!TaskTypeNameValidator(tasks) <=> s = "named"
        /\ V!TaskTypeNameValidator(V!Named(tasks)) <=> s # "invalid"
        /\ (s = "unnamed") => V!NamedLike(tasks, V!Named(tasks)) = tasks
=============================================================================
