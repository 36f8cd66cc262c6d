-------------------------- MODULE MCDIJobController --------------------------
(* Values for the constants of DIJobController.  A cfg picks one value of   *)
(* each group; Budgets names the disruptions of its run.                    *)
EXTENDS DIJobController, TLC

\* The tasks of the spec, and what the user may change their replicas to.
OneTask == <<"none">>
TwoTasks == <<"learner", "collector">>
TwoReplicas == <<2>>
OneEach == <<1, 1>>
NeverScaled == {}
OneOrTwo == {<<1>>, <<2>>}
MovedGrownOrGone == {<<2, 0>>, <<1, 2>>, <<0, 0>>}

\* Allocations of a preemptible job: both nodes, then swapped or too short.
NoAllocation == <<>>
BothNodes == <<"a", "b">>
NeverReallocated == {}
SwappedOrShort == {<<"b", "a">>, <<"a">>}

\* Disruptions.
None == [k \in Kinds |-> 0]
Fail(n) == "fail" :> n @@ None
Evict(n) == "evict" :> n @@ None
Scale1 == "scale" :> 1 @@ None

Undisturbed == {None}
OneEvict == {Evict(1)}
TwoEvicts == {Evict(2)}
OneCrash == {"crash" :> 1 @@ None}

\* Failures and an eviction; one of each and a failing call; the user at work,
\* while a replica or a call fails.
FailuresOrScaling ==
    {"evict" :> 1 @@ Fail(2), "evict" :> 1 @@ "fault" :> 1 @@ Fail(1),
     "fail" :> 1 @@ Scale1, "fault" :> 1 @@ Scale1}

\* A failure with a crash and a lost write; scaling; pods lost and refused.
OneTrouble ==
    {"crash" :> 1 @@ "timeout" :> 1 @@ Fail(1), "fail" :> 1 @@ Scale1,
     "reject" :> 1 @@ Evict(1)}

FailureAndReallocation == {"alloc" :> 1 @@ Fail(1)}
=============================================================================
