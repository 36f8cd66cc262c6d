----------------------------- MODULE JobServices -----------------------------
(***************************************************************************)
(* The headless service of a job, composed with the DIJob controller: the  *)
(* pass creates it when it has seen to the pods (reconcileServices), and   *)
(* deletes it before the pods of a job that is over (DeletePodsAndServices *)
(* in pkg/context/pod.go).  All services of a job would have the same      *)
(* name, so there is one or none, and the branch for several is dead.      *)
(***************************************************************************)
EXTENDS DIJobController

VARIABLES
    service,  \* the API server has the service of the job
    scache,   \* the informer cache has it
    due       \* what the pass has still to do with it

serviceVars == <<service, scache, due>>
allVars == <<vars, serviceVars>>

Dues == {"nothing", "create", "delete"}

ServiceInit ==
    /\ Init
    /\ service = FALSE /\ scache = FALSE
    /\ due = "nothing"

-----------------------------------------------------------------------------
(* The pass lists the services after the pods.  createMissedReplicas ends   *)
(* with an error at a stray replica, and then the services are not reached. *)

EndsAtStray ==
    /\ rec.job.phase \in {"Restarting", "Rescheduling"}
    /\ rec.job.phase = "Rescheduling" => ~Preemptible
    /\ Cardinality(Live) < Expected
    /\ \E t \in Tasks : HasStrayReplica(t)

\* Mutant: one service is taken for several.
DeletesTheOnlyService ==
    /\ Lagging \/ scache = service
    /\ ReconcileByPhase
    /\ rec.job.phase \notin Terminal
    /\ due' = IF EndsAtStray THEN "nothing"
              ELSE IF scache THEN "delete" ELSE "create"
    /\ UNCHANGED <<service, scache>>

ReconcileAndList ==
    /\ Lagging \/ scache = service
    /\ ReconcileByPhase
    /\ rec.job.phase \notin Terminal
    /\ due' = IF scache \/ EndsAtStray THEN "nothing" ELSE "create"
    /\ UNCHANGED <<service, scache>>

\* Mutant: the service goes only when the pods do.
DeletesByPolicy ==
    /\ Lagging \/ scache = service
    /\ CleanUp
    /\ due' = IF scache /\ rec'.doomed # {} THEN "delete" ELSE "nothing"
    /\ UNCHANGED <<service, scache>>

\* Without any pod DeletePodsAndServices returns at once.
DeletePodsAndServices ==
    /\ Lagging \/ scache = service
    /\ CleanUp
    /\ due' = IF scache /\ AllPods(pcache) # {} THEN "delete" ELSE "nothing"
    /\ UNCHANGED <<service, scache>>

\* An error leaves the pods as they are.
DeleteService ==
    /\ Working /\ due = "delete"
    /\ \/ /\ service' = FALSE
          /\ UNCHANGED <<rec, left>>
       \/ /\ Spend("fault")
          /\ rec' = [rec EXCEPT !.doomed = {}]
          /\ UNCHANGED service
    /\ due' = "nothing"
    /\ UNCHANGED <<jobs, seen, pods, pcache, scache>>

\* An error that reconcileWithJobStatus returns keeps the pass from the services.
CallPods ==
    /\ due # "delete"
    /\ \/ DeletePod /\ due' = IF left' # left /\ ~rec.swallow THEN "nothing" ELSE due
       \/ CreatePod /\ UNCHANGED due
       \/ CreateFails /\ due' = IF rec.undo THEN due ELSE "nothing"
       \/ BuildPodPanics /\ UNCHANGED due
    /\ UNCHANGED <<service, scache>>

\* Mutant: only a Pending job gets its service.
CreatesWhenPending ==
    /\ Working /\ rec.doomed = {} /\ rec.missing = {} /\ due = "create"
    /\ \/ service' = (service \/ rec.job.phase = "Pending") /\ UNCHANGED left
       \/ Spend("fault") /\ UNCHANGED service
    /\ due' = "nothing"
    /\ UNCHANGED <<jobs, seen, pods, pcache, rec, scache>>

\* reconcileServices; a service that exists already counts as created.
CreateService ==
    /\ Working /\ rec.doomed = {} /\ rec.missing = {} /\ due = "create"
    /\ \/ service' = TRUE /\ UNCHANGED left
       \/ Spend("fault") /\ UNCHANGED service
    /\ due' = "nothing"
    /\ UNCHANGED <<jobs, seen, pods, pcache, rec, scache>>

ServicePass ==
    \/ BeginPass /\ UNCHANGED serviceVars
    \/ ReconcileAndList \/ DeletePodsAndServices
    \/ CallPods \/ DeleteService \/ CreateService
    \/ due = "nothing" /\ FinishPass /\ UNCHANGED serviceVars

-----------------------------------------------------------------------------
SyncServices ==
    /\ scache # service
    /\ scache' = service
    /\ UNCHANGED <<vars, service, due>>

\* Somebody deletes the service: counted like a failing call.
LoseService ==
    /\ service /\ Spend("fault")
    /\ service' = FALSE
    /\ UNCHANGED <<jobs, seen, pods, pcache, rec, scache, due>>

\* The operator restarts with full caches and no pass.
ServiceRecovers ==
    /\ Crash \/ Restart
    /\ scache' = service /\ due' = "nothing"
    /\ UNCHANGED service

ServiceNext ==
    \/ ServicePass \/ SyncServices \/ LoseService \/ ServiceRecovers
    \/ /\ \/ HandleJobUpdate \/ SyncJob \/ SyncPods
          \/ \E s \in Slots : PodStep(s)
          \/ Scale \/ Reallocate
       /\ UNCHANGED serviceVars

ServiceSpec == ServiceInit /\ [][ServiceNext]_allVars

-----------------------------------------------------------------------------
(* Properties.                                                              *)

\* The service has a type, and what is due is due in a pass at work.
ServiceTypeOK ==
    /\ service \in BOOLEAN /\ scache \in BOOLEAN /\ due \in Dues
    /\ due # "nothing" => rec.pc \in {"work", "panicked"}

\* The pods of a job that stays Running find each other by the service: it
\* exists in the end, though it may be deleted and its creation may fail.
RunningIsServed ==
    <>[](Latest.phase = "Running") => <>[]service

\* The operator takes the service away only from a job that is over.
ServiceKept ==
    [][DeleteService /\ service /\ ~service' => Latest.phase \in Terminal]_allVars

\* A job that is over has no service in the end, unless its pods vanished
\* before the cleaning up.
ServiceRemoved ==
    <>[](Latest.phase \in Terminal) => <>[](~service \/ AllPods(pods) = {})
=============================================================================
