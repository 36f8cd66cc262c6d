------------------------------- MODULE DIServer -------------------------------
(***************************************************************************)
(* The DI Server (pkg/server): a process of its own that answers requests  *)
(* about a job from an informer cache of its own, while the operator works *)
(* on the job.  It keeps no state.  A request to add or delete replicas or *)
(* to post profilings ends in an Update...InCluster call whose group of    *)
(* fields the request did not change, so nothing is ever written.          *)
(***************************************************************************)
EXTENDS JobServices

VARIABLES
    spods,   \* the pods in the server's cache
    steady,  \* history: the job was never restarted or rescheduled
    reply    \* status code of the last answer; OK before the first

serverVars == <<spods, steady, reply>>
orchestraVars == <<allVars, serverVars>>

OK == 200
InternalServerError == 500

-----------------------------------------------------------------------------
(* GetReplicas: a table of addresses by rank.  It is as long as the first   *)
(* listed pod with an IP says, and the list has no order; a rank past the   *)
(* end panics, and gin turns that into an internal error.                   *)

\* Mutant: the address of a replica that is done is forgotten.
WithIPAtWork(p) == InState(p, AllPods(p), {"Ready", "Failed", "Killed"})

\* A pod has an IP once its containers were started; terminating ones too.
WithIP(p) == InState(p, AllPods(p), {"Ready", "Succeeded", "Failed", "Killed"})

NoAddress == <<0, 0>>   \* tasks are counted from 1

\* Mutant: the table has a place for the highest rank of the first pod only.
SizedByRank(p) == {p[s].rank + 1 : s \in WithIP(p)}

TableSizes(p) == {p[s].of : s \in WithIP(p)}

OutOfTable(p, size) == \E s \in WithIP(p) : p[s].rank >= size

\* Of pods that share a rank the last one listed stays in the table.
Tables(p, size) ==
    {t \in [0..(size - 1) -> WithIP(p) \cup {NoAddress}] :
        \A r \in 0..(size - 1) :
            LET at == {s \in WithIP(p) : p[s].rank = r}
            IN  IF at = {} THEN t[r] = NoAddress ELSE t[r] \in at}

\* What a GET may answer from this cache.
MayFail(p) == \E size \in TableSizes(p) : OutOfTable(p, size)
Answers(p) ==
    IF WithIP(p) = {} THEN {<<>>}
    ELSE UNION {Tables(p, size) : size \in
                    {n \in TableSizes(p) : ~OutOfTable(p, n)}}

-----------------------------------------------------------------------------
(* Requests for a job that exists.  AddReplicas and DeleteReplicas change   *)
(* the replicas in the status of their copy and have the allocation written *)
(* if it changed; PostProfilings has profilings written that have no        *)
(* fields.  So each write returns early, and the answer is OK.              *)

GetReplicas ==
    /\ \/ Answers(spods) # {} /\ reply' = OK
       \/ MayFail(spods) /\ reply' = InternalServerError
    /\ UNCHANGED <<allVars, spods, steady>>

\* Nothing is done unless the allocation was changed.
UpdateJobAllocationInCluster(old, new) ==
    \/ old = new /\ UNCHANGED allVars
    \/ /\ old # new
       /\ Edit([Latest EXCEPT !.alloc = new])
       /\ UNCHANGED <<left, serviceVars>>

\* Profilings have no fields, so old and new ones are equal.
UpdateJobProfilingsInCluster == UNCHANGED allVars

\* The replicas of the copy change, its allocation does not.  Of a preemptible
\* job not even the copy is changed.
AddOrDeleteReplicas ==
    /\ UpdateJobAllocationInCluster(Latest.alloc, Latest.alloc)
    /\ reply' = OK
    /\ UNCHANGED <<spods, steady>>

PostProfilings ==
    /\ UpdateJobProfilingsInCluster
    /\ reply' = OK
    /\ UNCHANGED <<spods, steady>>

ServerInit ==
    /\ ServiceInit
    /\ spods = pods /\ steady = TRUE /\ reply = OK

SyncServer ==
    /\ spods # pods
    /\ spods' = pods
    /\ UNCHANGED <<allVars, steady, reply>>

OperatorAndCluster ==
    /\ ServiceNext
    /\ steady' = (steady /\ Latest'.phase \notin {"Restarting", "Rescheduling"})
    /\ UNCHANGED <<spods, reply>>

ServerNext ==
    \/ OperatorAndCluster
    \/ SyncServer
    \/ GetReplicas \/ AddOrDeleteReplicas \/ PostProfilings

ServerSpec == ServerInit /\ [][ServerNext]_orchestraVars

\* The fairness of the controller, whose passes now see to the service, and of
\* the two further caches.  Nobody has to send a request.
FairServerSpec ==
    /\ ServerSpec
    /\ WF_orchestraVars(ServicePass /\ OperatorAndCluster)
    /\ WF_orchestraVars(HandleJobUpdate /\ OperatorAndCluster)
    /\ WF_orchestraVars(SyncJob /\ OperatorAndCluster)
    /\ WF_orchestraVars(SyncPods /\ OperatorAndCluster)
    /\ WF_orchestraVars(SyncServices /\ OperatorAndCluster)
    /\ WF_orchestraVars(Restart /\ OperatorAndCluster)
    /\ WF_orchestraVars(SyncServer)
    /\ \A s \in Slots :
        /\ WF_orchestraVars(SchedulePod(s) /\ OperatorAndCluster)
        /\ WF_orchestraVars(PodGetsReady(s) /\ OperatorAndCluster)
        /\ WF_orchestraVars(ReapPod(s) /\ OperatorAndCluster)

-----------------------------------------------------------------------------
(* Properties.                                                              *)

ServerTypeOK ==
    /\ TypeOK /\ ServiceTypeOK
    /\ spods \in [Slots -> Pod]
    /\ steady \in BOOLEAN
    /\ reply \in {OK, InternalServerError}

\* As long as a job was neither restarted nor rescheduled, a GET does not fail,
\* and every pod it lists with an IP is found in the answer: the ranks that
\* buildAndCreatePods gave out fit the number of replicas written beside them,
\* however old the server's cache is.
SteadyAnswers ==
    steady =>
        /\ reply # InternalServerError /\ ~MayFail(spods)
        /\ \A t \in Answers(spods) :
              {t[r] : r \in DOMAIN t} \ {NoAddress} = WithIP(spods)

\* Of a job that stays Running and was never restarted or rescheduled, a GET
\* returns the address of each replica in the end.
RunningIsAnswered ==
    <>[](steady /\ Latest.phase = "Running")
        => <>[](\A t \in Answers(spods) :
                    {t[r] : r \in DOMAIN t} = Desired(Latest))
=============================================================================
