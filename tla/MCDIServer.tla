----------------------------- MODULE MCDIServer -----------------------------
(* Values for the constants of DIServer.                                    *)
EXTENDS DIServer, TLC

OneTask == <<"none">>
OneReplica == <<1>>
OneOrTwo == {<<1>>, <<2>>}
NoAllocation == <<>>
NeverReallocated == {}

None == [k \in Kinds |-> 0]

\* Three failures and a crash, which may come between a restart and its counting;
\* or a failing call or a deleted service around a scaling.
Troubles ==
    {"fail" :> 3 @@ "crash" :> 1 @@ None, "scale" :> 1 @@ "fault" :> 1 @@ None}
=============================================================================
