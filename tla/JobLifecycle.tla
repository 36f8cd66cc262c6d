---------------------------- MODULE JobLifecycle ----------------------------
(***************************************************************************)
(* What the phase of a job promises to whoever watches the DIJob: the      *)
(* phase changes of reconcileWithJobStatus (pkg/controllers/dijob.go) when *)
(* every pass sees the current job.  DIJobController implements it as long *)
(* as the caches keep up and no status write is lost.                      *)
(***************************************************************************)
EXTENDS Naturals

CONSTANT BackoffLimit   \* spec.backoffLimit

VARIABLES phase,    \* status.phase
          entries   \* how often the phase became Restarting

vars == <<phase, entries>>

Init == phase = "Pending" /\ entries = 0

Go(from, to) == phase \in from /\ phase' = to

\* All replicas exist, or after a reschedule or restart exist again.
Start ==
    /\ Go({"Pending", "Restarting", "Rescheduling"}, "Starting")
    /\ UNCHANGED entries

Run == Go({"Starting"}, "Running") /\ UNCHANGED entries

Succeed == Go({"Starting", "Running"}, "Succeeded") /\ UNCHANGED entries

Reschedule == Go({"Starting", "Running"}, "Rescheduling") /\ UNCHANGED entries

\* Every task is gone from the spec.
Suspend == Go({"Rescheduling"}, "Pending") /\ UNCHANGED entries

\* A pod failed, or could not be created.
Restart ==
    /\ Go({"Pending", "Starting", "Running"}, "Restarting")
    /\ entries < BackoffLimit
    /\ entries' = entries + 1

Fail ==
    /\ Go({"Pending", "Starting", "Running"}, "Failed")
    /\ entries = BackoffLimit
    /\ UNCHANGED entries

Next ==
    \/ Start \/ Run \/ Succeed \/ Reschedule \/ Suspend \/ Restart \/ Fail

Spec == Init /\ [][Next]_vars

-----------------------------------------------------------------------------
(* What is left of the promise when restarts may go uncounted: the job may  *)
(* be restarted more often, but it is never given up before its limit.      *)

RestartUncounted ==
    /\ Go({"Pending", "Starting", "Running"}, "Restarting")
    /\ entries' = entries + 1

FailLate ==
    /\ Go({"Pending", "Starting", "Running"}, "Failed")
    /\ entries >= BackoffLimit
    /\ UNCHANGED entries

LossyNext ==
    \/ Start \/ Run \/ Succeed \/ Reschedule \/ Suspend
    \/ RestartUncounted \/ FailLate

LossySpec == Init /\ [][LossyNext]_vars
=============================================================================
