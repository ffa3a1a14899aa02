---------------------------- MODULE JobLifecycle ----------------------------
(***************************************************************************)
(* What a durable Job promises, whichever repository stores it and however *)
(* many workers compete for it: the status and attempt counter of a Job    *)
(* move only along the transitions below.  Times, versions, leases and     *)
(* worker identities are left to the modules that implement this one       *)
(* (JobRepository, JobWorker).                                             *)
(***************************************************************************)
EXTENDS Naturals

CONSTANTS
    Keys,          \* idempotency keys, one Job each
    MaxAttempts    \* CreateRequest.MaxAttempts

VARIABLE life      \* life[k]: the [status, attempt] of the Job with key k

Statuses == {"absent", "queued", "running", "retry_wait", "cancel_requested",
             "cancelled", "succeeded", "failed"}

TerminalStatuses == {"cancelled", "succeeded", "failed"}

Life == [status : Statuses, attempt : 0..MaxAttempts]

-----------------------------------------------------------------------------

Started(a, b) ==
    /\ a.status \in {"queued", "retry_wait", "running"}
    /\ b.status = "running"
    /\ b.attempt = a.attempt + 1

Cancelling(a, b) ==
    /\ \/ a.status = "running" /\ b.status = "cancel_requested"
       \/ a.status \in {"queued", "retry_wait", "cancel_requested"} /\ b.status = "cancelled"
    /\ b.attempt = a.attempt

Completed(a, b) ==
    /\ a.status = "running"
    /\ \/ b.status = "succeeded"
       \/ b.status = "retry_wait" /\ a.attempt < MaxAttempts
       \/ b.status = "failed" /\ a.attempt = MaxAttempts
    /\ b.attempt = a.attempt

\* One Job's step.  A Job fails only once every attempt is used, and only a
\* running Job can succeed.
LifeStep(a, b) ==
    \/ a.status = "absent" /\ b = [status |-> "queued", attempt |-> 0]
    \/ Started(a, b)
    \/ Cancelling(a, b)
    \/ Completed(a, b)

Init == life = [k \in Keys |-> [status |-> "absent", attempt |-> 0]]

\* A sweep may move several Jobs at once, each along its own transitions.
Next ==
    /\ life' \in [Keys -> Life]
    /\ \A k \in Keys : life'[k] = life[k] \/ LifeStep(life[k], life'[k])

Spec == Init /\ [][Next]_life
=============================================================================
