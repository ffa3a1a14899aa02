---------------------------- MODULE JobRepository ----------------------------
(***************************************************************************)
(* The durable Job store as the control plane runs it: the PostgreSQL      *)
(* implementation of job.Repository (internal/persistence/postgres/jobs.go *)
(* and jobs_cancel_version.go).  Its in-memory twin (job/memory.go) has    *)
(* the same per-row operations; module MemoryRepository compares the two. *)
(*                                                                         *)
(* Jobs are named by their idempotency key, which is unique in both        *)
(* stores.  A lease token is named by the version of the write that issued *)
(* it: PostgreSQL draws 32 random bytes, the memory store hashes the       *)
(* version, and both are compared only for equality.  Token 0 is NULL.     *)
(*                                                                         *)
(* Every operation takes the caller's idea of the current time.  A worker  *)
(* reads its clock before its statement runs, and runWorker hands Claim    *)
(* the time of a buffered ticker event, so a worker's time may be up to    *)
(* MaxLag behind.  Any worker may present any token Claim ever handed out: *)
(* one whose lease was lost does not know it.                              *)
(***************************************************************************)
EXTENDS Naturals, FiniteSets

CONSTANTS
    Keys,          \* idempotency keys
    MaxAttempts,   \* CreateRequest.MaxAttempts
    LeaseTTL,      \* Worker.LeaseTTL
    Delay,         \* Delay[a]: RetryDelay after attempt a
    MaxLag,        \* bound: how far a caller's time may lag behind the clock
    MaxClock,      \* bound: last clock value explored
    MaxVersion     \* bound: no lease is renewed past this Job version

ASSUME JobAssumption ==
    /\ MaxAttempts \in Nat \ {0}
    /\ LeaseTTL \in Nat \ {0}
    /\ Delay \in [1..MaxAttempts -> Nat]
    /\ MaxLag \in Nat
    /\ MaxClock \in Nat
    /\ MaxVersion \in Nat

VARIABLES
    jobs,     \* cc_jobs: jobs[k] is the row with idempotency key k
    clock,    \* the real time
    leases    \* leases[k]: every token Claim has handed out for job k

vars == <<jobs, clock, leases>>

-----------------------------------------------------------------------------
(* Rows *)

Statuses == {"absent", "queued", "running", "retry_wait", "cancel_requested",
             "cancelled", "succeeded", "failed"}

TerminalStatuses == {"cancelled", "succeeded", "failed"}

Job == [status    : Statuses,
        attempt   : 0..MaxAttempts,
        next      : Nat,    \* next_attempt_at, 0 when NULL
        token     : Nat,    \* lease_token, 0 when NULL
        expires   : Nat,    \* lease_expires_at, 0 when NULL
        output    : Nat,    \* token of the caller whose output is stored, 0 when NULL
        createdAt : Nat,
        updatedAt : Nat,
        version   : Nat]

NoJob == [status |-> "absent", attempt |-> 0, next |-> 0, token |-> 0, expires |-> 0,
          output |-> 0, createdAt |-> 0, updatedAt |-> 0, version |-> 0]

Terminal(j) == j.status \in TerminalStatuses

\* Mutant of Leased: whoever holds the lease, any token will do.
LeasedByAnyone(j, token, now) ==
    /\ j.status \in {"running", "cancel_requested"}
    /\ j.token # 0
    /\ j.expires > now

\* WHERE lease_token=$2 AND lease_expires_at>now AND status IN (running, cancel_requested)
Leased(j, token, now) ==
    /\ j.status \in {"running", "cancel_requested"}
    /\ j.token # 0
    /\ j.token = token
    /\ j.expires > now

\* Mutant of Expired: the boundary is off by one.
ExpiredEarly(j, now) == j.token # 0 /\ j.expires <= now + 1

\* lease_expires_at <= now; a NULL lease is never expired.
Expired(j, now) == j.token # 0 /\ j.expires <= now

\* Mutant of Written: the version is left alone.
WrittenInPlace(j, status, now) == [j EXCEPT !.status = status, !.updatedAt = now]

\* Every write stamps the row and advances its version by one.
Written(j, status, now) ==
    [j EXCEPT !.status = status, !.updatedAt = now, !.version = @ + 1]

Released(j, status, now) ==
    [Written(j, status, now) EXCEPT !.token = 0, !.expires = 0]

\* What a worker may believe the time to be.
Now == {n \in 1..clock : clock <= n + MaxLag}

-----------------------------------------------------------------------------
(* Operations *)

Init ==
    /\ jobs = [k \in Keys |-> NoJob]
    /\ clock = 1
    /\ leases = [k \in Keys |-> {}]

\* INSERT ... ON CONFLICT (idempotency_key) DO NOTHING.  A replay of a known key
\* returns the stored row or a conflict and writes nothing.
Create(k, now) ==
    /\ jobs[k].status = "absent"
    /\ jobs' = [jobs EXCEPT ![k] =
                   [NoJob EXCEPT !.status = "queued", !.createdAt = now,
                                 !.updatedAt = now, !.version = 1]]
    /\ UNCHANGED <<clock, leases>>

\* The two UPDATEs Claim runs over the whole table before it selects a row.
Swept(j, now) ==
    CASE j.status = "cancel_requested" /\ Expired(j, now) -> Released(j, "cancelled", now)
      [] /\ j.attempt >= MaxAttempts
         /\ \/ j.status \in {"queued", "retry_wait"}
            \/ j.status = "running" /\ Expired(j, now)    -> Released(j, "failed", now)
      [] OTHER -> j

\* Mutant of Claimable: without the retry delay.
ClaimableAtOnce(j, now) ==
    /\ j.attempt < MaxAttempts
    /\ j.status \in {"queued", "retry_wait"} \/ (j.status = "running" /\ Expired(j, now))

Claimable(j, now) ==
    /\ j.attempt < MaxAttempts
    /\ \/ j.status = "queued"
       \/ j.status = "retry_wait" /\ j.next <= now
       \/ j.status = "running" /\ Expired(j, now)

Claimed(j, now) ==
    [Written(j, "running", now) EXCEPT
        !.attempt = @ + 1, !.next = 0, !.token = j.version + 1, !.expires = now + LeaseTTL]

\* One transaction.  SELECT ... ORDER BY created_at,id FOR UPDATE SKIP LOCKED
\* takes the oldest claimable row among those no concurrent transaction has
\* locked; ids are random, so rows created at the same instant come in any order.
Claim(now, locked) ==
    LET swept == [k \in Keys |-> Swept(jobs[k], now)]
        ready == {k \in Keys \ locked : Claimable(jobs[k], now)}
    IN /\ \/ /\ ready = {}
             /\ jobs' = swept
             /\ UNCHANGED leases
          \/ \E k \in ready :
                /\ \A o \in ready : jobs[k].createdAt <= jobs[o].createdAt
                /\ jobs' = [swept EXCEPT ![k] = Claimed(jobs[k], now)]
                /\ leases' = [leases EXCEPT ![k] = @ \cup {jobs[k].version + 1}]
       /\ UNCHANGED clock

RenewLease(k, token, now) ==
    /\ Leased(jobs[k], token, now)
    /\ jobs[k].version < MaxVersion
    /\ jobs' = [jobs EXCEPT ![k] =
                   [Written(@, @.status, now) EXCEPT !.expires = now + LeaseTTL]]
    /\ UNCHANGED <<clock, leases>>

\* Mutant of Succeeded: a cancellation requested meanwhile is overlooked.
SucceededDespiteCancel(j, token, now) ==
    [Released(j, "succeeded", now) EXCEPT !.output = token]

\* A Job whose cancellation was requested meanwhile is cancelled, its output dropped.
Succeeded(j, token, now) ==
    IF j.status = "cancel_requested"
    THEN Released(j, "cancelled", now)
    ELSE [Released(j, "succeeded", now) EXCEPT !.output = token]

Succeed(k, token, now) ==
    /\ Leased(jobs[k], token, now)
    /\ jobs' = [jobs EXCEPT ![k] = Succeeded(@, token, now)]
    /\ UNCHANGED <<clock, leases>>

\* Mutant of Failed: one retry too many.
FailedOneTooMany(j, token, now) ==
    [Released(j, IF j.status = "cancel_requested" THEN "cancelled" ELSE "retry_wait", now)
        EXCEPT !.output = token,
               !.next = IF j.status = "running" THEN now + Delay[j.attempt] ELSE 0]

\* The failure output is stored whatever the Job becomes.
Failed(j, token, now) ==
    LET retry == j.status = "running" /\ j.attempt < MaxAttempts
        status == CASE j.status = "cancel_requested" -> "cancelled"
                    [] retry -> "retry_wait"
                    [] OTHER -> "failed"
    IN [Released(j, status, now) EXCEPT
           !.output = token,
           !.next = IF retry THEN now + Delay[j.attempt] ELSE 0]

Fail(k, token, now) ==
    /\ Leased(jobs[k], token, now)
    /\ jobs' = [jobs EXCEPT ![k] = Failed(@, token, now)]
    /\ UNCHANGED <<clock, leases>>

\* Mutant of Cancelled: the lease columns are not cleared.
CancelledKeepingLease(j, now) ==
    CASE Terminal(j)          -> j
      [] j.status = "running" -> Written(j, "cancel_requested", now)
      [] OTHER                -> Written(j, "cancelled", now)

Cancelled(j, now) ==
    CASE Terminal(j)            -> j
      [] j.status = "running"   -> Written(j, "cancel_requested", now)
      [] OTHER                  -> Released(j, "cancelled", now)

\* The unconditional form of the repository interface.
RequestCancel(k, now) ==
    /\ jobs[k].status # "absent"
    /\ jobs' = [jobs EXCEPT ![k] = Cancelled(@, now)]
    /\ UNCHANGED <<clock, leases>>

\* Mutant of RequestCancelIfVersion: an older version is accepted.
RequestCancelSinceVersion(k, expected, now) ==
    /\ jobs[k].status # "absent"
    /\ jobs[k].version >= expected
    /\ jobs' = [jobs EXCEPT ![k] = Cancelled(@, now)]
    /\ UNCHANGED <<clock, leases>>

\* The form behind POST /jobs/{id}/cancel: bound to the version the operator saw.
RequestCancelIfVersion(k, expected, now) ==
    /\ jobs[k].status # "absent"
    /\ jobs[k].version = expected
    /\ jobs' = [jobs EXCEPT ![k] = Cancelled(@, now)]
    /\ UNCHANGED <<clock, leases>>

Tick ==
    /\ clock < MaxClock
    /\ clock' = clock + 1
    /\ UNCHANGED <<jobs, leases>>

Next ==
    \/ \E k \in Keys :
          \/ Create(k, clock)
          \/ RequestCancel(k, clock)
          \/ \E v \in 1..jobs[k].version : RequestCancelIfVersion(k, v, clock)
          \/ \E token \in leases[k], now \in Now :
                \/ RenewLease(k, token, now)
                \/ Succeed(k, token, now)
                \/ Fail(k, token, now)
    \/ \E now \in Now, locked \in SUBSET Keys : Claim(now, locked)
    \/ Tick

Spec == Init /\ [][Next]_vars

-----------------------------------------------------------------------------
(* Properties *)

\* The table holds rows; tokens are versions.
TypeOK ==
    /\ jobs \in [Keys -> Job]
    /\ clock \in Nat \ {0}
    /\ leases \in [Keys -> SUBSET Nat]

\* A row carries a lease exactly while its Job is in flight, and it is the lease
\* of the newest claim: no write by a worker that lost its lease, no cancellation
\* and no sweep ever leaves a running Job nobody can finish or a finished Job
\* somebody still holds (the table's CHECKs do not tie the lease to the status).
LeaseHeldIffInFlight ==
    \A k \in Keys :
       /\ jobs[k].status \in {"running", "cancel_requested"} <=> jobs[k].token # 0
       /\ jobs[k].token # 0 => /\ jobs[k].token \in leases[k]
                               /\ \A t \in leases[k] : t <= jobs[k].token

\* A Job is failed only after its last attempt, and waits for a retry only while
\* attempts remain, whether Fail or Claim's sweep decided it.
AttemptsMatchStatus ==
    \A k \in Keys :
       /\ jobs[k].status = "failed" => jobs[k].attempt = MaxAttempts
       /\ jobs[k].status = "retry_wait" => jobs[k].attempt \in 1..(MaxAttempts - 1)
       /\ jobs[k].status \in {"absent", "queued"} => jobs[k].attempt = 0
       /\ jobs[k].token # 0 => jobs[k].attempt > 0

\* The output of a succeeded Job was written by the holder of the newest lease:
\* a worker that was presumed dead and reclaimed cannot publish its result.
OutputFromNewestClaim ==
    \A k \in Keys : jobs[k].status = "succeeded" =>
       /\ jobs[k].output \in leases[k]
       /\ \A t \in leases[k] : t <= jobs[k].output

\* What the row of a Job says of lease, attempts and output is right, whoever wrote
\* it last (Claim with its sweeps, Succeed, Fail and the cancellations).
RowsAreSound == LeaseHeldIffInFlight /\ AttemptsMatchStatus /\ OutputFromNewestClaim

\* Claim takes a Job from a worker only after that worker's lease has really
\* expired, however stale the time the claimer was given.
NoEarlyReclaim ==
    [][\A k \in Keys :
          jobs'[k].attempt > jobs[k].attempt /\ jobs[k].token # 0
             => jobs[k].expires <= clock]_vars

\* A failed attempt is not repeated before its retry delay has passed since the
\* failure was written.
RetryWaitsForDelay ==
    [][\A k \in Keys :
          jobs[k].status = "retry_wait" /\ jobs'[k].status = "running"
             => clock >= jobs[k].updatedAt + Delay[jobs[k].attempt]]_vars

\* Every write of a row advances its version by exactly one, also when one
\* transaction sweeps many rows: the version names the row's contents, which is
\* what If-Match cancellation and the timeline key (job_id, job_version) rely on.
VersionCountsWrites ==
    [][\A k \in Keys : jobs'[k] # jobs[k] => jobs'[k].version = jobs[k].version + 1]_vars

\* A write comes neither too early nor unseen: a Job is claimed again only after
\* its lease or its delay has passed, and every write is a version (Claim, Fail).
WritesAreInOrder == NoEarlyReclaim /\ RetryWaitsForDelay /\ VersionCountsWrites

\* The store implements the Job life cycle.
Lifecycle ==
    INSTANCE JobLifecycle WITH
       life <- [k \in Keys |-> [status |-> jobs[k].status, attempt |-> jobs[k].attempt]]

ImplementsLifecycle == Lifecycle!Spec
=============================================================================
