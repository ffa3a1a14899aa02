----------------------------- MODULE JobWorker -----------------------------
(***************************************************************************)
(* Worker.RunOne (internal/orchestration/worker/worker.go), statement by   *)
(* statement, with its lease-renewal goroutine, over a Job store without   *)
(* clocks.  A lease is named by the attempt that Claim started; whether it *)
(* has lapsed is a flag that any amount of time may set, so every          *)
(* interleaving of renewal, expiry, reclaim, cancellation, crash and       *)
(* completion is explored for unbounded time.                              *)
(*                                                                         *)
(* The store's operations are those of JobRepository with the times left   *)
(* out.  A worker that read its clock before a delayed statement may still *)
(* use a lapsed lease as long as nobody has reclaimed the Job, and Claim   *)
(* may hand out a lease that has lapsed already (runWorker passes the time *)
(* of a buffered tick).                                                    *)
(***************************************************************************)
EXTENDS Naturals

CONSTANTS
    Keys,          \* Jobs
    NoKey,         \* not a Job
    Workers,       \* worker processes sharing the store
    MaxAttempts    \* CreateRequest.MaxAttempts

ASSUME WorkerAssumption == MaxAttempts \in Nat \ {0} /\ NoKey \notin Keys

VARIABLES
    jobs,      \* the durable rows
    workers,   \* where each worker is in RunOne
    verified   \* verified[k]: attempts whose action executed and verified

vars == <<jobs, workers, verified>>

Job == [status  : {"absent", "queued", "running", "retry_wait", "cancel_requested",
                   "cancelled", "succeeded", "failed"},
        attempt : 0..MaxAttempts,
        token   : 0..MaxAttempts,    \* 0: no lease
        lapsed  : BOOLEAN,           \* the lease has expired
        output  : 0..MaxAttempts]    \* attempt whose output is stored, 0: none

NoJob == [status |-> "absent", attempt |-> 0, token |-> 0, lapsed |-> FALSE, output |-> 0]

TerminalStatuses == {"cancelled", "succeeded", "failed"}

\* Program points of RunOne, in order; "succeed" and "fail" are the final store
\* calls, made after the renewal goroutine has been stopped.
Renewing == {"claimed", "executing", "executed", "verifying", "completing", "failing"}
Points == {"idle", "succeed", "fail"} \cup Renewing

Worker == [pc      : Points,
           key     : Keys \cup {NoKey},
           token   : 0..MaxAttempts,
           renewal : {"on", "error", "off"}]   \* the goroutine of startLeaseRenewal

Idle == [pc |-> "idle", key |-> NoKey, token |-> 0, renewal |-> "off"]

Init ==
    /\ jobs = [k \in Keys |-> NoJob]
    /\ workers = [w \in Workers |-> Idle]
    /\ verified = [k \in Keys |-> {}]

-----------------------------------------------------------------------------
(* The store *)

Released(j, status) == [j EXCEPT !.status = status, !.token = 0, !.lapsed = FALSE]

\* Mutant of Holds: the token is not compared.
HoldsAny(k, token) == jobs[k].status \in {"running", "cancel_requested"}

Holds(k, token) ==
    /\ jobs[k].status \in {"running", "cancel_requested"}
    /\ jobs[k].token = token

Create(k) ==
    /\ jobs[k].status = "absent"
    /\ jobs' = [jobs EXCEPT ![k].status = "queued"]
    /\ UNCHANGED <<workers, verified>>

RequestCancel(k) ==
    /\ jobs[k].status \notin TerminalStatuses \cup {"absent"}
    /\ jobs' = [jobs EXCEPT ![k] = IF @.status = "running"
                                   THEN [@ EXCEPT !.status = "cancel_requested"]
                                   ELSE Released(@, "cancelled")]
    /\ UNCHANGED <<workers, verified>>

\* Time passes the expiry of a lease.
Lapse(k) ==
    /\ jobs[k].token # 0
    /\ ~jobs[k].lapsed
    /\ jobs' = [jobs EXCEPT ![k].lapsed = TRUE]
    /\ UNCHANGED <<workers, verified>>

\* Mutants of Swept: one of Claim's two UPDATEs is missing.
SweptCancelledOnly(j) ==
    IF j.status = "cancel_requested" /\ j.lapsed THEN Released(j, "cancelled") ELSE j

SweptFailedOnly(j) ==
    IF j.status = "running" /\ j.lapsed /\ j.attempt >= MaxAttempts
    THEN Released(j, "failed") ELSE j

Swept(j) ==
    CASE j.status = "cancel_requested" /\ j.lapsed -> Released(j, "cancelled")
      [] j.status = "running" /\ j.lapsed /\ j.attempt >= MaxAttempts -> Released(j, "failed")
      [] OTHER -> j

Claimable(j) ==
    /\ j.attempt < MaxAttempts
    /\ j.status \in {"queued", "retry_wait"} \/ (j.status = "running" /\ j.lapsed)

Claim(w) ==
    LET swept == [k \in Keys |-> Swept(jobs[k])]
        ready == {k \in Keys : Claimable(jobs[k])}
    IN /\ workers[w].pc = "idle"
       /\ \/ /\ ready = {}
             /\ swept # jobs
             /\ jobs' = swept
             /\ UNCHANGED workers
          \/ \E k \in ready, lapsed \in BOOLEAN :
                LET attempt == jobs[k].attempt + 1
                IN /\ jobs' = [swept EXCEPT ![k] =
                                  [@ EXCEPT !.status = "running", !.attempt = attempt,
                                            !.token = attempt, !.lapsed = lapsed]]
                   /\ workers' = [workers EXCEPT ![w] =
                                     [pc |-> "claimed", key |-> k, token |-> attempt,
                                      renewal |-> "on"]]
       /\ UNCHANGED verified

-----------------------------------------------------------------------------
(* RunOne after Claim *)

Goto(w, pc) == workers' = [workers EXCEPT ![w].pc = pc]

\* Resolve, allowlist and permission checks and the failure injector all precede
\* Execute; each of them can send the attempt to fail().
Begin(w) ==
    /\ workers[w].pc = "claimed"
    /\ Goto(w, "executing") \/ Goto(w, "failing")
    /\ UNCHANGED <<jobs, verified>>

\* definition.Execute returns, with or without an error.
Execute(w) ==
    /\ workers[w].pc = "executing"
    /\ Goto(w, "executed") \/ Goto(w, "failing")
    /\ UNCHANGED <<jobs, verified>>

\* Mutant of CheckCancelled: RunOne goes on to Succeed without Verify.
CheckCancelledUnverified(w) ==
    /\ workers[w].pc = "executed"
    /\ \/ Goto(w, "failing")
       \/ /\ jobs[workers[w].key].status # "cancel_requested"
          /\ Goto(w, "completing")
    /\ UNCHANGED <<jobs, verified>>

\* Repository.Get: cancellation seen, or the read itself failed, sends to fail().
CheckCancelled(w) ==
    /\ workers[w].pc = "executed"
    /\ \/ Goto(w, "failing")
       \/ /\ jobs[workers[w].key].status # "cancel_requested"
          /\ Goto(w, "verifying")
    /\ UNCHANGED <<jobs, verified>>

Verify(w) ==
    /\ workers[w].pc = "verifying"
    /\ \/ /\ Goto(w, "completing")
          /\ verified' = [verified EXCEPT ![workers[w].key] = @ \cup {workers[w].token}]
       \/ /\ Goto(w, "failing")
          /\ UNCHANGED verified
    /\ UNCHANGED jobs

\* stop(): RunOne returns without touching the Job if a renewal had failed.
StopRenewal(w) ==
    /\ workers[w].pc \in {"completing", "failing"}
    /\ LET done == IF workers[w].pc = "completing" THEN "succeed" ELSE "fail"
       IN workers' = [workers EXCEPT ![w] =
                         IF @.renewal = "error" THEN Idle
                         ELSE [@ EXCEPT !.pc = done, !.renewal = "off"]]
    /\ UNCHANGED <<jobs, verified>>

\* Mutant of Succeeded: a cancellation requested meanwhile is overlooked.
SucceededDespiteCancel(j, token) == [Released(j, "succeeded") EXCEPT !.output = token]

Succeeded(j, token) ==
    IF j.status = "cancel_requested" THEN Released(j, "cancelled")
    ELSE [Released(j, "succeeded") EXCEPT !.output = token]

Failed(j, token) ==
    [Released(j, CASE j.status = "cancel_requested" -> "cancelled"
                   [] j.status = "running" /\ j.attempt < MaxAttempts -> "retry_wait"
                   [] OTHER -> "failed") EXCEPT !.output = token]

\* Succeed or Fail: applied if the lease is held.  The answer may be an error
\* although the write was applied, or the call may fail without effect; RunOne
\* returns either way and the next Claim finds what the store kept.
Store(w) ==
    LET k == workers[w].key
        token == workers[w].token
    IN /\ workers[w].pc \in {"succeed", "fail"}
       /\ \/ /\ Holds(k, token)
             /\ jobs' = [jobs EXCEPT ![k] = IF workers[w].pc = "succeed"
                                            THEN Succeeded(@, token) ELSE Failed(@, token)]
          \/ UNCHANGED jobs
       /\ workers' = [workers EXCEPT ![w] = Idle]
       /\ UNCHANGED verified

\* One tick of the renewal goroutine.  A lost or lapsed lease, or a store that
\* does not answer, ends it and cancels the execution context.
Renew(w) ==
    LET k == workers[w].key
        token == workers[w].token
    IN /\ workers[w].pc \in Renewing
       /\ workers[w].renewal = "on"
       /\ \/ /\ Holds(k, token)
             /\ jobs' = [jobs EXCEPT ![k].lapsed = FALSE]
             /\ UNCHANGED workers
          \/ /\ workers' = [workers EXCEPT ![w].renewal = "error"]
             /\ UNCHANGED jobs
       /\ UNCHANGED verified

\* The process dies at any point; nothing of RunOne survives.
Crash(w) ==
    /\ workers[w].pc # "idle"
    /\ workers' = [workers EXCEPT ![w] = Idle]
    /\ UNCHANGED <<jobs, verified>>

RunOne(w) ==
    \/ Begin(w) \/ Execute(w) \/ CheckCancelled(w) \/ Verify(w)
    \/ StopRenewal(w) \/ Store(w)

Next ==
    \/ \E k \in Keys : Create(k) \/ RequestCancel(k) \/ Lapse(k)
    \/ \E w \in Workers : Claim(w) \/ RunOne(w) \/ Renew(w) \/ Crash(w)

\* Nobody is renewing the lease of k any more.
Abandoned(k) ==
    ~\E w \in Workers : /\ workers[w].key = k
                        /\ workers[w].token = jobs[k].token
                        /\ workers[w].pc \in Renewing
                        /\ workers[w].renewal = "on"

\* RunOne's steps are ordinary statements and calls that return; runWorker's
\* ticker calls RunOne again and again; time passes the expiry of a lease nobody
\* renews.  Nothing obliges anyone to create, cancel, crash or renew.
Fairness ==
    /\ \A w \in Workers : WF_vars(RunOne(w))
    /\ WF_vars(\E w \in Workers : Claim(w))
    /\ \A k \in Keys : WF_vars(Abandoned(k) /\ Lapse(k))

Spec == Init /\ [][Next]_vars /\ Fairness

-----------------------------------------------------------------------------
(* Properties *)

\* No false success: a Job is succeeded only if the attempt that stored its
\* output was the newest one and had executed and verified the action, whatever
\* renewals, reclaims, cancellations and crashes happened in between.
NoFalseSuccess ==
    \A k \in Keys : jobs[k].status = "succeeded" =>
       /\ jobs[k].output = jobs[k].attempt
       /\ jobs[k].output \in verified[k]

\* A Job waiting for a retry carries the evidence of the attempt that failed
\* last, never that of an earlier attempt whose worker came back late.
RetryEvidenceIsNewest ==
    \A k \in Keys : jobs[k].status = "retry_wait" => jobs[k].output = jobs[k].attempt

\* What is stored of an attempt is its own: neither a success nor the evidence of
\* a failure comes from a worker that was overtaken (RunOne, Succeed and Fail).
ResultsAreGenuine == NoFalseSuccess /\ RetryEvidenceIsNewest

\* A lease that has not expired is ended only by the worker that holds it: an
\* operator's cancellation leaves it to the worker to finish in order.
LiveLeaseEndsByHolder ==
    [][\A k \in Keys :
          jobs[k].token # 0 /\ ~jobs[k].lapsed /\ jobs'[k].token = 0
             => \E w \in Workers : /\ workers[w].key = k
                                   /\ workers[w].token = jobs[k].token
                                   /\ workers[w].pc # "idle"
                                   /\ workers'[w].pc = "idle"]_vars

\* Every Job ends: attempts are bounded, a crashed worker's lease lapses, and
\* Claim reclaims or fails what was left behind.
EveryJobEnds ==
    \A k \in Keys : jobs[k].status = "queued" ~> jobs[k].status \in TerminalStatuses

\* A requested cancellation takes effect although the worker that should carry it
\* out may crash, lose its lease or never look at the Job again.
CancellationCompletes ==
    \A k \in Keys : jobs[k].status = "cancel_requested" ~> jobs[k].status = "cancelled"

\* Nothing stays under way: queued Jobs end, and cancelled ones as cancelled
\* (Claim's sweeps, RunOne).
JobsEnd == EveryJobEnds /\ CancellationCompletes

\* Workers sharing the store implement the Job life cycle.
Lifecycle ==
    INSTANCE JobLifecycle WITH
       life <- [k \in Keys |-> [status |-> jobs[k].status, attempt |-> jobs[k].attempt]]

ImplementsLifecycle == Lifecycle!Spec
=============================================================================
