-------------------------- MODULE JobClientsProofs --------------------------
(***************************************************************************)
(* Proofs about those who use the Job store: the workers that run Jobs     *)
(* (JobWorker), the delays between their attempts (RetryDelay) and the     *)
(* operators who retry a failed Job by hand (ManualRetry); for any number  *)
(* of Jobs, workers, attempts, operators and policies.                     *)
(*                                                                         *)
(* Workers: a lease is named by the newest attempt while there is one      *)
(* (RowInv), and a worker that is about to report success has verified its *)
(* attempt (WorkerInv).  So a write that the store accepts is one of the   *)
(* newest attempt, and a success one of a verified attempt.                *)
(*                                                                         *)
(* Delays: the loop of RetryDelay follows the exact doublings until the    *)
(* next one would pass its limit, so nothing it computes wraps.            *)
(*                                                                         *)
(* Retries: the lineage is a chain (ChainOf), which Walk walks from end to *)
(* end.  An admission was made where the chain ended (AdmissionInv); since *)
(* a source is retried once, that is still its end when the retry is       *)
(* created from it (EntryAtTheEnd).                                        *)
(***************************************************************************)
EXTENDS JobWorker, RetryDelay, ManualRetry,
        NaturalsInduction, WellFoundedInduction, FiniteSetTheorems, TLAPS

-----------------------------------------------------------------------------
(* Workers *)

InFlight == {"running", "cancel_requested"}

\* A row, and the attempts of it whose action was verified.
RowInv(j, done) ==
    /\ j \in Job
    /\ j.token = IF j.status \in InFlight THEN j.attempt ELSE 0
    /\ j.status = "absent" => j.attempt = 0
    /\ j.status = "succeeded" => j.output = j.attempt /\ j.output \in done
    /\ j.status = "retry_wait" => j.output = j.attempt

\* A worker, and the verified attempts of every Job.
WorkerInv(u, done) ==
    /\ u \in Worker
    /\ u.pc # "idle" => u.key \in Keys
    /\ u.pc \in {"completing", "succeed"} => u.token \in done[u.key]

IInv ==
    /\ jobs \in [Keys -> Job]
    /\ workers \in [Workers -> Worker]
    /\ verified \in [Keys -> SUBSET (0..MaxAttempts)]
    /\ \A k \in Keys : RowInv(jobs[k], verified[k])
    /\ \A w \in Workers : WorkerInv(workers[w], verified)

LifeOf(j) == [status |-> j.status, attempt |-> j.attempt]

\* What one step may do to a row.
RowStep(j, i) == LifeOf(i) = LifeOf(j) \/ Lifecycle!LifeStep(LifeOf(j), LifeOf(i))

\* A row that an operation of the store may leave behind.
GoodRow(j, i, done) == RowInv(i, done) /\ RowStep(j, i)

-----------------------------------------------------------------------------
(* The store *)

\* Replacing fields of a row by values of their types gives a row.
LEMMA RowType ==
    ASSUME NEW j \in Job, NEW s \in Lifecycle!Statuses, NEW a \in 0..MaxAttempts,
           NEW t \in 0..MaxAttempts, NEW b \in BOOLEAN
    PROVE  /\ [j EXCEPT !.status = s] \in Job
           /\ [j EXCEPT !.lapsed = b] \in Job
           /\ [j EXCEPT !.output = t] \in Job
           /\ [j EXCEPT !.status = s, !.token = t, !.lapsed = b] \in Job
           /\ [j EXCEPT !.status = s, !.attempt = a, !.token = t, !.lapsed = b] \in Job
  BY Zenon DEF Job, Lifecycle!Statuses

\* A row whose lease was taken away, with or without evidence of its attempt.
LEMMA ReleasedRow ==
    ASSUME NEW j \in Job, NEW s \in Lifecycle!Statuses, NEW t \in 0..MaxAttempts
    PROVE  /\ Released(j, s) \in Job
           /\ Released(j, s).status = s
           /\ Released(j, s).attempt = j.attempt
           /\ Released(j, s).token = 0
           /\ [Released(j, s) EXCEPT !.output = t] \in Job
           /\ [Released(j, s) EXCEPT !.output = t].status = s
           /\ [Released(j, s) EXCEPT !.output = t].attempt = j.attempt
           /\ [Released(j, s) EXCEPT !.output = t].token = 0
           /\ [Released(j, s) EXCEPT !.output = t].output = t
<1> DEFINE r == Released(j, s)
<1>1. 0 \in 0..MaxAttempts /\ FALSE \in BOOLEAN
  BY WorkerAssumption
<1>2. r \in Job
  BY Zenon, <1>1, RowType DEF Released
<1>3. r.status = s /\ r.attempt = j.attempt /\ r.token = 0
  BY DEF Released, Job
<1> HIDE DEF r
<1>4. [r EXCEPT !.output = t] \in Job
  BY Zenon, <1>2, <1>1, RowType
<1> DEFINE o == [r EXCEPT !.output = t]
<1>5. o.status = s /\ o.attempt = j.attempt /\ o.token = 0 /\ o.output = t
  BY <1>2, <1>3 DEF Job
<1> QED
  BY <1>2, <1>3, <1>4, <1>5 DEF r

\* Leaving a row alone is fine, also when more of its attempts are verified.
LEMMA SameRow ==
    ASSUME NEW j, NEW done, NEW more, done \subseteq more, RowInv(j, done)
    PROVE  GoodRow(j, j, more)
  BY DEF GoodRow, RowInv, RowStep

\* A lease that lapses or is renewed changes nothing but the flag.
LEMMA LapsedRow ==
    ASSUME NEW j, NEW done, RowInv(j, done), NEW b \in BOOLEAN
    PROVE  GoodRow(j, [j EXCEPT !.lapsed = b], done)
<1>1. [j EXCEPT !.lapsed = b] = [status |-> j.status, attempt |-> j.attempt,
           token |-> j.token, lapsed |-> b, output |-> j.output]
  BY DEF RowInv, Job
<1> QED
  BY <1>1 DEF GoodRow, RowInv, RowStep, LifeOf, Job

\* Create.
LEMMA CreatedRow ==
    ASSUME NEW j, NEW done, RowInv(j, done), j.status = "absent"
    PROVE  GoodRow(j, [j EXCEPT !.status = "queued"], done)
<1>1. [j EXCEPT !.status = "queued"] = [status |-> "queued", attempt |-> j.attempt,
           token |-> j.token, lapsed |-> j.lapsed, output |-> j.output]
  BY DEF RowInv, Job
<1>2. j.attempt = 0 /\ j.token = 0
  BY DEF RowInv, InFlight
<1> QED
  BY <1>1, <1>2 DEF GoodRow, RowInv, RowStep, LifeOf, Job, InFlight, Lifecycle!LifeStep

\* A row that lost its lease, with the same attempt and the status of a step of the
\* life cycle.
LEMMA LeftRow ==
    ASSUME NEW j, NEW i \in Job, NEW done, RowInv(j, done),
           i.attempt = j.attempt, i.token = 0,
           \/ i.status = "cancelled" /\ j.status \in {"queued", "retry_wait", "cancel_requested"}
           \/ i.status = "failed" /\ j.status = "running" /\ j.attempt = MaxAttempts
           \/ /\ i.status = "retry_wait" /\ j.status = "running"
              /\ j.attempt < MaxAttempts /\ i.output = j.attempt
           \/ /\ i.status = "succeeded" /\ j.status = "running"
              /\ i.output = j.attempt /\ j.attempt \in done
    PROVE  GoodRow(j, i, done)
<1>1. RowInv(i, done)
  BY DEF RowInv, InFlight
<1>2. Lifecycle!LifeStep(LifeOf(j), LifeOf(i))
  BY DEF LifeOf, Lifecycle!LifeStep, Lifecycle!Cancelling, Lifecycle!Completed
<1> QED
  BY <1>1, <1>2 DEF GoodRow, RowStep

\* Taking the lease away, without and with evidence, is such a step.
LEMMA EndedRow ==
    ASSUME NEW j, NEW done, RowInv(j, done), NEW s \in Lifecycle!Statuses,
           \/ s = "cancelled" /\ j.status \in {"queued", "retry_wait", "cancel_requested"}
           \/ s = "failed" /\ j.status = "running" /\ j.attempt = MaxAttempts
    PROVE  /\ GoodRow(j, Released(j, s), done)
           /\ \A t \in 0..MaxAttempts : GoodRow(j, [Released(j, s) EXCEPT !.output = t], done)
<1>1. j \in Job /\ 0 \in 0..MaxAttempts
  BY WorkerAssumption DEF RowInv
<1>2. ASSUME NEW t \in 0..MaxAttempts
      PROVE  /\ GoodRow(j, Released(j, s), done)
             /\ GoodRow(j, [Released(j, s) EXCEPT !.output = t], done)
  <2> DEFINE r == Released(j, s)
             o == [r EXCEPT !.output = t]
  <2>1. /\ r \in Job /\ r.status = s /\ r.attempt = j.attempt /\ r.token = 0
        /\ o \in Job /\ o.status = s /\ o.attempt = j.attempt /\ o.token = 0
    BY <1>1, ReleasedRow
  <2> HIDE DEF r, o
  <2>2. GoodRow(j, r, done)
    BY <2>1, LeftRow
  <2>3. GoodRow(j, o, done)
    BY <2>1, LeftRow
  <2> QED
    BY <2>2, <2>3 DEF r, o
<1> QED
  BY Zenon, <1>1, <1>2

LEMMA ReportedRow ==
    ASSUME NEW j, NEW done, RowInv(j, done), NEW s \in Lifecycle!Statuses, j.status = "running",
           \/ s = "retry_wait" /\ j.attempt < MaxAttempts
           \/ s = "succeeded" /\ j.attempt \in done
    PROVE  GoodRow(j, [Released(j, s) EXCEPT !.output = j.attempt], done)
<1> DEFINE t == j.attempt
           o == [Released(j, s) EXCEPT !.output = t]
<1>1. j \in Job /\ t \in 0..MaxAttempts
  BY DEF RowInv, Job
<1>2. o \in Job /\ o.status = s /\ o.attempt = j.attempt /\ o.token = 0 /\ o.output = t
  <2> HIDE DEF t
  <2> QED
    BY <1>1, ReleasedRow
<1> HIDE DEF o
<1>3. GoodRow(j, o, done)
  BY <1>2, LeftRow
<1> QED
  BY <1>3 DEF o

\* RequestCancel, on a row that exists and has not ended.
LEMMA CancelledRow ==
    ASSUME NEW j, NEW done, RowInv(j, done),
           j.status \notin TerminalStatuses \cup {"absent"}
    PROVE  GoodRow(j, IF j.status = "running"
                      THEN [j EXCEPT !.status = "cancel_requested"]
                      ELSE Released(j, "cancelled"), done)
<1>1. j \in Job
  BY DEF RowInv
<1>2. CASE j.status = "running"
  <2>1. [j EXCEPT !.status = "cancel_requested"]
          = [status |-> "cancel_requested", attempt |-> j.attempt,
             token |-> j.token, lapsed |-> j.lapsed, output |-> j.output]
    BY <1>1 DEF Job
  <2> QED
    BY <1>1, <1>2, <2>1 DEF GoodRow, RowInv, RowStep, LifeOf, Job, InFlight,
       Lifecycle!LifeStep, Lifecycle!Cancelling
<1>3. CASE j.status # "running"
  <2>1. j.status \in {"queued", "retry_wait", "cancel_requested"}
    BY <1>1, <1>3 DEF Job, TerminalStatuses
  <2>2. "cancelled" \in Lifecycle!Statuses /\ 0 \in 0..MaxAttempts
    BY WorkerAssumption DEF Lifecycle!Statuses
  <2>3. GoodRow(j, Released(j, "cancelled"), done)
    BY <2>1, <2>2, EndedRow
  <2> QED
    BY <1>3, <2>3
<1> QED
  BY <1>2, <1>3

\* The two sweeps of Claim.
LEMMA SweptRow ==
    ASSUME NEW j, NEW done, RowInv(j, done)
    PROVE  GoodRow(j, Swept(j), done)
<1>1. j \in Job
  BY DEF RowInv
<1>2. {"cancelled", "failed"} \subseteq Lifecycle!Statuses /\ 0 \in 0..MaxAttempts
  BY WorkerAssumption DEF Lifecycle!Statuses
<1>3. CASE j.status = "cancel_requested" /\ j.lapsed
  <2>1. Swept(j) = Released(j, "cancelled")
    BY <1>3 DEF Swept
  <2> QED
    BY <1>1, <1>2, <1>3, <2>1, EndedRow
<1>4. CASE j.status = "running" /\ j.lapsed /\ j.attempt >= MaxAttempts
  <2>1. Swept(j) = Released(j, "failed")
    BY <1>4 DEF Swept
  <2>2. j.attempt = MaxAttempts
    BY <1>1, <1>4, WorkerAssumption DEF Job
  <2> QED
    BY <1>2, <1>4, <2>1, <2>2, EndedRow
<1>5. CASE /\ ~(j.status = "cancel_requested" /\ j.lapsed)
           /\ ~(j.status = "running" /\ j.lapsed /\ j.attempt >= MaxAttempts)
  <2>1. Swept(j) = j
    BY <1>5 DEF Swept
  <2> QED
    BY <2>1, SameRow
<1> QED
  BY <1>3, <1>4, <1>5

\* The row Claim takes, which the sweeps have left alone.
LEMMA ClaimedRow ==
    ASSUME NEW j, NEW done, RowInv(j, done), Claimable(j), NEW b \in BOOLEAN
    PROVE  /\ j.attempt + 1 \in 0..MaxAttempts
           /\ GoodRow(j, [Swept(j) EXCEPT !.status = "running", !.attempt = j.attempt + 1,
                             !.token = j.attempt + 1, !.lapsed = b], done)
<1> DEFINE a == j.attempt + 1
           i == [j EXCEPT !.status = "running", !.attempt = a, !.token = a, !.lapsed = b]
<1>1. j \in Job /\ j.attempt < MaxAttempts
  BY DEF RowInv, Claimable
<1>2. a \in 0..MaxAttempts
  BY <1>1, WorkerAssumption DEF Job
<1>3. j.status \in {"queued", "retry_wait", "running"}
  BY DEF Claimable
<1>4. Swept(j) = j
  BY <1>1, <1>3, WorkerAssumption DEF Swept, Job
<1>5. i.status = "running" /\ i.attempt = a /\ i.token = a
  BY <1>1 DEF Job
<1>6. i \in Job
  <2>1. "running" \in Lifecycle!Statuses
    BY DEF Lifecycle!Statuses
  <2> HIDE DEF a
  <2> QED
    BY Zenon, <1>1, <1>2, <2>1, RowType
<1> HIDE DEF i
<1>7. GoodRow(j, i, done)
  BY <1>3, <1>5, <1>6 DEF GoodRow, RowInv, RowStep, LifeOf, InFlight,
     Lifecycle!LifeStep, Lifecycle!Started
<1> QED
  BY <1>2, <1>4, <1>7 DEF i

\* Succeed, by the holder of the lease, whose attempt was verified.
LEMMA SucceededRow ==
    ASSUME NEW j, NEW done, RowInv(j, done), j.status \in InFlight, j.token \in done
    PROVE  GoodRow(j, Succeeded(j, j.token), done)
<1>1. j \in Job /\ j.token = j.attempt /\ j.token \in 0..MaxAttempts
  BY DEF RowInv, Job
<1>2. {"cancelled", "succeeded"} \subseteq Lifecycle!Statuses
  BY DEF Lifecycle!Statuses
<1>3. CASE j.status = "cancel_requested"
  <2>1. Succeeded(j, j.token) = Released(j, "cancelled")
    BY <1>3 DEF Succeeded
  <2> QED
    BY <1>1, <1>2, <1>3, <2>1, EndedRow
<1>4. CASE j.status = "running"
  <2>1. Succeeded(j, j.token) = [Released(j, "succeeded") EXCEPT !.output = j.token]
    BY <1>4 DEF Succeeded
  <2> QED
    BY <1>1, <1>2, <1>4, <2>1, ReportedRow
<1> QED
  BY <1>3, <1>4 DEF InFlight

\* Fail, by the holder of the lease.
LEMMA FailedRow ==
    ASSUME NEW j, NEW done, RowInv(j, done), j.status \in InFlight
    PROVE  GoodRow(j, Failed(j, j.token), done)
<1>1. j \in Job /\ j.token = j.attempt /\ j.token \in 0..MaxAttempts
  BY DEF RowInv, Job
<1>2. {"cancelled", "retry_wait", "failed"} \subseteq Lifecycle!Statuses
  BY DEF Lifecycle!Statuses
<1>3. CASE j.status = "cancel_requested"
  <2>1. Failed(j, j.token) = [Released(j, "cancelled") EXCEPT !.output = j.token]
    BY <1>3 DEF Failed
  <2> QED
    BY <1>1, <1>2, <1>3, <2>1, EndedRow
<1>4. CASE j.status = "running" /\ j.attempt < MaxAttempts
  <2>1. Failed(j, j.token) = [Released(j, "retry_wait") EXCEPT !.output = j.token]
    BY <1>4 DEF Failed
  <2> QED
    BY <1>1, <1>2, <1>4, <2>1, ReportedRow
<1>5. CASE j.status = "running" /\ ~(j.attempt < MaxAttempts)
  <2>1. Failed(j, j.token) = [Released(j, "failed") EXCEPT !.output = j.token]
    BY <1>5 DEF Failed
  <2>2. j.attempt = MaxAttempts
    BY <1>1, <1>5, WorkerAssumption DEF Job
  <2> QED
    BY <1>1, <1>2, <1>5, <2>1, <2>2, EndedRow
<1> QED
  BY <1>3, <1>4, <1>5 DEF InFlight
-----------------------------------------------------------------------------
(* From one row and one worker to all of them *)

\* What a step does to the rows, to what was verified and to the workers.
RowsStep ==
    /\ jobs' \in [Keys -> Job]
    /\ \A k \in Keys : GoodRow(jobs[k], jobs'[k], verified'[k])

VerifiedStep ==
    /\ verified' \in [Keys -> SUBSET (0..MaxAttempts)]
    /\ \A k \in Keys : verified[k] \subseteq verified'[k]

WorkersStep ==
    /\ workers' \in [Workers -> Worker]
    /\ \A w \in Workers : WorkerInv(workers'[w], verified')

\* The rows after a step that replaces one of them, or all.
LEMMA OneRow ==
    ASSUME IInv, NEW k \in Keys, NEW i, jobs' = [jobs EXCEPT ![k] = i],
           verified' = verified, GoodRow(jobs[k], i, verified[k])
    PROVE  RowsStep
<1>1. i \in Job
  BY DEF GoodRow, RowInv
<1>2. ASSUME NEW l \in Keys
      PROVE  GoodRow(jobs[l], jobs'[l], verified'[l])
  <2>1. CASE l = k
    BY <2>1 DEF IInv
  <2>2. CASE l # k
    <3>1. jobs'[l] = jobs[l] /\ RowInv(jobs[l], verified[l])
      BY <2>2 DEF IInv
    <3> QED
      BY <3>1, SameRow
  <2> QED
    BY <2>1, <2>2
<1> QED
  BY <1>1, <1>2 DEF RowsStep, IInv

LEMMA SameRows ==
    ASSUME IInv, VerifiedStep, jobs' = jobs
    PROVE  RowsStep
<1>1. ASSUME NEW k \in Keys
      PROVE  GoodRow(jobs[k], jobs'[k], verified'[k])
  BY SameRow DEF IInv, VerifiedStep
<1> QED
  BY <1>1 DEF RowsStep, IInv

\* The workers after a step that replaces one of them.
LEMMA OneWorker ==
    ASSUME IInv, VerifiedStep, NEW w \in Workers, NEW u,
           workers' = [workers EXCEPT ![w] = u], WorkerInv(u, verified')
    PROVE  WorkersStep
<1>1. u \in Worker
  BY DEF WorkerInv
<1>2. ASSUME NEW v \in Workers
      PROVE  WorkerInv(workers'[v], verified')
  <2>1. CASE v = w
    BY <2>1 DEF IInv
  <2>2. CASE v # w
    <3>1. workers'[v] = workers[v] /\ WorkerInv(workers[v], verified)
      BY <2>2 DEF IInv
    <3> QED
      BY <3>1 DEF WorkerInv, VerifiedStep
  <2> QED
    BY <2>1, <2>2
<1> QED
  BY <1>1, <1>2 DEF WorkersStep, IInv

LEMMA SameWorkers ==
    ASSUME IInv, VerifiedStep, workers' = workers
    PROVE  WorkersStep
<1>1. ASSUME NEW v \in Workers
      PROVE  WorkerInv(workers'[v], verified')
  BY DEF WorkerInv, VerifiedStep, IInv
<1> QED
  BY <1>1 DEF WorkersStep, IInv

LEMMA SameVerified ==
    ASSUME IInv, verified' = verified
    PROVE  VerifiedStep
  BY DEF VerifiedStep, IInv

\* An idle worker, and one that moves on, are fine.
LEMMA IdleWorker ==
    ASSUME NEW done
    PROVE  WorkerInv(Idle, done)
  BY WorkerAssumption DEF WorkerInv, Idle, Worker, Points, Renewing

LEMMA MovedWorker ==
    ASSUME IInv, NEW w \in Workers, workers[w].pc # "idle", NEW pc \in Points, NEW done,
           pc \in {"completing", "succeed"} => workers[w].token \in done[workers[w].key],
           NEW on \in {"on", "error", "off"}
    PROVE  /\ WorkerInv([workers[w] EXCEPT !.pc = pc], done)
           /\ WorkerInv([workers[w] EXCEPT !.pc = pc, !.renewal = on], done)
<1> DEFINE v == workers[w]
           u == [v EXCEPT !.pc = pc]
           x == [v EXCEPT !.pc = pc, !.renewal = on]
<1>1. v \in Worker /\ v.key \in Keys
  BY DEF IInv, WorkerInv
<1> HIDE DEF v
<1>2. u \in Worker /\ u.pc = pc /\ u.key = v.key /\ u.token = v.token
  BY <1>1 DEF Worker
<1>3. x \in Worker /\ x.pc = pc /\ x.key = v.key /\ x.token = v.token
  BY Zenon, <1>1 DEF Worker
<1> HIDE DEF u, x
<1>4. WorkerInv(u, done) /\ WorkerInv(x, done)
  BY <1>1, <1>2, <1>3 DEF WorkerInv, v
<1> QED
  BY <1>4 DEF u, x, v
-----------------------------------------------------------------------------
(* The actions *)

GoodStep == RowsStep /\ VerifiedStep /\ WorkersStep

LEMMA CreateStep ==
    ASSUME IInv, NEW k \in Keys, Create(k)
    PROVE  GoodStep
<1>1. VerifiedStep /\ WorkersStep
  BY SameVerified, SameWorkers DEF Create
<1>2. jobs' = [jobs EXCEPT ![k] = [jobs[k] EXCEPT !.status = "queued"]]
  BY DEF Create, IInv
<1>3. GoodRow(jobs[k], [jobs[k] EXCEPT !.status = "queued"], verified[k])
  BY CreatedRow DEF Create, IInv
<1>4. RowsStep
  BY Zenon, <1>2, <1>3, OneRow DEF Create
<1> QED
  BY <1>1, <1>4 DEF GoodStep

LEMMA CancelStep ==
    ASSUME IInv, NEW k \in Keys, RequestCancel(k)
    PROVE  GoodStep
<1> DEFINE i == IF jobs[k].status = "running"
                THEN [jobs[k] EXCEPT !.status = "cancel_requested"]
                ELSE Released(jobs[k], "cancelled")
<1>1. VerifiedStep /\ WorkersStep
  BY SameVerified, SameWorkers DEF RequestCancel
<1>2. jobs' = [jobs EXCEPT ![k] = i]
  BY DEF RequestCancel, IInv
<1>3. GoodRow(jobs[k], i, verified[k])
  BY CancelledRow DEF RequestCancel, IInv
<1>4. RowsStep
  <2> HIDE DEF i
  <2> QED
    BY Zenon, <1>2, <1>3, OneRow DEF RequestCancel
<1> QED
  BY <1>1, <1>4 DEF GoodStep

LEMMA LapseStep ==
    ASSUME IInv, NEW k \in Keys, Lapse(k)
    PROVE  GoodStep
<1>1. VerifiedStep /\ WorkersStep
  BY SameVerified, SameWorkers DEF Lapse
<1>2. jobs' = [jobs EXCEPT ![k] = [jobs[k] EXCEPT !.lapsed = TRUE]]
  BY DEF Lapse, IInv
<1>3. GoodRow(jobs[k], [jobs[k] EXCEPT !.lapsed = TRUE], verified[k])
  <2>1. RowInv(jobs[k], verified[k])
    BY DEF IInv
  <2> QED
    BY Zenon, <2>1, LapsedRow
<1>4. RowsStep
  BY Zenon, <1>2, <1>3, OneRow DEF Lapse
<1> QED
  BY <1>1, <1>4 DEF GoodStep

LEMMA ClaimStep ==
    ASSUME IInv, NEW w \in Workers, Claim(w)
    PROVE  GoodStep
<1> DEFINE swept == [k \in Keys |-> Swept(jobs[k])]
<1>1. VerifiedStep
  BY Zenon, SameVerified DEF Claim
<1>2. ASSUME NEW k \in Keys
      PROVE  /\ swept[k] = Swept(jobs[k])
             /\ GoodRow(jobs[k], swept[k], verified[k])
             /\ swept[k] \in Job
  <2>1. GoodRow(jobs[k], Swept(jobs[k]), verified[k])
    BY SweptRow DEF IInv
  <2> QED
    BY <2>1 DEF GoodRow, RowInv
<1>3. CASE jobs' = swept /\ UNCHANGED workers
  <2>1. RowsStep
    BY Zenon, <1>2, <1>3 DEF RowsStep, Claim
  <2>2. WorkersStep
    BY <1>1, <1>3, SameWorkers
  <2> QED
    BY <1>1, <2>1, <2>2 DEF GoodStep
<1>4. ASSUME NEW k \in Keys, Claimable(jobs[k]), NEW b \in BOOLEAN,
             jobs' = [swept EXCEPT ![k] =
                         [@ EXCEPT !.status = "running", !.attempt = jobs[k].attempt + 1,
                                   !.token = jobs[k].attempt + 1, !.lapsed = b]],
             workers' = [workers EXCEPT ![w] =
                            [pc |-> "claimed", key |-> k, token |-> jobs[k].attempt + 1,
                             renewal |-> "on"]]
      PROVE  GoodStep
  <2> DEFINE a == jobs[k].attempt + 1
             i == [Swept(jobs[k]) EXCEPT !.status = "running", !.attempt = a,
                                         !.token = a, !.lapsed = b]
             u == [pc |-> "claimed", key |-> k, token |-> a, renewal |-> "on"]
  <2>1. a \in 0..MaxAttempts /\ GoodRow(jobs[k], i, verified[k])
    BY Zenon, <1>4, ClaimedRow DEF IInv
  <2>2. jobs' = [swept EXCEPT ![k] = i]
    BY <1>4, <1>2
  <2>3. RowsStep
    <3> HIDE DEF i, swept
    <3>1. i \in Job
      BY <2>1 DEF GoodRow, RowInv
    <3>2. swept \in [Keys -> Job]
      BY <1>2 DEF swept
    <3>3. ASSUME NEW l \in Keys
          PROVE  GoodRow(jobs[l], jobs'[l], verified'[l])
      BY Zenon, <1>2, <2>1, <2>2, <3>2 DEF Claim
    <3> QED
      BY <2>2, <3>1, <3>2, <3>3 DEF RowsStep
  <2>4. WorkersStep
    <3> HIDE DEF a
    <3>1. WorkerInv(u, verified')
      BY <2>1 DEF WorkerInv, Worker, Points, Renewing
    <3>2. workers' = [workers EXCEPT ![w] = u]
      BY <1>4 DEF a
    <3> HIDE DEF u
    <3> QED
      BY Zenon, <1>1, <3>1, <3>2, OneWorker
  <2> QED
    BY <1>1, <2>3, <2>4 DEF GoodStep
<1> QED
  BY Zenon, <1>3, <1>4 DEF Claim

\* The steps of RunOne that only move the worker: Begin, Execute, CheckCancelled.
LEMMA MoveStep ==
    ASSUME IInv, NEW w \in Workers, Begin(w) \/ Execute(w) \/ CheckCancelled(w)
    PROVE  GoodStep
<1>1. VerifiedStep /\ RowsStep
  BY SameVerified, SameRows DEF Begin, Execute, CheckCancelled
<1>2. PICK pc \in {"executing", "executed", "verifying", "failing"} :
         Goto(w, pc) /\ workers[w].pc # "idle"
  BY DEF Begin, Execute, CheckCancelled
<1>3. pc \in Points /\ pc \notin {"completing", "succeed"}
  BY DEF Points, Renewing
<1>4. workers' = [workers EXCEPT ![w] = [workers[w] EXCEPT !.pc = pc]]
  BY <1>2 DEF Goto, IInv
<1>5. WorkerInv([workers[w] EXCEPT !.pc = pc], verified')
  BY Zenon, <1>2, <1>3, MovedWorker
<1> QED
  BY Zenon, <1>1, <1>4, <1>5, OneWorker DEF GoodStep

LEMMA VerifyStep ==
    ASSUME IInv, NEW w \in Workers, Verify(w)
    PROVE  GoodStep
<1>1. workers[w] \in Worker /\ workers[w].key \in Keys /\ workers[w].pc # "idle"
  BY DEF Verify, IInv, WorkerInv
<1>2. VerifiedStep
  <2>1. CASE verified' = [verified EXCEPT ![workers[w].key] = @ \cup {workers[w].token}]
    <3>1. workers[w].token \in 0..MaxAttempts
      BY <1>1 DEF Worker
    <3> QED
      BY <1>1, <2>1, <3>1 DEF VerifiedStep, IInv
  <2>2. CASE UNCHANGED verified
    BY <2>2, SameVerified
  <2> QED
    BY <2>1, <2>2 DEF Verify
<1>3. RowsStep
  BY <1>2, SameRows DEF Verify
<1>4. PICK pc \in {"completing", "failing"} :
         /\ Goto(w, pc)
         /\ pc = "completing" => workers[w].token \in verified'[workers[w].key]
  BY <1>1 DEF Verify, IInv
<1>5. pc \in Points /\ pc # "succeed"
  BY DEF Points, Renewing
<1>6. workers' = [workers EXCEPT ![w] = [workers[w] EXCEPT !.pc = pc]]
  BY <1>4 DEF Goto, IInv
<1>7. WorkerInv([workers[w] EXCEPT !.pc = pc], verified')
  BY Zenon, <1>1, <1>4, <1>5, MovedWorker
<1> QED
  BY Zenon, <1>2, <1>3, <1>6, <1>7, OneWorker DEF GoodStep
LEMMA StopStep ==
    ASSUME IInv, NEW w \in Workers, StopRenewal(w)
    PROVE  GoodStep
<1>1. VerifiedStep /\ RowsStep
  BY SameVerified, SameRows DEF StopRenewal
<1>2. WorkersStep
  <2>1. CASE workers[w].renewal = "error"
    <3>1. workers' = [workers EXCEPT ![w] = Idle]
      BY <2>1 DEF StopRenewal, IInv
    <3> QED
      BY Zenon, <1>1, <3>1, IdleWorker, OneWorker
  <2>2. CASE workers[w].renewal # "error"
    <3> DEFINE pc == IF workers[w].pc = "completing" THEN "succeed" ELSE "fail"
               u == [workers[w] EXCEPT !.pc = pc, !.renewal = "off"]
    <3>1. workers' = [workers EXCEPT ![w] = u]
      BY <2>2 DEF StopRenewal
    <3>2. /\ workers[w].pc # "idle" /\ pc \in Points /\ verified' = verified
          /\ pc \in {"completing", "succeed"} => workers[w].token \in verified[workers[w].key]
      BY DEF StopRenewal, Points, IInv, WorkerInv
    <3> HIDE DEF pc
    <3>3. WorkerInv(u, verified')
      BY Zenon, <3>2, MovedWorker
    <3> QED
      BY Zenon, <1>1, <3>1, <3>3, OneWorker
  <2> QED
    BY <2>1, <2>2
<1> QED
  BY <1>1, <1>2 DEF GoodStep

\* Succeed and Fail: the store accepts only the newest attempt (RowInv), and a
\* worker that calls Succeed has verified its own (WorkerInv).
LEMMA StoreStep ==
    ASSUME IInv, NEW w \in Workers, Store(w)
    PROVE  GoodStep
<1> DEFINE k == workers[w].key
           t == workers[w].token
<1>1. k \in Keys /\ workers[w].pc \in {"succeed", "fail"}
  BY DEF Store, IInv, WorkerInv
<1>2. VerifiedStep /\ WorkersStep
  BY Zenon, SameVerified, IdleWorker, OneWorker DEF Store
<1>3. CASE Holds(k, t) /\ workers[w].pc = "succeed"
  <2>1. jobs[k].status \in InFlight /\ jobs[k].token = t
    BY <1>3 DEF Holds, InFlight
  <2>2. t \in verified[k] /\ RowInv(jobs[k], verified[k])
    BY <1>1, <1>3 DEF IInv, WorkerInv
  <2>3. GoodRow(jobs[k], Succeeded(jobs[k], t), verified[k])
    BY <2>1, <2>2, SucceededRow
  <2>4. verified' = verified
    BY DEF Store
  <2>5. jobs' = [jobs EXCEPT ![k] = Succeeded(jobs[k], t)] \/ UNCHANGED jobs
    BY <1>1, <1>3 DEF Store, IInv
  <2>6. RowsStep
    BY <1>1, <1>2, <2>3, <2>4, <2>5, OneRow, SameRows
  <2> QED
    BY <1>2, <2>6 DEF GoodStep
<1>4. CASE Holds(k, t) /\ workers[w].pc = "fail"
  <2>1. jobs[k].status \in InFlight /\ jobs[k].token = t
    BY <1>4 DEF Holds, InFlight
  <2>2. RowInv(jobs[k], verified[k])
    BY <1>1 DEF IInv
  <2>3. GoodRow(jobs[k], Failed(jobs[k], t), verified[k])
    BY <2>1, <2>2, FailedRow
  <2>4. verified' = verified
    BY DEF Store
  <2>5. jobs' = [jobs EXCEPT ![k] = Failed(jobs[k], t)] \/ UNCHANGED jobs
    BY <1>1, <1>4 DEF Store, IInv
  <2>6. RowsStep
    BY <1>1, <1>2, <2>3, <2>4, <2>5, OneRow, SameRows
  <2> QED
    BY <1>2, <2>6 DEF GoodStep
<1>5. CASE ~Holds(k, t)
  <2>1. UNCHANGED jobs
    BY <1>5 DEF Store
  <2> QED
    BY <1>2, <2>1, SameRows DEF GoodStep
<1> QED
  BY <1>1, <1>3, <1>4, <1>5

LEMMA RenewStep ==
    ASSUME IInv, NEW w \in Workers, Renew(w)
    PROVE  GoodStep
<1> DEFINE k == workers[w].key
<1>1. k \in Keys /\ workers[w].pc \in Renewing /\ verified' = verified
  BY DEF Renew, IInv, WorkerInv, Renewing
<1>2. VerifiedStep
  BY <1>1, SameVerified
<1>3. CASE jobs' = [jobs EXCEPT ![k].lapsed = FALSE] /\ UNCHANGED workers
  <2>1. RowInv(jobs[k], verified[k])
    BY <1>1 DEF IInv
  <2>2. GoodRow(jobs[k], [jobs[k] EXCEPT !.lapsed = FALSE], verified[k])
    BY Zenon, <2>1, LapsedRow
  <2>3. jobs' = [jobs EXCEPT ![k] = [jobs[k] EXCEPT !.lapsed = FALSE]]
    BY <1>1, <1>3 DEF IInv
  <2>4. RowsStep
    BY Zenon, <1>1, <2>2, <2>3, OneRow
  <2> QED
    BY <1>2, <1>3, <2>4, SameWorkers DEF GoodStep
<1>4. CASE workers' = [workers EXCEPT ![w].renewal = "error"] /\ UNCHANGED jobs
  <2> DEFINE u == [workers[w] EXCEPT !.renewal = "error"]
  <2>1. workers[w] \in Worker /\ WorkerInv(workers[w], verified)
    BY DEF IInv
  <2>2. /\ u \in Worker /\ u.pc = workers[w].pc /\ u.key = workers[w].key
        /\ u.token = workers[w].token
    BY <2>1 DEF Worker
  <2>3. workers' = [workers EXCEPT ![w] = u]
    BY <1>4 DEF IInv
  <2> HIDE DEF u
  <2>4. WorkerInv(u, verified')
    BY <1>1, <2>1, <2>2 DEF WorkerInv
  <2> QED
    BY Zenon, <1>2, <1>4, <2>3, <2>4, OneWorker, SameRows DEF GoodStep
<1> QED
  BY <1>3, <1>4 DEF Renew

LEMMA CrashStep ==
    ASSUME IInv, NEW w \in Workers, Crash(w)
    PROVE  GoodStep
  BY Zenon, SameVerified, SameRows, IdleWorker, OneWorker DEF Crash, GoodStep

\* Every step of Next, and stuttering.
LEMMA EveryStep ==
    ASSUME IInv, [Next]_vars
    PROVE  GoodStep
<1>1. CASE Next
  BY <1>1, CreateStep, CancelStep, LapseStep, ClaimStep, MoveStep, VerifyStep, StopStep,
     StoreStep, RenewStep, CrashStep DEF Next, RunOne
<1>2. CASE UNCHANGED vars
  BY <1>2, SameVerified, SameRows, SameWorkers DEF vars, GoodStep
<1> QED
  BY <1>1, <1>2

-----------------------------------------------------------------------------
(* The theorems *)

\* A lease is named by the newest attempt, and success is reported only for
\* verified attempts, in every reachable state (Claim, RunOne, Succeed, Fail).
THEOREM WorkerInvariant == Spec => []IInv
<1>1. Init => IInv
  <2> SUFFICES ASSUME Init PROVE IInv
    OBVIOUS
  <2>1. NoJob \in Job /\ Idle \in Worker
    BY WorkerAssumption DEF NoJob, Job, Idle, Worker, Points, Renewing
  <2>2. \A k \in Keys : RowInv(jobs[k], verified[k])
    BY Zenon, <2>1 DEF Init, RowInv, NoJob, InFlight
  <2>3. \A w \in Workers : WorkerInv(workers[w], verified)
    BY IdleWorker DEF Init
  <2> QED
    BY Zenon, <2>1, <2>2, <2>3 DEF Init, IInv
<1>2. IInv /\ [Next]_vars => IInv'
  BY EveryStep DEF GoodStep, RowsStep, VerifiedStep, WorkersStep, GoodRow, IInv
<1> QED
  BY <1>1, <1>2, PTL DEF Spec

\* No false success, and the evidence of a failed attempt is that of the newest:
\* for any number of Jobs, workers and attempts (RunOne, Succeed, Fail).
THEOREM Genuine == Spec => []ResultsAreGenuine
<1>1. IInv => ResultsAreGenuine
  BY DEF IInv, RowInv, ResultsAreGenuine, NoFalseSuccess, RetryEvidenceIsNewest
<1> QED
  BY <1>1, WorkerInvariant, PTL

\* Workers that claim, renew, lose and crash over one store move every Job only
\* along the transitions of the life cycle.
THEOREM WorkersImplementLifecycle == Spec => ImplementsLifecycle
<1> DEFINE life == [k \in Keys |-> [status |-> jobs[k].status, attempt |-> jobs[k].attempt]]
<1>1. Init => Lifecycle!Init
  BY DEF Init, Lifecycle!Init, NoJob
<1>2. IInv /\ [Next]_vars => [Lifecycle!Next]_life
  <2> SUFFICES ASSUME IInv, [Next]_vars
               PROVE  Lifecycle!Next
    OBVIOUS
  <2>1. RowsStep
    BY EveryStep DEF GoodStep
  <2>2. \A k \in Keys : RowStep(jobs[k], jobs'[k]) /\ jobs'[k] \in Job
    BY <2>1 DEF RowsStep, GoodRow
  <2>3. \A k \in Keys : LifeOf(jobs'[k]) \in Lifecycle!Life
    BY <2>2 DEF LifeOf, Job, Lifecycle!Life, Lifecycle!Statuses
  <2> QED
    BY <2>2, <2>3 DEF Lifecycle!Next, RowStep, LifeOf
<1> QED
  BY <1>1, <1>2, WorkerInvariant, PTL DEF Spec, ImplementsLifecycle, Lifecycle!Spec

-----------------------------------------------------------------------------
(* Backoff *)

\* Every nonempty set of naturals has a least element.
LEMMA LeastNumber ==
    ASSUME NEW T \in SUBSET Nat, T # {}
    PROVE  \E n \in T : \A o \in T : n <= o
<1> DEFINE Less == OpToRel(<, Nat)
<1>1. IsWellFoundedOn(Less, Nat)
  BY NatLessThanWellFounded, Zenon
<1>2. PICK n \in T : \A o \in T : <<o, n>> \notin Less
  <2> HIDE DEF Less
  <2> QED
    BY <1>1, WFMin, Zenon
<1>3. ASSUME NEW o \in T  PROVE  n <= o
  <2>1. <<o, n>> \notin {ss \in Nat \X Nat : ss[1] < ss[2]}
    BY <1>2, Zenon DEF OpToRel
  <2>2. ~(o < n)
    BY <2>1, Zenon
  <2> QED
    BY <2>2
<1> QED
  BY <1>3, Zenon

\* e is d doubled again and again.
Doubling(e, d, N) ==
    /\ e \in [1..N -> Nat]
    /\ e[1] = d
    /\ \A i \in 2..N : e[i] = 2 * e[i - 1]

\* There is such a sequence, of every length.
LEMMA DoublingExists ==
    ASSUME NEW d \in Nat, NEW N \in Nat \ {0}
    PROVE  \E e : Doubling(e, d, N)
<1> DEFINE Good(n) == \E e : Doubling(e, d, n)
           Bad == {n \in Nat \ {0} : ~Good(n)}
<1>1. SUFFICES ASSUME Bad # {} PROVE FALSE
  BY Zenon
<1>2. PICK m \in Bad : \A o \in Bad : m <= o
  <2>1. Bad \in SUBSET Nat
    BY Zenon
  <2> HIDE DEF Bad
  <2> QED
    BY <1>1, <2>1, LeastNumber, Zenon
<1>3. m # 1
  <2> DEFINE e == [i \in 1..1 |-> d]
  <2>1. Doubling(e, d, 1)
    BY DEF Doubling
  <2>2. Good(1)
    BY <2>1, Zenon
  <2> HIDE DEF Good
  <2> QED
    BY <2>2
<1>4. m \in Nat /\ m - 1 \in Nat \ {0} /\ m - 1 \notin Bad
  <2> HIDE DEF Good
  <2> QED
    BY <1>2, <1>3
<1>5. PICK e : Doubling(e, d, m - 1)
  BY <1>4, Zenon
<1> DEFINE g == [i \in 1..m |-> IF i = m THEN 2 * e[m - 1] ELSE e[i]]
<1>6. e[m - 1] \in Nat /\ \A i \in 1..(m - 1) : e[i] \in Nat
  BY <1>4, <1>5 DEF Doubling
<1>7. g \in [1..m -> Nat]
  BY <1>4, <1>6
<1>8. g[1] = d /\ \A i \in 2..m : g[i] = 2 * g[i - 1]
  <2>1. g[1] = e[1] /\ e[1] = d
    BY <1>3, <1>4, <1>5 DEF Doubling
  <2>2. ASSUME NEW i \in 2..m PROVE g[i] = 2 * g[i - 1]
    <3>1. i \in 1..m /\ i - 1 \in 1..m /\ i - 1 # m
      BY <1>4
    <3>2. g[i - 1] = e[i - 1] /\ g[i] = IF i = m THEN 2 * e[m - 1] ELSE e[i]
      BY <3>1, Zenon
    <3>3. CASE i = m
      BY <3>2, <3>3, Zenon
    <3>4. CASE i # m
      <4>1. i \in 2..(m - 1)
        BY <1>4, <3>4
      <4>2. e[i] = 2 * e[i - 1]
        BY <1>5, <4>1, Zenon DEF Doubling
      <4> QED
        BY <3>2, <3>4, <4>2, Zenon
    <3> QED
      BY <3>3, <3>4
  <2> QED
    BY <2>1, <2>2, Zenon
<1>9. Doubling(g, d, m)
  <2> HIDE DEF g
  <2> QED
    BY <1>7, <1>8, Zenon DEF Doubling
<1>10. Good(m)
  BY <1>9, Zenon
<1> QED
  BY <1>10, Zenon

\* A function on 1..N that is given by its first value and a step is determined
\* by them.
LEMMA SameSteps ==
    ASSUME NEW N \in Nat \ {0}, NEW f, NEW g, f[1] = g[1],
           \A i \in 2..N : f[i - 1] = g[i - 1] => f[i] = g[i]
    PROVE  f[N] = g[N]
<1> DEFINE Bad == {n \in 1..N : f[n] # g[n]}
<1>1. SUFFICES ASSUME Bad # {} PROVE FALSE
  <2>1. N \in 1..N
    OBVIOUS
  <2> QED
    BY <2>1, Zenon
<1>2. PICK n \in Bad : \A o \in Bad : n <= o
  <2>1. Bad \in SUBSET Nat
    OBVIOUS
  <2> HIDE DEF Bad
  <2> QED
    BY <1>1, <2>1, LeastNumber, Zenon
<1>3. n # 1
  BY Zenon
<1>4. n \in 2..N /\ n - 1 \in 1..N /\ n - 1 \notin Bad
  BY <1>2, <1>3
<1>5. f[n - 1] = g[n - 1]
  BY <1>4, Zenon
<1> QED
  BY <1>4, <1>5, Zenon

\* Doubled names the last number of the sequence.
LEMMA DoubledIsLast ==
    ASSUME NEW d \in Nat, NEW N \in Nat \ {0}, NEW e, Doubling(e, d, N)
    PROVE  Doubled(d, N) = e[N]
<1> DEFINE Solves(g) == g = [i \in 1..N |-> IF i = 1 THEN d ELSE 2 * g[i - 1]]
           exact == CHOOSE g : Solves(g)
<1>1. Solves(e)
  BY DEF Doubling
<1>2. Solves(exact)
  BY <1>1, Zenon
<1>3. Doubled(d, N) = exact[N]
  BY Zenon DEF Doubled
<1> HIDE DEF exact
<1>4. exact[1] = d /\ \A i \in 2..N : exact[i] = 2 * exact[i - 1]
  BY <1>2
<1>5. exact[1] = e[1] /\ \A i \in 2..N : exact[i - 1] = e[i - 1] => exact[i] = e[i]
  BY <1>4 DEF Doubling
<1>6. exact[N] = e[N]
  BY <1>5, SameSteps
<1> QED
  BY <1>3, <1>6

\* Doubling a positive number never makes it smaller.
LEMMA DoublingGrows ==
    ASSUME NEW d \in Nat \ {0}, NEW N \in Nat \ {0}, NEW e, Doubling(e, d, N)
    PROVE  \A i \in 1..N : e[i] >= d
<1> DEFINE Bad == {i \in 1..N : ~(e[i] >= d)}
<1>1. SUFFICES ASSUME Bad # {} PROVE FALSE
  BY Zenon
<1>2. PICK n \in Bad : \A o \in Bad : n <= o
  <2>1. Bad \in SUBSET Nat
    OBVIOUS
  <2> HIDE DEF Bad
  <2> QED
    BY <1>1, <2>1, LeastNumber, Zenon
<1>3. n # 1
  BY DEF Doubling
<1>4. n \in 2..N /\ n - 1 \in 1..N /\ n - 1 \notin Bad
  BY <1>2, <1>3
<1>5. e[n - 1] >= d /\ e[n - 1] \in Nat /\ e[n] = 2 * e[n - 1]
  BY <1>4 DEF Doubling
<1> QED
  BY <1>5

\* A number that may be doubled does not wrap.
LEMMA NoWrap ==
    ASSUME NEW n \in Nat, n <= maxRetryDelay \div 2
    PROVE  Wrap(n * 2) = 2 * n
<1>1. maxRetryDelay \in Nat
  BY DurationAssumption
<1>2. 2 * n <= maxRetryDelay
  BY <1>1
<1> DEFINE x == n * 2 + maxRetryDelay + 1
           y == 2 * maxRetryDelay + 2
<1>3. x \in Nat /\ y \in Nat \ {0} /\ x < y
  BY <1>1, <1>2
<1> HIDE DEF x, y
<1>4. x % y = x
  BY <1>3
<1> QED
  BY <1>1, <1>4 DEF Wrap, x, y

RetryPolicies == [base : Durations, max : Durations]

\* Where the loop stops doubling, and what it returns there.
Stops(p, n) == (p.max > 0 /\ n >= p.max) \/ n > maxRetryDelay \div 2

Limit(p) == IF p.max > 0 THEN p.max ELSE maxRetryDelay

\* The loop doubles the delay until the next doubling would pass the limit.
LEMMA LoopDoubles ==
    ASSUME NEW p \in RetryPolicies, NEW N \in Nat \ {0}, NEW e, Doubling(e, BaseDelay(p), N),
           BaseDelay(p) \in Nat \ {0}
    PROVE  Loop(p, N) = IF N > 1 /\ Stops(p, e[N - 1])
                        THEN [delay |-> Limit(p), returned |-> TRUE]
                        ELSE [delay |-> e[N], returned |-> FALSE]
<1> DEFINE d == BaseDelay(p)
           start == [delay |-> d, returned |-> FALSE]
           at(i) == IF i > 1 /\ Stops(p, e[i - 1])
                    THEN [delay |-> Limit(p), returned |-> TRUE]
                    ELSE [delay |-> e[i], returned |-> FALSE]
           h == [i \in 1..N |-> at(i)]
           Solves(g) == g = [i \in 1..N |-> IF i = 1 THEN start ELSE Double(g[i - 1], p.max)]
           run == CHOOSE g : Solves(g)
<1>1. /\ p.max \in Int /\ p.max <= maxRetryDelay /\ maxRetryDelay \in Nat
      /\ e \in [1..N -> Nat] /\ e[1] = d /\ \A i \in 2..N : e[i] = 2 * e[i - 1]
  BY DurationAssumption DEF RetryPolicies, Durations, Doubling
<1>2. at(1) = start
  BY <1>1
<1>3. ASSUME NEW i \in 2..N
      PROVE  at(i) = Double(at(i - 1), p.max)
  <2>1. e[i - 1] \in Nat /\ i > 1 /\ i - 1 \in 1..N
    BY <1>1
  <2>2. CASE i - 1 > 1 /\ Stops(p, e[i - 2])
    <3>1. i - 1 \in 2..N /\ i - 2 \in 1..N /\ (i - 1) - 1 = i - 2
      BY <2>1, <2>2
    <3>2. e[i - 2] \in Nat /\ e[i - 1] = 2 * e[i - 2]
      BY <1>1, <3>1
    <3>3. Stops(p, e[i - 1])
      <4>1. e[i - 1] >= e[i - 2] /\ e[i - 1] \in Nat
        BY <2>1, <3>2
      <4>2. (p.max > 0 /\ e[i - 2] >= p.max) \/ e[i - 2] > maxRetryDelay \div 2
        BY <2>2 DEF Stops
      <4>3. maxRetryDelay \div 2 \in Int
        BY <1>1
      <4>4. e[i - 2] >= p.max => e[i - 1] >= p.max
        <5>1. \A a, b \in Nat, c \in Int : a >= b /\ b >= c => a >= c
          OBVIOUS
        <5>2. p.max \in Int
          BY <1>1
        <5> QED
          BY <3>2, <4>1, <5>1, <5>2, Zenon
      <4>5. e[i - 2] > maxRetryDelay \div 2 => e[i - 1] > maxRetryDelay \div 2
        BY <3>2, <4>1, <4>3
      <4> QED
        BY <4>2, <4>4, <4>5, Zenon DEF Stops
    <3>4. at(i) = [delay |-> Limit(p), returned |-> TRUE] /\ at(i - 1) = at(i)
      BY <2>1, <2>2, <3>1, <3>3, Zenon
    <3> QED
      BY <3>4 DEF Double
  <2>3. CASE ~(i - 1 > 1 /\ Stops(p, e[i - 2]))
    <3>1. (i - 1) - 1 = i - 2
      BY <2>1
    <3>2. at(i - 1) = [delay |-> e[i - 1], returned |-> FALSE]
      BY <2>3, <3>1, Zenon
    <3>3. CASE Stops(p, e[i - 1])
      <4>1. Double([delay |-> e[i - 1], returned |-> FALSE], p.max)
               = [delay |-> Limit(p), returned |-> TRUE]
        BY Zenon, <1>1, <2>1, <3>3 DEF Double, Stops, Limit
      <4>2. at(i) = [delay |-> Limit(p), returned |-> TRUE]
        BY <2>1, <3>3, Zenon
      <4> QED
        BY <3>2, <4>1, <4>2, Zenon
    <3>4. CASE ~Stops(p, e[i - 1])
      <4>1. Wrap(e[i - 1] * 2) = e[i]
        <5>1. e[i - 1] <= maxRetryDelay \div 2
          BY <1>1, <2>1, <3>4 DEF Stops
        <5> QED
          BY <1>1, <2>1, <5>1, NoWrap
      <4>2. Double([delay |-> e[i - 1], returned |-> FALSE], p.max)
               = [delay |-> e[i], returned |-> FALSE]
        BY <3>4, <4>1 DEF Double, Stops
      <4>3. at(i) = [delay |-> e[i], returned |-> FALSE]
        BY <3>4, Zenon
      <4> QED
        BY <3>2, <4>2, <4>3, Zenon
    <3> QED
      BY <3>3, <3>4
  <2> QED
    BY <2>2, <2>3
<1>4. Solves(h)
  <2> HIDE DEF at, start
  <2>1. \A i \in 1..N : i # 1 => i \in 2..N /\ i - 1 \in 1..N
    OBVIOUS
  <2>2. \A i \in 1..N : h[i] = IF i = 1 THEN start ELSE Double(h[i - 1], p.max)
    BY <1>2, <1>3, <2>1, Zenon
  <2> QED
    BY <2>2, Zenon
<1>5. Solves(run)
  <2> HIDE DEF h
  <2> QED
    BY <1>4, Zenon
<1>6. Loop(p, N) = run[N]
  BY Zenon DEF Loop
<1> HIDE DEF run, at, start
<1>7. run[N] = h[N]
  <2>1. run[1] = start /\ \A i \in 2..N : run[i] = Double(run[i - 1], p.max)
    BY <1>5
  <2>2. h[1] = start /\ \A i \in 2..N : h[i] = Double(h[i - 1], p.max)
    BY <1>4
  <2>3. \A i \in 2..N : run[i - 1] = h[i - 1] => run[i] = h[i]
    BY <2>1, <2>2, Zenon
  <2>4. run[1] = h[1]
    BY <2>1, <2>2, Zenon
  <2> HIDE DEF h
  <2> QED
    BY <2>3, <2>4, SameSteps, Zenon
<1>8. h[N] = at(N)
  OBVIOUS
<1> QED
  BY <1>6, <1>7, <1>8, Zenon DEF at

\* The delay after any number of attempts under any policy.
LEMMA DelayIsExact ==
    ASSUME NEW p \in RetryPolicies, NEW N \in Nat \ {0}
    PROVE  LET exact == Doubled(BaseDelay(p), N)
           IN DelayAfter(p, N) = IF exact < Limit(p) THEN exact ELSE Limit(p)
<1> DEFINE d == BaseDelay(p)
<1>1. p.max \in Int /\ p.max <= maxRetryDelay /\ maxRetryDelay \in Nat
  BY DurationAssumption DEF RetryPolicies, Durations
<1>2. d \in Nat \ {0} /\ d <= maxRetryDelay
  BY DurationAssumption DEF RetryPolicies, Durations, BaseDelay
<1> HIDE DEF d
<1>3. PICK e : Doubling(e, d, N)
  BY <1>2, DoublingExists
<1>4. Doubled(d, N) = e[N] /\ e[N] >= d /\ e[N] \in Nat
  <2>1. N \in 1..N
    OBVIOUS
  <2>2. Doubled(d, N) = e[N]
    BY <1>2, <1>3, DoubledIsLast
  <2>3. e[N] >= d
    BY <1>2, <1>3, <2>1, DoublingGrows
  <2>4. e[N] \in Nat
    BY <1>3, <2>1 DEF Doubling
  <2> QED
    BY <2>2, <2>3, <2>4
<1>5. CASE p.max > 0 /\ d >= p.max
  <2>1. DelayAfter(p, N) = p.max
    BY <1>5 DEF DelayAfter, d
  <2> QED
    BY <1>1, <1>2, <1>4, <1>5, <2>1 DEF Limit, d
<1>6. CASE ~(p.max > 0 /\ d >= p.max)
  <2> DEFINE loop == Loop(p, N)
  <2>1. loop = IF N > 1 /\ Stops(p, e[N - 1])
               THEN [delay |-> Limit(p), returned |-> TRUE]
               ELSE [delay |-> e[N], returned |-> FALSE]
    BY <1>2, <1>3, LoopDoubles DEF d
  <2>2. ~(N < 1)
    OBVIOUS
  <2>3. DelayAfter(p, N) =
           IF loop.returned THEN loop.delay
           ELSE IF p.max > 0 /\ loop.delay > p.max THEN p.max ELSE loop.delay
    BY <1>6, <2>2, Zenon DEF DelayAfter, d
  <2> HIDE DEF loop
  <2>4. CASE N > 1 /\ Stops(p, e[N - 1])
    <3>1. DelayAfter(p, N) = Limit(p)
      BY <2>1, <2>3, <2>4
    <3>2. e[N - 1] \in Nat /\ e[N] = 2 * e[N - 1]
      BY <1>3, <2>4 DEF Doubling
    <3>3. e[N] >= Limit(p)
      BY <1>1, <2>4, <3>2 DEF Stops, Limit
    <3> QED
      BY <1>1, <1>4, <3>1, <3>3 DEF Limit, d
  <2>5. CASE ~(N > 1 /\ Stops(p, e[N - 1]))
    <3>1. DelayAfter(p, N) = IF p.max > 0 /\ e[N] > p.max THEN p.max ELSE e[N]
      BY <2>1, <2>3, <2>5
    <3>2. e[N] <= maxRetryDelay
      <4>1. CASE N = 1
        BY <1>2, <1>3, <4>1 DEF Doubling
      <4>2. CASE N > 1
        <5>1. e[N - 1] \in Nat /\ e[N] = 2 * e[N - 1]
          BY <1>3, <4>2 DEF Doubling
        <5>2. e[N - 1] <= maxRetryDelay \div 2
          BY <1>1, <2>5, <4>2, <5>1 DEF Stops
        <5> QED
          BY <1>1, <5>1, <5>2
      <4> QED
        BY <4>1, <4>2
    <3> QED
      BY <1>1, <1>4, <3>1, <3>2 DEF Limit, d
  <2> QED
    BY <2>4, <2>5
<1> QED
  BY <1>5, <1>6

\* The policy stays what it is, and the delay is that of the attempts so far.
BackoffInv ==
    /\ policy \in RetryPolicies
    /\ failures \in Nat
    /\ delay = DelayAfter(policy, failures)

\* RetryDelay never wraps: the delay is the exact doubling, cut off at its limit,
\* for every width of a Duration, every policy and every number of attempts.
THEOREM DelaySafety ==
    BackoffSpec => []DelayIsSaturatedDoubling
<1>1. BackoffInit => BackoffInv
  BY DEF BackoffInit, BackoffInv, RetryPolicies
<1>2. BackoffInv /\ [BackoffNext]_backoffVars => BackoffInv'
  <2> SUFFICES ASSUME BackoffInv, [BackoffNext]_backoffVars PROVE BackoffInv'
    OBVIOUS
  <2>1. CASE BackoffNext
    BY <2>1 DEF BackoffNext, BackoffInv
  <2>2. CASE UNCHANGED backoffVars
    BY <2>2 DEF backoffVars, BackoffInv
  <2> QED
    BY <2>1, <2>2
<1>3. BackoffInv => DelayIsSaturatedDoubling
  <2> SUFFICES ASSUME BackoffInv PROVE DelayIsSaturatedDoubling
    OBVIOUS
  <2> DEFINE N == IF failures = 0 THEN 1 ELSE failures
  <2>1. N \in Nat \ {0} /\ policy \in RetryPolicies
    BY DEF BackoffInv
  <2>2. DelayAfter(policy, N) = delay
    <3>1. CASE failures = 0
      <4>1. DelayAfter(policy, 1) = DelayAfter(policy, 0)
        BY DEF DelayAfter
      <4> QED
        BY <3>1, <4>1 DEF BackoffInv
    <3>2. CASE failures # 0
      BY <3>2 DEF BackoffInv
    <3> QED
      BY <3>1, <3>2
  <2> HIDE DEF N
  <2>3. DelayAfter(policy, N) =
           IF Doubled(BaseDelay(policy), N) < Limit(policy)
           THEN Doubled(BaseDelay(policy), N) ELSE Limit(policy)
    BY <2>1, DelayIsExact, Zenon
  <2> QED
    BY <2>2, <2>3, Zenon DEF DelayIsSaturatedDoubling, Limit, N
<1> QED
  BY <1>1, <1>2, <1>3, PTL DEF BackoffSpec

-----------------------------------------------------------------------------
(* Manual retries *)

\* The first n entries of a history.
Prefix(s, n) == [i \in 1..n |-> s[i]]

\* The Job an entry at the i-th place retries.
RetriedAt(s, i) == IF i = 1 THEN Root ELSE s[i - 1].retry

\* The entries of the lineage are the sequence s: each retries the Job that the one
\* before it created, the first one the root, and each creates another Job.
ChainOf(s, N, L) ==
    /\ N \in Nat /\ s \in [1..N -> L]
    /\ \A l \in L : \E i \in 1..N : s[i] = l
    /\ \A i \in 1..N : s[i].root = Root /\ s[i].retry # Root /\ s[i].source = RetriedAt(s, i)
    /\ \A i, k \in 1..N : s[i].retry = s[k].retry => i = k

\* t has the first n entries of s, which are in S.
IsPrefix(t, s, n, S) == t \in Seq(S) /\ Len(t) = n /\ \A i \in 1..n : t[i] = s[i]

\* What a prefix is.
LEMMA Prefixes ==
    ASSUME NEW S, NEW N \in Nat, NEW s \in [1..N -> S], NEW n \in 0..N
    PROVE  IsPrefix(Prefix(s, n), s, n, S)
<1>1. n \in Nat /\ \A i \in 1..n : s[i] \in S
  OBVIOUS
<1>2. Prefix(s, n) \in [1..n -> S]
  BY <1>1 DEF Prefix
<1>3. Prefix(s, n) \in Seq(S)
  BY <1>1, <1>2
<1>4. Len(Prefix(s, n)) = n
  BY <1>1, <1>2, <1>3
<1>5. \A i \in 1..n : Prefix(s, n)[i] = s[i]
  BY Zenon DEF Prefix
<1> QED
  BY <1>3, <1>4, <1>5, Zenon DEF IsPrefix

\* A prefix and the entry after it are the next prefix.
LEMMA PrefixGrows ==
    ASSUME NEW S, NEW N \in Nat, NEW s \in [1..N -> S], NEW n \in 1..N
    PROVE  Append(Prefix(s, n - 1), s[n]) = Prefix(s, n)
<1>1. n \in 0..N /\ n - 1 \in 0..N /\ s[n] \in S
  OBVIOUS
<1>2. /\ Prefix(s, n - 1) \in Seq(S) /\ Len(Prefix(s, n - 1)) = n - 1
      /\ \A i \in 1..(n - 1) : Prefix(s, n - 1)[i] = s[i]
  <2>1. IsPrefix(Prefix(s, n - 1), s, n - 1, S)
    BY <1>1, Prefixes, Zenon
  <2> QED
    BY <2>1, Zenon DEF IsPrefix
<1> DEFINE t == Append(Prefix(s, n - 1), s[n])
<1>3. t \in Seq(S) /\ Len(t) = n
  BY <1>1, <1>2
<1>4. ASSUME NEW i \in 1..n PROVE t[i] = s[i]
  <2>1. CASE i = n
    BY <1>1, <1>2, <2>1
  <2>2. CASE i # n
    <3>1. i \in 1..(n - 1)
      BY <1>1, <2>2
    <3>2. t[i] = Prefix(s, n - 1)[i]
      BY <1>1, <1>2, <3>1
    <3> QED
      BY <1>2, <3>1, <3>2, Zenon
  <2> QED
    BY <2>1, <2>2
<1> HIDE DEF t
<1>5. t = [i \in 1..n |-> t[i]] /\ Prefix(s, n) = [i \in 1..n |-> s[i]]
  BY <1>1, <1>3 DEF Prefix
<1>6. t = Prefix(s, n)
  BY <1>4, <1>5, Zenon
<1> QED
  BY <1>6, Zenon DEF t

\* No Job is retried twice.
LEMMA SourcesDiffer ==
    ASSUME NEW s, NEW N, NEW L, ChainOf(s, N, L), NEW i \in 1..N, NEW k \in 1..N,
           s[i].source = s[k].source
    PROVE  i = k
<1>1. RetriedAt(s, i) = RetriedAt(s, k)
  BY Zenon DEF ChainOf
<1>2. N \in Nat
  BY Zenon DEF ChainOf
<1>3. CASE i = 1 /\ k # 1
  <2>1. k - 1 \in 1..N
    BY <1>2, <1>3
  <2>2. s[k - 1].retry # Root
    BY <2>1, Zenon DEF ChainOf
  <2> QED
    BY <1>1, <1>3, <2>2, Zenon DEF RetriedAt
<1>4. CASE i # 1 /\ k = 1
  <2>1. i - 1 \in 1..N
    BY <1>2, <1>4
  <2>2. s[i - 1].retry # Root
    BY <2>1, Zenon DEF ChainOf
  <2> QED
    BY <1>1, <1>4, <2>2, Zenon DEF RetriedAt
<1>5. CASE i # 1 /\ k # 1
  <2>1. i - 1 \in 1..N /\ k - 1 \in 1..N
    BY <1>2, <1>5
  <2>2. s[i - 1].retry = s[k - 1].retry
    BY <1>1, <1>5, Zenon DEF RetriedAt
  <2>3. i - 1 = k - 1
    BY <2>1, <2>2, Zenon DEF ChainOf
  <2> QED
    BY <1>2, <2>3
<1> QED
  BY <1>3, <1>4, <1>5

\* One step of the walk over the entries.
WalkStep(entries, w, n) ==
    LET cursor == IF n = 1 \/ w = <<>> THEN Root ELSE w[Len(w)].retry
        next   == {l \in entries : l.source = cursor}
    IN  IF next = {} THEN w ELSE Append(w, CHOOSE l \in next : TRUE)

\* It goes from one prefix of the chain to the next.
LEMMA WalkGrows ==
    ASSUME NEW s, NEW N, NEW L, ChainOf(s, N, L), NEW n \in 1..N
    PROVE  WalkStep(L, Prefix(s, n - 1), n) = Prefix(s, n)
<1> DEFINE w == Prefix(s, n - 1)
           cursor == IF n = 1 \/ w = <<>> THEN Root ELSE w[Len(w)].retry
           next   == {l \in L : l.source = cursor}
<1>1. N \in Nat /\ s \in [1..N -> L] /\ s[n] \in L
  BY DEF ChainOf
<1>2. n - 1 \in 0..N /\ n \in Nat
  BY <1>1
<1>3. /\ w \in Seq(L) /\ Len(w) = n - 1
      /\ \A i \in 1..(n - 1) : w[i] = s[i]
  <2>1. IsPrefix(w, s, n - 1, L)
    BY <1>1, <1>2, Prefixes, Zenon
  <2> QED
    BY <2>1, Zenon DEF IsPrefix
<1>4. cursor = RetriedAt(s, n)
  <2>1. CASE n = 1
    BY <2>1, Zenon DEF RetriedAt
  <2>2. CASE n # 1
    <3> HIDE DEF w
    <3>1. w # <<>> /\ n - 1 \in 1..(n - 1)
      BY <1>2, <1>3, <2>2
    <3>2. w[Len(w)] = s[n - 1]
      BY <1>3, <3>1, Zenon
    <3> QED
      BY <2>2, <3>1, <3>2, Zenon DEF RetriedAt
  <2> QED
    BY <2>1, <2>2
<1> HIDE DEF cursor
<1>5. s[n].source = cursor
  BY <1>4, Zenon DEF ChainOf
<1>6. next = {s[n]}
  <2>1. s[n] \in next
    BY <1>1, <1>5
  <2>2. ASSUME NEW l \in next PROVE l = s[n]
    <3>1. PICK i \in 1..N : s[i] = l
      BY Zenon DEF ChainOf
    <3>2. i = n
      BY <1>5, <3>1, SourcesDiffer, Zenon
    <3> QED
      BY <3>1, <3>2, Zenon
  <2> QED
    BY <2>1, <2>2, Zenon
<1> HIDE DEF next, w
<1>7. (CHOOSE l \in next : TRUE) = s[n] /\ next # {}
  BY <1>6, Zenon
<1>8. WalkStep(L, w, n) = Append(w, s[n])
  BY <1>7, Zenon DEF WalkStep, cursor, next
<1>9. Append(w, s[n]) = Prefix(s, n)
  BY <1>1, PrefixGrows DEF w
<1> QED
  BY <1>8, <1>9, Zenon DEF w

\* The walk over the lineage from the root is the whole chain.
LEMMA WalkIsChain ==
    ASSUME NEW s, NEW N, ChainOf(s, N, lineage)
    PROVE  Walk(Root) = s /\ Len(s) = N
<1> DEFINE entries == ListManualRetryLineage(Root)
           Solves(g) == g = [n \in 0..Cardinality(entries) |->
                               IF n = 0 THEN <<>> ELSE WalkStep(entries, g[n - 1], n)]
           walk == CHOOSE g : Solves(g)
           h == [n \in 0..N |-> Prefix(s, n)]
<1>1. N \in Nat /\ s \in [1..N -> lineage]
  BY DEF ChainOf
<1>2. entries = lineage
  <2>1. ASSUME NEW l \in lineage PROVE l.root = Root
    <3>1. PICK i \in 1..N : s[i] = l
      BY Zenon DEF ChainOf
    <3>2. s[i].root = Root
      BY Zenon DEF ChainOf
    <3> QED
      BY <3>1, <3>2, Zenon
  <2> QED
    BY <2>1, Zenon DEF ListManualRetryLineage
<1>3. Cardinality(lineage) = N
  <2>1. IsFiniteSet(1..N) /\ Cardinality(1..N) = N
    BY <1>1, FS_Interval
  <2>2. s \in Surjection(1..N, lineage)
    BY <1>1, Zenon DEF ChainOf, Surjection
  <2>3. s \in Injection(1..N, lineage)
    BY <1>1, Zenon DEF ChainOf, Injection, IsInjective
  <2> QED
    BY <2>1, <2>2, <2>3, FS_Surjection
<1>4. Prefix(s, 0) = <<>>
  BY DEF Prefix
<1>5. Solves(h)
  <2>1. \A n \in 0..N : n # 0 => n \in 1..N /\ n - 1 \in 0..N
    BY <1>1
  <2>2. \A n \in 1..N : WalkStep(lineage, Prefix(s, n - 1), n) = Prefix(s, n)
    BY WalkGrows, Zenon
  <2>3. ASSUME NEW n \in 0..N
        PROVE  h[n] = IF n = 0 THEN <<>> ELSE WalkStep(lineage, h[n - 1], n)
    <3>1. CASE n = 0
      BY <1>4, <3>1, Zenon
    <3>2. CASE n # 0
      <4>1. h[n] = Prefix(s, n) /\ h[n - 1] = Prefix(s, n - 1)
        BY <2>1, <3>2, Zenon
      <4> QED
        BY <2>1, <2>2, <3>2, <4>1, Zenon
    <3> QED
      BY <3>1, <3>2
  <2>4. h = [n \in 0..N |-> IF n = 0 THEN <<>> ELSE WalkStep(lineage, h[n - 1], n)]
    BY <2>3, Zenon
  <2> HIDE DEF h, entries
  <2> QED
    BY <1>2, <1>3, <2>4, Zenon
<1>6. Solves(walk)
  <2> HIDE DEF h, entries
  <2> QED
    BY <1>5, Zenon
<1>7. Walk(Root) = walk[Cardinality(entries)]
  BY Zenon DEF Walk, WalkStep
<1> HIDE DEF walk, entries
<1>8. walk = [n \in 0..N |-> IF n = 0 THEN <<>> ELSE WalkStep(lineage, walk[n - 1], n)]
  BY <1>2, <1>3, <1>6, Zenon
<1>9. \A n \in 0..N : walk[n] = Prefix(s, n)
  <2> DEFINE Bad == {n \in 0..N : walk[n] # Prefix(s, n)}
  <2>1. SUFFICES ASSUME Bad # {} PROVE FALSE
    BY Zenon
  <2>2. PICK n \in Bad : \A o \in Bad : n <= o
    <3>1. Bad \in SUBSET Nat
      OBVIOUS
    <3> HIDE DEF Bad
    <3> QED
      BY <2>1, <3>1, LeastNumber, Zenon
  <2>3. n # 0
    <3>1. 0 \in 0..N
      BY <1>1
    <3>2. walk[0] = <<>>
      BY <1>8, <3>1, Zenon
    <3> QED
      BY <1>4, <3>2, Zenon
  <2>4. n \in 1..N /\ n \in 0..N /\ n - 1 \in 0..N /\ n - 1 \notin Bad
    BY <1>1, <2>2, <2>3
  <2>5. walk[n - 1] = Prefix(s, n - 1)
    BY <2>4, Zenon
  <2>6. walk[n] = WalkStep(lineage, walk[n - 1], n)
    BY <1>8, <2>3, <2>4, Zenon
  <2>7. walk[n] = Prefix(s, n)
    BY <2>4, <2>5, <2>6, WalkGrows, Zenon
  <2> QED
    BY <2>7, Zenon
<1>10. N \in 0..N /\ Prefix(s, N) = s
  BY <1>1 DEF Prefix
<1>11. Len(Prefix(s, N)) = N
  <2>1. IsPrefix(Prefix(s, N), s, N, lineage)
    BY <1>1, <1>10, Prefixes, Zenon
  <2> QED
    BY <2>1, Zenon DEF IsPrefix
<1> QED
  BY <1>2, <1>3, <1>7, <1>9, <1>10, <1>11, Zenon

JobFields == {"status", "version", "attempt", "leased", "key", "updated"}

AdmissionFields ==
    {"job", "version", "status", "attempt", "revision", "policy", "used", "max", "fresh",
     "approval", "history", "historyObserved", "alreadyRetried", "blockers", "observed"}

RequestFields ==
    {"phase", "reviewed", "retry", "key", "sends", "requested", "source", "revision", "policy"}

MutationFields ==
    {"root", "source", "version", "retry", "key", "reviewed", "revalidation", "revision",
     "policy", "history", "approval", "requested"}

\* The Job an entry retries stays as it failed, the Job it creates keeps its key,
\* and the entry is of what was reviewed.
EntryInv(l, F) ==
    /\ DOMAIN l = MutationFields
    /\ l.source \in JobIDs /\ F[l.source].status = "failed" /\ F[l.source].version = l.version
    /\ l.retry \in JobIDs /\ F[l.retry] # Absent /\ F[l.retry].key = l.key
    /\ l.source = l.reviewed.job /\ l.version = l.reviewed.version
    /\ l.revision = l.reviewed.revision /\ l.policy = l.reviewed.policy
    /\ l.approval = l.reviewed.approval

\* The Jobs are the root and what the chain created from it; each entry was reviewed
\* when the chain ended before it, and lies within its budget.
LineageInv(s, N, F, L) ==
    /\ ChainOf(s, N, L)
    /\ \A i \in 1..N : s[i].reviewed.history = Prefix(s, i - 1) /\ i <= Policies[s[i].policy].max
    /\ \A l \in L : EntryInv(l, F)
    /\ DOMAIN F = JobIDs /\ F[Root] # Absent
    /\ \A id \in JobIDs : F[id] # Absent =>
          DOMAIN F[id] = JobFields /\ (id = Root \/ \E i \in 1..N : s[i].retry = id)

\* An admission was made where the chain ended at its time, within the budget.
AdmissionInv(a, s, N) ==
    /\ DOMAIN a = AdmissionFields /\ a.job \in JobIDs /\ a.policy \in DOMAIN Policies
    /\ \E k \in 0..N : /\ a.history = Prefix(s, k) /\ a.job = RetriedAt(s, k + 1)
                       /\ k < Policies[a.policy].max

\* What is written is what the request asks for and its admission says.
MutationInv(m, r) ==
    /\ DOMAIN m = MutationFields /\ m.root = NoChild
    /\ m.source = r.reviewed.job /\ m.version = r.reviewed.version
    /\ m.retry = r.retry /\ m.key = r.key /\ m.reviewed = r.reviewed
    /\ m.revision = r.reviewed.revision /\ m.policy = r.reviewed.policy
    /\ m.approval = r.reviewed.approval

\* The Job id is a retry of what r sent, and the one it asked for.
AnswerInv(id, r, L) ==
    \E l \in L : /\ l.retry = id /\ l.reviewed = r.reviewed
                 /\ l.retry = r.retry /\ l.key = r.key

RequestInv(r, s, N, L) ==
    /\ r.phase # "idle" => AdmissionInv(r.reviewed, s, N)
    /\ r.phase \notin {"idle", "reviewed"} => r.retry \in JobIDs
    /\ r.phase \in {"lookup", "source", "revision", "policy", "history"} =>
          DOMAIN r = RequestFields
    /\ r.phase = "create" => MutationInv(r.mutation, r)
    /\ r.phase = "answered" /\ r.outcome \in {"created", "replayed"} => AnswerInv(r.job, r, L)

RequestsInv(R, s, N, L) ==
    /\ DOMAIN R = Operators
    /\ \A o \in Operators : RequestInv(R[o], s, N, L)

RetryInv ==
    /\ rule \in DOMAIN Policies
    /\ \E s, N : LineageInv(s, N, family, lineage) /\ RequestsInv(retries, s, N, lineage)

\* Every existing Job belongs to the one root.
LEMMA RootIsOne ==
    ASSUME NEW s, NEW N, LineageInv(s, N, family, lineage), NEW id \in JobIDs, Exists(id)
    PROVE  RootOf(id) = Root
<1>1. CASE \E l \in lineage : l.retry = id
  <2> DEFINE l == CHOOSE l \in lineage : l.retry = id
  <2>1. l \in lineage
    BY <1>1, Zenon
  <2> HIDE DEF l
  <2>2. PICK i \in 1..N : s[i] = l
    BY <2>1, Zenon DEF LineageInv, ChainOf
  <2>3. s[i].root = Root
    BY Zenon DEF LineageInv, ChainOf
  <2> QED
    BY <1>1, <2>2, <2>3, Zenon DEF RootOf, l
<1>2. CASE ~\E l \in lineage : l.retry = id
  <2>1. id = Root
    <3>1. id = Root \/ \E i \in 1..N : s[i].retry = id
      BY Zenon DEF LineageInv, Exists
    <3>2. \A i \in 1..N : s[i] \in lineage
      BY Zenon DEF LineageInv, ChainOf
    <3> QED
      BY <1>2, <3>1, <3>2, Zenon
  <2> QED
    BY <1>2, <2>1, Zenon DEF RootOf
<1> QED
  BY <1>1, <1>2

NotRetried(id, L) == \A l \in L : l.source # id

\* A Job that exists and was not retried is the end of the chain.
LEMMA EndOfChain ==
    ASSUME NEW s, NEW N, NEW F, NEW L, LineageInv(s, N, F, L), NEW id \in JobIDs,
           F[id] # Absent, NotRetried(id, L)
    PROVE  id = RetriedAt(s, N + 1)
<1>1. N \in Nat /\ \A i \in 1..N : s[i] \in L /\ s[i].source = RetriedAt(s, i)
  BY Zenon DEF LineageInv, ChainOf
<1>2. PICK i \in 0..N : id = RetriedAt(s, i + 1)
  <2>1. CASE id = Root
    <3>1. 0 \in 0..N /\ 0 + 1 = 1
      BY <1>1
    <3> QED
      BY <2>1, <3>1, Zenon DEF RetriedAt
  <2>2. CASE id # Root
    <3>1. PICK i \in 1..N : s[i].retry = id
      BY <2>2, Zenon DEF LineageInv
    <3>2. i \in 0..N /\ i + 1 # 1 /\ (i + 1) - 1 = i
      BY <1>1
    <3>3. RetriedAt(s, i + 1) = id
      BY <3>1, <3>2, Zenon DEF RetriedAt
    <3> QED
      BY <3>2, <3>3, Zenon
  <2> QED
    BY <2>1, <2>2
<1>3. i = N
  <2> SUFFICES ASSUME i # N PROVE FALSE
    OBVIOUS
  <2>1. i + 1 \in 1..N
    BY <1>1
  <2> QED
    BY <1>1, <1>2, <2>1, Zenon DEF NotRetried
<1> QED
  BY <1>2, <1>3, Zenon

\* An admission without blockers.
LEMMA Unblocked ==
    ASSUME NEW job, NEW p, NEW history, Blockers(job, p, history) = {}
    PROVE  job.status = "failed" /\ ~history.alreadyRetried /\ ~BudgetExhausted(p)
<1>1. /\ "source_not_failed" \notin Blockers(job, p, history)
      /\ "source_already_retried" \notin Blockers(job, p, history)
      /\ "manual_retry_budget_exhausted" \notin Blockers(job, p, history)
  BY Zenon
<1>2. job.status = "failed"
  BY <1>1 DEF Blockers
<1>3. ~history.alreadyRetried
  BY <1>1 DEF Blockers
<1>4. ~BudgetExhausted(p)
  BY <1>1 DEF Blockers
<1> QED
  BY <1>2, <1>3, <1>4

\* A budget that is not exhausted leaves a retry.
LEMMA BudgetLeft ==
    ASSUME NEW n \in Nat, NEW max \in Nat, ~(max = 0 \/ n >= max)
    PROVE  n < max
OBVIOUS

\* The chain up to its end is all of it.
LEMMA WholeChain ==
    ASSUME NEW s, NEW N \in Nat, NEW S, ChainOf(s, N, S)
    PROVE  N \in 0..N /\ Prefix(s, N) = s
  BY DEF ChainOf, Prefix

\* What is reviewed is the end of the chain.
LEMMA ReviewedAtTheEnd ==
    ASSUME NEW s, NEW N, LineageInv(s, N, family, lineage), rule \in DOMAIN Policies,
           NEW id \in JobIDs, Exists(id), NEW rev, NEW at,
           LET p       == CurrentRetryPolicy(id, at)
               history == BuildManualRetryHistoryEvidence(id, at)
           IN Blockers(family[id], p, history) = {}
    PROVE  AdmissionInv(BuildJobRetryAdmissionEvidence(
                           id, family[id], rev, CurrentRetryPolicy(id, at),
                           BuildManualRetryHistoryEvidence(id, at), at), s, N)
<1> DEFINE p       == CurrentRetryPolicy(id, at)
           history == BuildManualRetryHistoryEvidence(id, at)
           a       == BuildJobRetryAdmissionEvidence(id, family[id], rev, p, history, at)
<1>1. ChainOf(s, N, lineage) /\ N \in Nat
  BY Zenon DEF LineageInv, ChainOf
<1>2. Walk(RootOf(id)) = s /\ Len(s) = N
  <2>1. RootOf(id) = Root
    BY RootIsOne
  <2>2. Walk(Root) = s /\ Len(s) = N
    BY <1>1, WalkIsChain
  <2> QED
    BY <2>1, <2>2, Zenon
<1>3. ~history.alreadyRetried /\ ~BudgetExhausted(p)
  BY Unblocked, Zenon
<1>4. /\ history.digest = s
      /\ history.alreadyRetried = \E l \in lineage : l.source = id
  BY <1>2 DEF BuildManualRetryHistoryEvidence
<1>5. p.digest = rule /\ p.max = Policies[rule].max /\ p.used = N
  BY <1>2 DEF CurrentRetryPolicy
<1> HIDE DEF p, history
<1>6. /\ DOMAIN a = AdmissionFields /\ a.job = id /\ a.history = history.digest
      /\ a.policy = p.digest
  BY DEF BuildJobRetryAdmissionEvidence, AdmissionFields
<1> HIDE DEF a
<1>7. id = RetriedAt(s, N + 1)
  <2>1. NotRetried(id, lineage)
    BY <1>3, <1>4, Zenon DEF NotRetried
  <2>2. family[id] # Absent
    BY Zenon DEF Exists
  <2> QED
    BY <2>1, <2>2, EndOfChain, Zenon
<1>8. N < Policies[rule].max
  <2>1. Policies[rule].max \in Nat
    BY RetryAssumption
  <2>2. ~(Policies[rule].max = 0 \/ N >= Policies[rule].max)
    BY <1>3, <1>5, Zenon DEF BudgetExhausted
  <2> QED
    BY <1>1, <2>1, <2>2, BudgetLeft, Zenon
<1>9. N \in 0..N /\ Prefix(s, N) = s
  BY <1>1, WholeChain, Zenon
<1>10. AdmissionInv(a, s, N)
  BY <1>4, <1>5, <1>6, <1>7, <1>8, <1>9, Zenon DEF AdmissionInv
<1> QED
  BY <1>10, Zenon DEF a, p, history

\* One request moves on.
LEMMA OneRequest ==
    ASSUME NEW s, NEW N, NEW L, NEW R, RequestsInv(R, s, N, L), NEW o \in Operators, NEW q,
           RequestInv(q, s, N, L)
    PROVE  RequestsInv([R EXCEPT ![o] = q], s, N, L)
BY Zenon DEF RequestsInv

\* A request that is answered.
Reply(r, outcome, id) ==
    [phase |-> "answered", reviewed |-> r.reviewed, retry |-> r.retry, key |-> r.key,
     sends |-> r.sends, outcome |-> outcome, job |-> id]

LEMMA Replied ==
    ASSUME NEW s, NEW N, NEW L, NEW r, RequestInv(r, s, N, L),
           r.phase \notin {"idle", "reviewed"}, NEW outcome, NEW id,
           outcome \in {"created", "replayed"} => AnswerInv(id, r, L)
    PROVE  RequestInv(Reply(r, outcome, id), s, N, L)
<1> DEFINE q == Reply(r, outcome, id)
<1>1. /\ q.phase = "answered" /\ q.reviewed = r.reviewed /\ q.retry = r.retry
      /\ q.key = r.key /\ q.outcome = outcome /\ q.job = id
  BY DEF Reply
<1> HIDE DEF q
<1>2. AdmissionInv(r.reviewed, s, N) /\ r.retry \in JobIDs
  BY Zenon DEF RequestInv
<1>3. outcome \in {"created", "replayed"} => AnswerInv(q.job, q, L)
  BY <1>1, Zenon DEF AnswerInv
<1>4. RequestInv(q, s, N, L)
  BY <1>1, <1>2, <1>3 DEF RequestInv
<1> QED
  BY <1>4, Zenon DEF q

\* A request that is sent, for the first time or again.
LEMMA Sent ==
    ASSUME NEW s, NEW N, NEW L, NEW r, RequestInv(r, s, N, L), r.phase # "idle",
           NEW id \in JobIDs, NEW key, NEW sends, NEW at
    PROVE  RequestInv([phase |-> "lookup", reviewed |-> r.reviewed, retry |-> id,
                       key |-> key, sends |-> sends, requested |-> at,
                       source |-> Absent, revision |-> 0, policy |-> Absent], s, N, L)
<1> DEFINE q == [phase |-> "lookup", reviewed |-> r.reviewed, retry |-> id,
                 key |-> key, sends |-> sends, requested |-> at,
                 source |-> Absent, revision |-> 0, policy |-> Absent]
<1>1. /\ q.phase = "lookup" /\ q.reviewed = r.reviewed /\ q.retry = id
      /\ DOMAIN q = RequestFields
  BY DEF RequestFields
<1> HIDE DEF q
<1>2. AdmissionInv(r.reviewed, s, N)
  BY Zenon DEF RequestInv
<1>3. RequestInv(q, s, N, L)
  BY <1>1, <1>2 DEF RequestInv
<1> QED
  BY <1>3, Zenon DEF q

\* A read of the revalidation.
LEMMA ReadOn ==
    ASSUME NEW s, NEW N, NEW L, NEW r, RequestInv(r, s, N, L),
           r.phase \in {"lookup", "source", "revision", "policy"}, NEW q,
           DOMAIN q = DOMAIN r, q.reviewed = r.reviewed, q.retry = r.retry,
           q.phase \in {"source", "revision", "policy", "history"}
    PROVE  RequestInv(q, s, N, L)
<1>1. AdmissionInv(r.reviewed, s, N) /\ r.retry \in JobIDs /\ DOMAIN r = RequestFields
  BY DEF RequestInv
<1>2. q.phase \notin {"create", "answered"}
  OBVIOUS
<1> QED
  BY <1>1, <1>2 DEF RequestInv

\* Two admissions of one boundary agree in what the lineage records.
LEMMA SameBoundary ==
    ASSUME NEW a, DOMAIN a = AdmissionFields, NEW c, DOMAIN c = AdmissionFields,
           sameReviewedRetryBoundary(a, c)
    PROVE  /\ a.version = c.version /\ a.revision = c.revision /\ a.policy = c.policy
           /\ a.approval = c.approval
<1> DEFINE u == [a EXCEPT !.historyObserved = 0, !.observed = 0]
           v == [c EXCEPT !.historyObserved = 0, !.observed = 0]
<1>1. u = v
  BY Zenon DEF sameReviewedRetryBoundary
<1>2. /\ u.version = a.version /\ u.revision = a.revision /\ u.policy = a.policy
      /\ u.approval = a.approval
  BY DEF AdmissionFields
<1>3. /\ v.version = c.version /\ v.revision = c.revision /\ v.policy = c.policy
      /\ v.approval = c.approval
  BY DEF AdmissionFields
<1> HIDE DEF u, v
<1> QED
  BY <1>1, <1>2, <1>3, Zenon

\* What a request that passed the revalidation asks the repository to create.
Mutation(r, c) ==
    [root |-> NoChild, source |-> r.reviewed.job, version |-> r.source.version,
     retry |-> r.retry, key |-> r.key, reviewed |-> r.reviewed,
     revalidation |-> c, revision |-> c.revision, policy |-> c.policy, history |-> c.history,
     approval |-> c.approval, requested |-> r.requested]

LEMMA Revalidated ==
    ASSUME NEW s, NEW N, NEW L, NEW r, RequestInv(r, s, N, L), r.phase = "history",
           NEW c, DOMAIN c = AdmissionFields, c.version = r.source.version,
           sameReviewedRetryBoundary(r.reviewed, c)
    PROVE  RequestInv([phase |-> "create", reviewed |-> r.reviewed, retry |-> r.retry,
                       key |-> r.key, sends |-> r.sends, mutation |-> Mutation(r, c)],
                      s, N, L)
<1> DEFINE a == r.reviewed
           m == Mutation(r, c)
           q == [phase |-> "create", reviewed |-> a, retry |-> r.retry,
                 key |-> r.key, sends |-> r.sends, mutation |-> m]
<1>1. AdmissionInv(a, s, N) /\ r.retry \in JobIDs
  BY DEF RequestInv
<1>2. DOMAIN a = AdmissionFields
  BY <1>1, Zenon DEF AdmissionInv
<1> HIDE DEF a
<1>3. /\ a.version = c.version /\ a.revision = c.revision /\ a.policy = c.policy
      /\ a.approval = c.approval
  BY <1>2, SameBoundary DEF a
<1>4. /\ DOMAIN m = MutationFields /\ m.root = NoChild
      /\ m.source = a.job /\ m.version = r.source.version
      /\ m.retry = r.retry /\ m.key = r.key /\ m.reviewed = a
      /\ m.revision = c.revision /\ m.policy = c.policy /\ m.approval = c.approval
  BY Zenon DEF Mutation, MutationFields, a
<1> HIDE DEF m
<1>5. /\ q.phase = "create" /\ q.reviewed = a /\ q.retry = r.retry /\ q.key = r.key
      /\ q.mutation = m
  OBVIOUS
<1> HIDE DEF q
<1>6. MutationInv(q.mutation, q)
  BY <1>3, <1>4, <1>5, Zenon DEF MutationInv
<1>7. RequestInv(q, s, N, L)
  BY <1>1, <1>5, <1>6 DEF RequestInv
<1> QED
  BY <1>7, Zenon DEF q, m, a

\* A Job that has not failed moves on, keeping its key.
LEMMA FamilyMovesOn ==
    ASSUME NEW s, NEW N, NEW F, NEW L, LineageInv(s, N, F, L), NEW id \in JobIDs,
           F[id] # Absent, F[id].status # "failed",
           NEW row, row # Absent, DOMAIN row = JobFields, row.key = F[id].key
    PROVE  LineageInv(s, N, [F EXCEPT ![id] = row], L)
<1> DEFINE G == [F EXCEPT ![id] = row]
<1>1. DOMAIN F = JobIDs
  BY Zenon DEF LineageInv
<1>2. DOMAIN G = JobIDs /\ G[id] = row /\ \A x \in JobIDs : x # id => G[x] = F[x]
  BY <1>1
<1> HIDE DEF G
<1>3. \A x \in JobIDs : G[x] # Absent <=> F[x] # Absent
  BY <1>2, Zenon
<1>4. ASSUME NEW l \in L PROVE EntryInv(l, G)
  <2>1. EntryInv(l, F)
    BY Zenon DEF LineageInv
  <2>2. l.source \in JobIDs /\ l.source # id
    BY <2>1, Zenon DEF EntryInv
  <2>3. G[l.source] = F[l.source]
    BY <1>2, <2>2, Zenon
  <2>4. l.retry \in JobIDs /\ G[l.retry] # Absent
    BY <1>3, <2>1, Zenon DEF EntryInv
  <2>5. G[l.retry].key = F[l.retry].key
    BY <1>2, <2>4, Zenon
  <2> QED
    BY <2>1, <2>3, <2>4, <2>5, Zenon DEF EntryInv
<1>5. ASSUME NEW x \in JobIDs, G[x] # Absent
      PROVE  DOMAIN G[x] = JobFields /\ (x = Root \/ \E i \in 1..N : s[i].retry = x)
  <2>1. DOMAIN F[x] = JobFields /\ (x = Root \/ \E i \in 1..N : s[i].retry = x)
    BY <1>3, <1>5, Zenon DEF LineageInv
  <2> QED
    BY <1>2, <2>1, Zenon
<1>6. G[Root] # Absent
  BY <1>3, RetryAssumption, Zenon DEF LineageInv
<1>7. LineageInv(s, N, G, L)
  BY <1>2, <1>4, <1>5, <1>6, Zenon DEF LineageInv
<1> QED
  BY <1>7, Zenon DEF G

\* The chain with one more entry.
Longer(s, N, l) == [i \in 1..(N + 1) |-> IF i = N + 1 THEN l ELSE s[i]]

\* It starts as the chain before.
LEMMA LongerStarts ==
    ASSUME NEW s, NEW N \in Nat, NEW l
    PROVE  /\ Longer(s, N, l)[N + 1] = l
           /\ \A i \in 1..N : Longer(s, N, l)[i] = s[i]
           /\ \A i \in 1..(N + 1) : RetriedAt(Longer(s, N, l), i) = RetriedAt(s, i)
           /\ \A k \in 0..N : Prefix(Longer(s, N, l), k) = Prefix(s, k)
<1> DEFINE t == Longer(s, N, l)
<1>1. t[N + 1] = l
  BY DEF Longer
<1>2. ASSUME NEW i \in 1..N PROVE t[i] = s[i]
  <2>1. i \in 1..(N + 1) /\ i # N + 1
    OBVIOUS
  <2> QED
    BY <2>1, Zenon DEF Longer
<1> HIDE DEF t
<1>3. ASSUME NEW i \in 1..(N + 1) PROVE RetriedAt(t, i) = RetriedAt(s, i)
  <2>1. CASE i = 1
    BY <2>1, Zenon DEF RetriedAt
  <2>2. CASE i # 1
    <3>1. i - 1 \in 1..N
      BY <2>2
    <3> QED
      BY <1>2, <2>2, <3>1, Zenon DEF RetriedAt
  <2> QED
    BY <2>1, <2>2
<1>4. ASSUME NEW k \in 0..N PROVE Prefix(t, k) = Prefix(s, k)
  <2>1. \A i \in 1..k : i \in 1..N
    OBVIOUS
  <2>2. \A i \in 1..k : t[i] = s[i]
    BY <1>2, <2>1, Zenon
  <2> QED
    BY <2>2, Zenon DEF Prefix
<1> QED
  BY <1>1, <1>2, <1>3, <1>4, Zenon DEF t

\* An admission stays what it was when the chain grows.
LEMMA AdmissionKept ==
    ASSUME NEW s, NEW N \in Nat, NEW l, NEW a, AdmissionInv(a, s, N)
    PROVE  AdmissionInv(a, Longer(s, N, l), N + 1)
<1> DEFINE t == Longer(s, N, l)
<1>1. PICK k \in 0..N : /\ a.history = Prefix(s, k) /\ a.job = RetriedAt(s, k + 1)
                        /\ k < Policies[a.policy].max
  BY Zenon DEF AdmissionInv
<1>2. k \in 0..(N + 1) /\ k + 1 \in 1..(N + 1)
  OBVIOUS
<1>3. Prefix(t, k) = Prefix(s, k)
  BY LongerStarts, Zenon
<1>4. RetriedAt(t, k + 1) = RetriedAt(s, k + 1)
  BY <1>2, LongerStarts, Zenon
<1> HIDE DEF t
<1>5. AdmissionInv(a, t, N + 1)
  BY <1>1, <1>2, <1>3, <1>4, Zenon DEF AdmissionInv
<1> QED
  BY <1>5, Zenon DEF t

\* So does a request.
LEMMA RequestKept ==
    ASSUME NEW s, NEW N \in Nat, NEW L, NEW l, NEW r, RequestInv(r, s, N, L)
    PROVE  RequestInv(r, Longer(s, N, l), N + 1, L \cup {l})
<1>1. r.phase # "idle" => AdmissionInv(r.reviewed, Longer(s, N, l), N + 1)
  BY AdmissionKept, Zenon DEF RequestInv
<1>2. AnswerInv(r.job, r, L) => AnswerInv(r.job, r, L \cup {l})
  BY Zenon DEF AnswerInv
<1> QED
  BY <1>1, <1>2, Zenon DEF RequestInv

\* A new entry for the Job at the end of the chain, of what was reviewed.
NewEntry(l, s, N, F, L) ==
    /\ DOMAIN l = MutationFields /\ l.root = Root
    /\ l.source \in JobIDs /\ F[l.source] # Absent /\ F[l.source].status = "failed"
    /\ F[l.source].version = l.version /\ NotRetried(l.source, L)
    /\ l.retry \in JobIDs /\ F[l.retry] = Absent
    /\ l.source = l.reviewed.job /\ l.version = l.reviewed.version
    /\ l.revision = l.reviewed.revision /\ l.policy = l.reviewed.policy
    /\ l.approval = l.reviewed.approval
    /\ AdmissionInv(l.reviewed, s, N)

\* It continues the chain that was reviewed.
LEMMA EntryAtTheEnd ==
    ASSUME NEW s, NEW N, NEW F, NEW L, LineageInv(s, N, F, L), NEW l, NewEntry(l, s, N, F, L)
    PROVE  /\ l.source = RetriedAt(s, N + 1) /\ l.reviewed.history = Prefix(s, N)
           /\ N + 1 <= Policies[l.policy].max
<1>1. N \in Nat /\ \A i \in 1..N : s[i] \in L /\ s[i].source = RetriedAt(s, i)
  BY Zenon DEF LineageInv, ChainOf
<1>2. l.source = RetriedAt(s, N + 1)
  BY EndOfChain, Zenon DEF NewEntry
<1>3. PICK k \in 0..N : /\ l.reviewed.history = Prefix(s, k)
                        /\ l.reviewed.job = RetriedAt(s, k + 1)
                        /\ k < Policies[l.reviewed.policy].max
  BY Zenon DEF NewEntry, AdmissionInv
<1>4. k = N
  <2> SUFFICES ASSUME k # N PROVE FALSE
    OBVIOUS
  <2>1. k + 1 \in 1..N
    BY <1>1
  <2>2. s[k + 1] \in L /\ s[k + 1].source = l.source
    BY <1>1, <1>3, <2>1, Zenon DEF NewEntry
  <2> QED
    BY <2>2, Zenon DEF NewEntry, NotRetried
<1>5. N < Policies[l.policy].max
  BY <1>3, <1>4, Zenon DEF NewEntry
<1>6. N + 1 <= Policies[l.policy].max
  <2>1. l.policy \in DOMAIN Policies
    BY Zenon DEF NewEntry, AdmissionInv
  <2>2. Policies[l.policy].max \in Nat
    BY <2>1, RetryAssumption, Zenon
  <2> QED
    BY <1>1, <1>5, <2>2
<1> QED
  BY <1>2, <1>3, <1>4, <1>6, Zenon

\* The chain grows by a new entry, and the family by the Job it creates.
LEMMA ChainGrows ==
    ASSUME NEW s, NEW N, NEW F, NEW L, LineageInv(s, N, F, L), NEW l, NewEntry(l, s, N, F, L),
           NEW row, row # Absent, DOMAIN row = JobFields, row.key = l.key
    PROVE  LineageInv(Longer(s, N, l), N + 1, [F EXCEPT ![l.retry] = row], L \cup {l})
<1> DEFINE t == Longer(s, N, l)
           M == N + 1
           G == [F EXCEPT ![l.retry] = row]
           K == L \cup {l}
<1>1. N \in Nat /\ s \in [1..N -> L]
  BY Zenon DEF LineageInv, ChainOf
<1>2. /\ t[M] = l
      /\ \A i \in 1..N : t[i] = s[i]
      /\ \A i \in 1..M : RetriedAt(t, i) = RetriedAt(s, i)
      /\ \A k \in 0..N : Prefix(t, k) = Prefix(s, k)
  BY <1>1, LongerStarts, Zenon
<1>3. /\ l.source = RetriedAt(s, M) /\ l.reviewed.history = Prefix(s, N)
      /\ M <= Policies[l.policy].max
  BY EntryAtTheEnd, Zenon
<1>4. M \in Nat /\ M \in 1..M /\ N \in 0..N /\ M - 1 = N
  BY <1>1
<1>5. \A i \in 1..M : i = M \/ i \in 1..N
  BY <1>1
<1>6. \A i \in 1..N : i \in 1..M /\ i # M /\ i - 1 \in 0..N
  BY <1>1
<1>7. t \in [1..M -> K]
  <2>1. \A i \in 1..M : t[i] \in K
    BY <1>1, <1>2, <1>5
  <2> QED
    BY <2>1, Zenon DEF Longer
<1>8. DOMAIN G = JobIDs /\ G[l.retry] = row /\ \A x \in JobIDs : x # l.retry => G[x] = F[x]
  <2>1. DOMAIN F = JobIDs /\ l.retry \in JobIDs
    BY Zenon DEF LineageInv, NewEntry
  <2> QED
    BY <2>1
<1> HIDE DEF t, M, G, K
<1>9. ChainOf(t, M, K)
  <2>1. \A k \in K : \E i \in 1..M : t[i] = k
    <3>1. ASSUME NEW k \in L PROVE \E i \in 1..M : t[i] = k
      <4>1. PICK i \in 1..N : s[i] = k
        BY Zenon DEF LineageInv, ChainOf
      <4> QED
        BY <1>2, <1>6, <4>1, Zenon
    <3> QED
      BY <1>2, <1>4, <3>1, Zenon DEF K
  <2>2. F[l.retry] = Absent /\ F[Root] # Absent
    BY Zenon DEF LineageInv, NewEntry
  <2>3. ASSUME NEW i \in 1..M
        PROVE  t[i].root = Root /\ t[i].retry # Root /\ t[i].source = RetriedAt(t, i)
    <3>1. CASE i = M
      <4>1. l.root = Root /\ l.retry # Root
        BY <2>2, Zenon DEF NewEntry
      <4> QED
        BY <1>2, <1>3, <1>4, <3>1, <4>1, Zenon
    <3>2. CASE i # M
      <4>1. i \in 1..N
        BY <1>5, <3>2, Zenon
      <4>2. s[i].root = Root /\ s[i].retry # Root /\ s[i].source = RetriedAt(s, i)
        BY <4>1, Zenon DEF LineageInv, ChainOf
      <4> QED
        BY <1>2, <4>1, <4>2, Zenon
    <3> QED
      BY <3>1, <3>2
  <2>4. \A i \in 1..N : t[i].retry # l.retry
    <3>1. \A i \in 1..N : s[i] \in L /\ F[s[i].retry] # Absent
      BY Zenon DEF LineageInv, ChainOf, EntryInv
    <3> QED
      BY <1>2, <2>2, <3>1, Zenon
  <2>5. \A i, k \in 1..N : t[i].retry = t[k].retry => i = k
    <3>1. \A i, k \in 1..N : s[i].retry = s[k].retry => i = k
      BY Zenon DEF LineageInv, ChainOf
    <3> QED
      BY <1>2, <3>1, Zenon
  <2>6. \A i, k \in 1..M : t[i].retry = t[k].retry => i = k
    BY <1>2, <1>5, <2>4, <2>5, Zenon
  <2> QED
    BY <1>4, <1>7, <2>1, <2>3, <2>6, Zenon DEF ChainOf
<1>10. ASSUME NEW i \in 1..M
       PROVE  t[i].reviewed.history = Prefix(t, i - 1) /\ i <= Policies[t[i].policy].max
  <2>1. CASE i = M
    BY <1>2, <1>3, <1>4, <2>1, Zenon
  <2>2. CASE i # M
    <3>1. i \in 1..N /\ i - 1 \in 0..N
      BY <1>5, <1>6, <2>2, Zenon
    <3>2. s[i].reviewed.history = Prefix(s, i - 1) /\ i <= Policies[s[i].policy].max
      BY <3>1, Zenon DEF LineageInv
    <3> QED
      BY <1>2, <3>1, <3>2, Zenon
  <2> QED
    BY <2>1, <2>2
<1>11. ASSUME NEW x \in JobIDs, F[x] # Absent PROVE G[x] = F[x]
  <2>1. x # l.retry
    BY <1>11, Zenon DEF NewEntry
  <2> QED
    BY <1>8, <2>1, Zenon
<1>12. ASSUME NEW k \in K PROVE EntryInv(k, G)
  <2>1. CASE k \in L
    <3>1. EntryInv(k, F)
      BY <2>1, Zenon DEF LineageInv
    <3>2. k.source \in JobIDs /\ F[k.source] # Absent
      <4>1. k.source \in JobIDs /\ F[k.source].status = "failed"
        BY <3>1, Zenon DEF EntryInv
      <4> QED
        BY <4>1 DEF Absent
    <3>3. k.retry \in JobIDs /\ F[k.retry] # Absent
      BY <3>1, Zenon DEF EntryInv
    <3>4. G[k.source] = F[k.source] /\ G[k.retry] = F[k.retry]
      BY <1>11, <3>2, <3>3, Zenon
    <3> QED
      BY <3>1, <3>4, Zenon DEF EntryInv
  <2>2. CASE k = l
    <3>1. G[l.source] = F[l.source]
      BY <1>11, Zenon DEF NewEntry
    <3> QED
      BY <1>8, <2>2, <3>1, Zenon DEF EntryInv, NewEntry
  <2> QED
    BY <2>1, <2>2, Zenon DEF K
<1>13. ASSUME NEW x \in JobIDs, G[x] # Absent
       PROVE  DOMAIN G[x] = JobFields /\ (x = Root \/ \E i \in 1..M : t[i].retry = x)
  <2>1. CASE x = l.retry
    BY <1>2, <1>4, <1>8, <2>1, Zenon
  <2>2. CASE x # l.retry
    <3>1. G[x] = F[x] /\ F[x] # Absent
      BY <1>8, <1>13, <2>2, Zenon
    <3>2. DOMAIN F[x] = JobFields /\ (x = Root \/ \E i \in 1..N : s[i].retry = x)
      BY <3>1, Zenon DEF LineageInv
    <3> QED
      BY <1>2, <1>6, <3>1, <3>2, Zenon
  <2> QED
    BY <2>1, <2>2
<1>14. G[Root] # Absent
  <2>1. Root \in JobIDs /\ F[Root] # Absent
    BY RetryAssumption, Zenon DEF LineageInv
  <2> QED
    BY <1>11, <2>1, Zenon
<1>15. LineageInv(t, M, G, K)
  BY <1>8, <1>9, <1>10, <1>12, <1>13, <1>14, Zenon DEF LineageInv
<1> QED
  BY <1>15, Zenon DEF t, M, G, K

\* Both repositories give a request the same answer, but for a child whose
\* identifier and key are both taken: where the admission has an entry, the Job it
\* retried is as it was reviewed.
LEMMA OutcomesAgree ==
    ASSUME NEW s, NEW N, LineageInv(s, N, family, lineage), NEW r, NEW m, MutationInv(m, r)
    PROVE  MemoryOutcome(m) = PostgresOutcome(m) \/ BothTaken(m)
<1>1. CASE ByAdmission(m.reviewed) = {}
  <2>1. CASE IDTaken(m) /\ KeyTaken(m)
    BY <1>1, <2>1 DEF MemoryOutcome, PostgresOutcome, BothTaken
  <2>2. CASE ~(IDTaken(m) /\ KeyTaken(m))
    BY <1>1, <2>2 DEF MemoryOutcome, PostgresOutcome
  <2> QED
    BY <2>1, <2>2
<1>2. CASE ByAdmission(m.reviewed) # {}
  <2>1. PICK l \in lineage : l.reviewed = m.reviewed
    BY <1>2, Zenon DEF ByAdmission
  <2>2. EntryInv(l, family)
    BY Zenon DEF LineageInv
  <2>3. m.source = m.reviewed.job /\ m.version = m.reviewed.version
    BY Zenon DEF MutationInv
  <2>4. family[m.source].status = "failed" /\ family[m.source].version = m.version
    BY <2>1, <2>2, <2>3, Zenon DEF EntryInv
  <2>5. Exists(m.source)
    BY <2>4 DEF Exists, Absent
  <2> QED
    BY <1>2, <2>4, <2>5, Zenon DEF MemoryOutcome, PostgresOutcome
<1> QED
  BY <1>1, <1>2

\* When a retry is created.
LEMMA CreatedMeans ==
    ASSUME NEW m, PostgresOutcome(m) = "created"
    PROVE  /\ Exists(m.source) /\ family[m.source].version = m.version
           /\ Retryable(family[m.source]) /\ ~RetriedBefore(m) /\ ~IDTaken(m)
<1>1. Replay(m) # "created"
  BY DEF Replay
<1> QED
  BY <1>1 DEF PostgresOutcome

\* When a request is answered by a retry there is.
LEMMA ReplayedMeans ==
    ASSUME NEW s, NEW N, LineageInv(s, N, family, lineage), NEW r, NEW m, MutationInv(m, r),
           PostgresOutcome(m) = "replayed"
    PROVE  AnswerInv(m.retry, r, lineage)
<1>1. ByAdmission(m.reviewed) # {} /\ Replay(m) = "replayed"
  BY DEF PostgresOutcome
<1>2. PICK l \in lineage : l.reviewed = m.reviewed
  BY <1>1, Zenon DEF ByAdmission
<1>3. Fingerprint(l) = ManualRetryRequestFingerprint(m)
  <2>1. l \in ByAdmission(m.reviewed)
    BY <1>2, Zenon DEF ByAdmission
  <2>2. \A k \in ByAdmission(m.reviewed) : Fingerprint(k) = ManualRetryRequestFingerprint(m)
    BY <1>1 DEF Replay
  <2> QED
    BY <2>1, <2>2, Zenon
<1>4. DOMAIN l = MutationFields /\ DOMAIN m = MutationFields
  BY Zenon DEF LineageInv, EntryInv, MutationInv
<1> DEFINE u == Fingerprint(l)
           v == ManualRetryRequestFingerprint(m)
<1>5. u.retry = l.retry /\ u.key = l.key
  BY <1>4 DEF Fingerprint, ManualRetryRequestFingerprint, MutationFields
<1>6. v.retry = m.retry /\ v.key = m.key
  BY <1>4 DEF ManualRetryRequestFingerprint, MutationFields
<1> HIDE DEF u, v
<1>7. l.retry = m.retry /\ l.key = m.key
  BY <1>3, <1>5, <1>6, Zenon DEF u, v
<1> QED
  BY <1>2, <1>7, Zenon DEF MutationInv, AnswerInv

RetryAt(s, N) ==
    /\ rule \in DOMAIN Policies
    /\ LineageInv(s, N, family, lineage) /\ RequestsInv(retries, s, N, lineage)

\* The steps that move only a request.
LEMMA ReviewMoves ==
    ASSUME NEW s, NEW N, RetryAt(s, N), NEW o \in Operators, NEW id \in JobIDs, Review(o, id)
    PROVE  RequestsInv(retries', s, N, lineage)
<1> DEFINE p         == CurrentRetryPolicy(id, time)
           history   == BuildManualRetryHistoryEvidence(id, time)
           a         == BuildJobRetryAdmissionEvidence(id, family[id], revision, p, history, time)
           q         == [phase |-> "reviewed", sends |-> 0, reviewed |-> a]
<1>1. Exists(id) /\ Eligible(a) /\ retries' = [retries EXCEPT ![o] = q]
  BY Zenon DEF Review
<1>2. Blockers(family[id], p, history) = {}
  <2>1. a.blockers = Blockers(family[id], p, history)
    BY DEF BuildJobRetryAdmissionEvidence
  <2> QED
    BY <1>1, <2>1, Zenon DEF Eligible
<1>3. AdmissionInv(a, s, N)
  BY <1>1, <1>2, ReviewedAtTheEnd, Zenon DEF RetryAt
<1> HIDE DEF a
<1>4. q.phase = "reviewed" /\ q.reviewed = a
  OBVIOUS
<1> HIDE DEF q
<1>5. RequestInv(q, s, N, lineage)
  BY <1>3, <1>4 DEF RequestInv
<1> QED
  BY <1>1, <1>5, OneRequest, Zenon DEF RetryAt

LEMMA ShareMoves ==
    ASSUME NEW s, NEW N, RetryAt(s, N), NEW o \in Operators, NEW other \in Operators,
           Share(o, other)
    PROVE  RequestsInv(retries', s, N, lineage)
<1> DEFINE r == retries[other]
           q == [phase |-> "reviewed", sends |-> 0, reviewed |-> r.reviewed]
<1>1. r.phase # "idle" /\ retries' = [retries EXCEPT ![o] = q]
  BY Zenon DEF Share
<1>2. AdmissionInv(r.reviewed, s, N)
  BY <1>1, Zenon DEF RetryAt, RequestsInv, RequestInv
<1> HIDE DEF r
<1>3. q.phase = "reviewed" /\ q.reviewed = r.reviewed
  OBVIOUS
<1> HIDE DEF q
<1>4. RequestInv(q, s, N, lineage)
  BY <1>2, <1>3 DEF RequestInv
<1> QED
  BY <1>1, <1>4, OneRequest, Zenon DEF RetryAt

LEMMA SendMoves ==
    ASSUME NEW s, NEW N, RetryAt(s, N), NEW o \in Operators,
           Resubmit(o) \/ \E c \in Children : Submit(o, c[1], c[2])
    PROVE  RequestsInv(retries', s, N, lineage)
<1> DEFINE r == retries[o]
           q(id, key, sends) ==
             [phase |-> "lookup", reviewed |-> r.reviewed, retry |-> id,
              key |-> key, sends |-> sends, requested |-> time,
              source |-> Absent, revision |-> 0, policy |-> Absent]
<1>1. RequestInv(r, s, N, lineage)
  BY Zenon DEF RetryAt, RequestsInv
<1>2. CASE Resubmit(o)
  <2>1. r.phase = "answered" /\ retries' = [retries EXCEPT ![o] = q(r.retry, r.key, r.sends + 1)]
    BY <1>2, Zenon DEF Resubmit
  <2>2. r.retry \in JobIDs
    BY <1>1, <2>1 DEF RequestInv
  <2>3. RequestInv(q(r.retry, r.key, r.sends + 1), s, N, lineage)
    <3> HIDE DEF r
    <3> QED
      BY Zenon, <1>1, <2>1, <2>2, Sent
  <2> HIDE DEF q
  <2> QED
    BY <2>1, <2>3, OneRequest, Zenon DEF RetryAt
<1>3. ASSUME NEW c \in Children, Submit(o, c[1], c[2])
      PROVE  RequestsInv(retries', s, N, lineage)
  <2>1. r.phase = "reviewed" /\ retries' = [retries EXCEPT ![o] = q(c[1], c[2], 1)]
    BY <1>3, Zenon DEF Submit
  <2>2. c[1] \in JobIDs
    BY RetryAssumption, Zenon
  <2>3. RequestInv(q(c[1], c[2], 1), s, N, lineage)
    <3> HIDE DEF r
    <3> QED
      BY <1>1, <2>1, <2>2, Sent
  <2> HIDE DEF q
  <2> QED
    BY <2>1, <2>3, OneRequest, Zenon DEF RetryAt
<1> QED
  BY <1>2, <1>3, Zenon

\* An answer, if what it says of a retry is so.
LEMMA AnswerMoves ==
    ASSUME NEW s, NEW N, NEW L, RequestsInv(retries, s, N, L), NEW o \in Operators,
           retries[o].phase \notin {"idle", "reviewed"}, NEW outcome, NEW id,
           Answer(o, outcome, id),
           outcome \in {"created", "replayed"} => AnswerInv(id, retries[o], L)
    PROVE  RequestsInv(retries', s, N, L)
<1>1. RequestInv(retries[o], s, N, L)
  BY Zenon DEF RequestsInv
<1>2. RequestInv(Reply(retries[o], outcome, id), s, N, L)
  BY <1>1, Replied, Zenon
<1>3. retries' = [retries EXCEPT ![o] = Reply(retries[o], outcome, id)]
  BY Zenon DEF Answer, Reply
<1> QED
  BY <1>2, <1>3, OneRequest, Zenon

LEMMA RefusalMoves ==
    ASSUME NEW s, NEW N, NEW L, RequestsInv(retries, s, N, L), NEW o \in Operators,
           retries[o].phase \notin {"idle", "reviewed"}, Refuse(o)
    PROVE  RequestsInv(retries', s, N, L)
<1>1. "refused" \notin {"created", "replayed"}
  OBVIOUS
<1> QED
  BY <1>1, AnswerMoves, Zenon DEF Refuse

LEMMA LookupMoves ==
    ASSUME NEW s, NEW N, RetryAt(s, N), NEW o \in Operators, Lookup(o)
    PROVE  RequestsInv(retries', s, N, lineage)
<1> DEFINE r == retries[o]
           found == ByAdmission(r.reviewed)
<1>1. r.phase = "lookup" /\ r.phase \notin {"idle", "reviewed"}
  BY DEF Lookup
<1>2. RequestInv(r, s, N, lineage) /\ RequestsInv(retries, s, N, lineage)
  BY Zenon DEF RetryAt, RequestsInv
<1>3. CASE found = {}
  <2> DEFINE q == [r EXCEPT !.phase = "source"]
  <2>1. retries' = [retries EXCEPT ![o] = q]
    BY <1>3, Zenon DEF Lookup
  <2>2. DOMAIN r = RequestFields
    BY <1>1, <1>2 DEF RequestInv
  <2> HIDE DEF r
  <2>3. /\ DOMAIN q = DOMAIN r /\ q.reviewed = r.reviewed /\ q.retry = r.retry
        /\ q.phase = "source"
    BY <2>2 DEF RequestFields
  <2> HIDE DEF q
  <2>4. RequestInv(q, s, N, lineage)
    BY <1>1, <1>2, <2>3, ReadOn
  <2> QED
    BY <1>2, <2>1, <2>4, OneRequest, Zenon
<1>4. CASE found # {}
  <2> DEFINE l == CHOOSE l \in found : TRUE
  <2>1. l \in lineage /\ l.reviewed = r.reviewed
    BY <1>4, Zenon DEF ByAdmission
  <2>2. IF r.retry /= l.retry \/ r.key /= family[l.retry].key
        THEN Refuse(o) ELSE Answer(o, "replayed", l.retry)
    BY <1>4, Zenon DEF Lookup
  <2> HIDE DEF l
  <2>3. family[l.retry].key = l.key
    BY <2>1, Zenon DEF RetryAt, LineageInv, EntryInv
  <2>4. CASE r.retry /= l.retry \/ r.key /= family[l.retry].key
    <3>1. Refuse(o)
      BY <2>2, <2>4
    <3> QED
      BY <1>1, <1>2, <3>1, RefusalMoves, Zenon
  <2>5. CASE ~(r.retry /= l.retry \/ r.key /= family[l.retry].key)
    <3>1. Answer(o, "replayed", l.retry)
      BY <2>2, <2>5
    <3>2. AnswerInv(l.retry, r, lineage)
      BY <2>1, <2>3, <2>5, Zenon DEF AnswerInv
    <3> QED
      BY <1>1, <1>2, <3>1, <3>2, AnswerMoves, Zenon
  <2> QED
    BY <2>4, <2>5
<1> QED
  BY <1>3, <1>4

LEMMA ReadMoves ==
    ASSUME NEW s, NEW N, RetryAt(s, N), NEW o \in Operators,
           ReadSource(o) \/ ReadRevision(o) \/ ReadPolicy(o)
    PROVE  RequestsInv(retries', s, N, lineage)
<1> DEFINE r == retries[o]
<1>1. RequestInv(r, s, N, lineage) /\ RequestsInv(retries, s, N, lineage)
  BY Zenon DEF RetryAt, RequestsInv
<1>2. CASE ReadSource(o)
  <2> DEFINE q == [r EXCEPT !.phase = "revision", !.source = family[r.reviewed.job]]
  <2>1. r.phase = "source" /\ (retries' = [retries EXCEPT ![o] = q] \/ Refuse(o))
    BY <1>2, Zenon DEF ReadSource
  <2>2. r.phase \notin {"idle", "reviewed"} /\ DOMAIN r = RequestFields
    BY <1>1, <2>1 DEF RequestInv
  <2>3. CASE Refuse(o)
    BY <1>1, <2>2, <2>3, RefusalMoves, Zenon
  <2>4. CASE retries' = [retries EXCEPT ![o] = q]
    <3> HIDE DEF r
    <3>1. /\ DOMAIN q = DOMAIN r /\ q.reviewed = r.reviewed /\ q.retry = r.retry
          /\ q.phase = "revision"
      BY <2>2 DEF RequestFields
    <3> HIDE DEF q
    <3>2. RequestInv(q, s, N, lineage)
      BY <1>1, <2>1, <3>1, ReadOn
    <3> QED
      BY <1>1, <2>4, <3>2, OneRequest, Zenon
  <2> QED
    BY <2>1, <2>3, <2>4
<1>3. CASE ReadRevision(o)
  <2> DEFINE q == [r EXCEPT !.phase = "policy", !.revision = revision]
  <2>1. r.phase = "revision" /\ retries' = [retries EXCEPT ![o] = q]
    BY <1>3, Zenon DEF ReadRevision
  <2>2. DOMAIN r = RequestFields
    BY <1>1, <2>1 DEF RequestInv
  <2> HIDE DEF r
  <2>3. /\ DOMAIN q = DOMAIN r /\ q.reviewed = r.reviewed /\ q.retry = r.retry
        /\ q.phase = "policy"
    BY <2>2 DEF RequestFields
  <2> HIDE DEF q
  <2>4. RequestInv(q, s, N, lineage)
    BY <1>1, <2>1, <2>3, ReadOn
  <2> QED
    BY <1>1, <2>1, <2>4, OneRequest, Zenon
<1>4. CASE ReadPolicy(o)
  <2> DEFINE q == [r EXCEPT !.phase = "history",
                            !.policy = CurrentRetryPolicy(r.reviewed.job, time)]
  <2>1. r.phase = "policy" /\ retries' = [retries EXCEPT ![o] = q]
    BY <1>4, Zenon DEF ReadPolicy
  <2>2. DOMAIN r = RequestFields
    BY <1>1, <2>1 DEF RequestInv
  <2> HIDE DEF r
  <2>3. /\ DOMAIN q = DOMAIN r /\ q.reviewed = r.reviewed /\ q.retry = r.retry
        /\ q.phase = "history"
    BY <2>2 DEF RequestFields
  <2> HIDE DEF q
  <2>4. RequestInv(q, s, N, lineage)
    BY <1>1, <2>1, <2>3, ReadOn
  <2> QED
    BY <1>1, <2>1, <2>4, OneRequest, Zenon
<1> QED
  BY <1>2, <1>3, <1>4

LEMMA RevalidateMoves ==
    ASSUME NEW s, NEW N, RetryAt(s, N), NEW o \in Operators, Revalidate(o)
    PROVE  RequestsInv(retries', s, N, lineage)
<1> DEFINE r       == retries[o]
           a       == r.reviewed
           history == BuildManualRetryHistoryEvidence(a.job, time)
           c       == BuildJobRetryAdmissionEvidence(
                        a.job, r.source, r.revision, r.policy, history, r.requested)
           q       == [phase |-> "create", reviewed |-> r.reviewed, retry |-> r.retry,
                       key |-> r.key, sends |-> r.sends, mutation |-> Mutation(r, c)]
<1>1. RequestInv(r, s, N, lineage) /\ RequestsInv(retries, s, N, lineage)
  BY Zenon DEF RetryAt, RequestsInv
<1>2. r.phase = "history"
  BY Zenon DEF Revalidate
<1>3. \/ Refuse(o)
      \/ sameReviewedRetryBoundary(a, c) /\ retries' = [retries EXCEPT ![o] = q]
  BY Zenon DEF Revalidate, Mutation
<1>4. CASE Refuse(o)
  <2>1. r.phase \notin {"idle", "reviewed"}
    BY <1>2
  <2> QED
    BY <1>1, <1>4, <2>1, RefusalMoves, Zenon
<1>5. CASE sameReviewedRetryBoundary(a, c) /\ retries' = [retries EXCEPT ![o] = q]
  <2> HIDE DEF r, history
  <2>1. DOMAIN c = AdmissionFields /\ c.version = r.source.version
    BY DEF BuildJobRetryAdmissionEvidence, AdmissionFields
  <2> HIDE DEF c
  <2>2. RequestInv(q, s, N, lineage)
    BY <1>1, <1>2, <1>5, <2>1, Revalidated, Zenon
  <2> HIDE DEF q
  <2> QED
    BY <1>1, <1>5, <2>2, OneRequest, Zenon
<1> QED
  BY <1>3, <1>4, <1>5, Zenon

\* The transaction that creates the retry, or finds the one there is.
LEMMA CreateMoves ==
    ASSUME NEW s, NEW N, RetryAt(s, N), NEW o \in Operators, CreateManualRetry(o)
    PROVE  RetryInv'
<1> DEFINE r == retries[o]
           m == r.mutation
<1>1. RequestInv(r, s, N, lineage) /\ RequestsInv(retries, s, N, lineage)
  BY Zenon DEF RetryAt, RequestsInv
<1>2. LineageInv(s, N, family, lineage) /\ rule \in DOMAIN Policies
  BY Zenon DEF RetryAt
<1>3. r.phase = "create" /\ rule' = rule
  BY Zenon DEF CreateManualRetry
<1>4. MutationInv(m, r) /\ AdmissionInv(r.reviewed, s, N) /\ r.retry \in JobIDs
      /\ r.phase \notin {"idle", "reviewed"}
  BY <1>1, <1>3 DEF RequestInv
<1>5. \/ /\ PostgresOutcome(m) = "created"
         /\ family' = [family EXCEPT ![m.retry] = QueuedJob(m.key, m.requested)]
         /\ lineage' = lineage \cup {[m EXCEPT !.root = RootOf(m.source)]}
         /\ Answer(o, "created", m.retry)
      \/ /\ PostgresOutcome(m) = "replayed"
         /\ Answer(o, "replayed", m.retry) /\ UNCHANGED <<family, lineage>>
      \/ Refuse(o) /\ UNCHANGED <<family, lineage>>
  BY DEF CreateManualRetry
<1>6. ASSUME UNCHANGED <<family, lineage>>, RequestsInv(retries', s, N, lineage)
      PROVE  RetryInv'
  BY <1>2, <1>3, <1>6, Zenon DEF RetryInv
<1>7. CASE Refuse(o) /\ UNCHANGED <<family, lineage>>
  <2>1. RequestsInv(retries', s, N, lineage)
    BY <1>1, <1>4, <1>7, RefusalMoves, Zenon
  <2> QED
    BY <1>6, <1>7, <2>1
<1>8. CASE /\ PostgresOutcome(m) = "replayed"
           /\ Answer(o, "replayed", m.retry) /\ UNCHANGED <<family, lineage>>
  <2>1. AnswerInv(m.retry, r, lineage)
    BY <1>2, <1>4, <1>8, ReplayedMeans, Zenon
  <2>2. RequestsInv(retries', s, N, lineage)
    BY <1>1, <1>4, <1>8, <2>1, AnswerMoves, Zenon
  <2> QED
    BY <1>6, <1>8, <2>2
<1>9. CASE /\ PostgresOutcome(m) = "created"
           /\ family' = [family EXCEPT ![m.retry] = QueuedJob(m.key, m.requested)]
           /\ lineage' = lineage \cup {[m EXCEPT !.root = RootOf(m.source)]}
           /\ Answer(o, "created", m.retry)
  <2> DEFINE l == [m EXCEPT !.root = RootOf(m.source)]
             row == QueuedJob(m.key, m.requested)
             t == Longer(s, N, l)
  <2>1. /\ Exists(m.source) /\ family[m.source].version = m.version
        /\ Retryable(family[m.source]) /\ ~RetriedBefore(m) /\ ~IDTaken(m)
    BY <1>9, CreatedMeans, Zenon
  <2>2. /\ DOMAIN m = MutationFields /\ m.source = r.reviewed.job
        /\ m.version = r.reviewed.version /\ m.retry = r.retry /\ m.key = r.key
        /\ m.reviewed = r.reviewed /\ m.revision = r.reviewed.revision
        /\ m.policy = r.reviewed.policy /\ m.approval = r.reviewed.approval
    BY <1>4, Zenon DEF MutationInv
  <2>3. m.source \in JobIDs /\ m.retry \in JobIDs
    BY <1>4, <2>2, Zenon DEF AdmissionInv
  <2>4. RootOf(m.source) = Root
    BY <1>2, <2>1, <2>3, RootIsOne, Zenon
  <2> HIDE DEF r, m
  <2>5. /\ DOMAIN l = MutationFields /\ l.root = Root /\ l.source = m.source
        /\ l.version = m.version /\ l.retry = m.retry /\ l.key = m.key
        /\ l.reviewed = m.reviewed /\ l.revision = m.revision /\ l.policy = m.policy
        /\ l.approval = m.approval
    BY <2>2, <2>4 DEF MutationFields
  <2>6. row # Absent /\ DOMAIN row = JobFields /\ row.key = m.key
    BY DEF QueuedJob, Absent, JobFields
  <2>7. NotRetried(m.source, lineage)
    <3> SUFFICES ASSUME NEW k \in lineage, k.source = m.source PROVE FALSE
      BY Zenon DEF NotRetried
    <3>1. k.version = family[m.source].version
      BY <1>2, Zenon DEF LineageInv, EntryInv
    <3> QED
      BY <2>1, <3>1, Zenon DEF RetriedBefore
  <2>8. family[m.source].status = "failed" /\ family[m.source] # Absent /\ family[m.retry] = Absent
    BY <2>1, Zenon DEF Retryable, IDTaken, Exists
  <2> HIDE DEF l, row
  <2>9. NewEntry(l, s, N, family, lineage)
    BY <1>4, <2>1, <2>2, <2>3, <2>5, <2>7, <2>8, Zenon DEF NewEntry
  <2>10. LineageInv(t, N + 1, [family EXCEPT ![l.retry] = row], lineage \cup {l})
    BY <1>2, <2>5, <2>6, <2>9, ChainGrows, Zenon
  <2>11. N \in Nat
    BY <1>2, Zenon DEF LineageInv, ChainOf
  <2> HIDE DEF t
  <2>12. RequestsInv(retries, t, N + 1, lineage \cup {l})
    BY <1>1, <2>11, RequestKept, Zenon DEF RequestsInv, t
  <2>13. RequestsInv(retries', t, N + 1, lineage \cup {l})
    <3>1. AnswerInv(m.retry, r, lineage \cup {l})
      BY <2>2, <2>5, Zenon DEF AnswerInv
    <3> QED
      BY <1>4, <1>9, <2>12, <3>1, AnswerMoves, Zenon DEF r
  <2>14. family' = [family EXCEPT ![l.retry] = row] /\ lineage' = lineage \cup {l}
    BY <1>9, <2>5, Zenon DEF l, row
  <2>15. LineageInv(t, N + 1, family', lineage') /\ RequestsInv(retries', t, N + 1, lineage')
    BY <2>10, <2>13, <2>14, Zenon
  <2> QED
    BY <1>2, <1>3, <2>15, Zenon DEF RetryInv
<1> QED
  BY <1>5, <1>7, <1>8, <1>9, Zenon

\* Jobs that run and end.
LEMMA JobMoves ==
    ASSUME NEW s, NEW N, RetryAt(s, N), NEW id \in JobIDs,
           ClaimJob(id) \/ \E status \in {"failed", "succeeded", "cancelled"} : FinishJob(id, status)
    PROVE  RetryInv'
<1>1. /\ rule \in DOMAIN Policies
      /\ LineageInv(s, N, family, lineage) /\ RequestsInv(retries, s, N, lineage)
  BY Zenon DEF RetryAt
<1>2. PICK row : /\ family[id] # Absent /\ family[id].status # "failed"
                 /\ row # Absent /\ DOMAIN row = JobFields /\ row.key = family[id].key
                 /\ family' = [family EXCEPT ![id] = row]
                 /\ UNCHANGED <<lineage, rule, retries>>
  <2>1. family[id] # Absent => DOMAIN family[id] = JobFields
    BY <1>1, Zenon DEF LineageInv
  <2>2. CASE ClaimJob(id)
    <3> DEFINE j == family[id]
               row == RunningJob(j, time)
    <3>1. /\ j # Absent /\ j.status = "queued" /\ family' = [family EXCEPT ![id] = row]
          /\ UNCHANGED <<lineage, rule, retries>>
      BY <2>2, Zenon DEF ClaimJob, Exists
    <3>2. DOMAIN j = JobFields /\ j.status # "failed"
      BY <2>1, <3>1
    <3> HIDE DEF j
    <3>3. DOMAIN row = JobFields /\ row.key = j.key /\ row.status = "running"
      BY <3>2 DEF JobFields, RunningJob
    <3> HIDE DEF row
    <3>4. row # Absent
      BY <3>3 DEF Absent
    <3> QED
      BY <3>1, <3>2, <3>3, <3>4, Zenon DEF j
  <2>3. ASSUME NEW status \in {"failed", "succeeded", "cancelled"}, FinishJob(id, status)
        PROVE  \E row : /\ family[id] # Absent /\ family[id].status # "failed"
                        /\ row # Absent /\ DOMAIN row = JobFields /\ row.key = family[id].key
                        /\ family' = [family EXCEPT ![id] = row]
                        /\ UNCHANGED <<lineage, rule, retries>>
    <3> DEFINE j == family[id]
               row == EndedJob(j, status, time)
    <3>1. /\ j # Absent /\ j.status = IF status = "cancelled" THEN "queued" ELSE "running"
          /\ family' = [family EXCEPT ![id] = row]
          /\ UNCHANGED <<lineage, rule, retries>>
      BY <2>3, Zenon DEF FinishJob, Exists
    <3>2. DOMAIN j = JobFields /\ j.status # "failed"
      BY <2>1, <3>1
    <3> HIDE DEF j
    <3>3. DOMAIN row = JobFields /\ row.key = j.key /\ row.status = status
      BY <3>2 DEF JobFields, EndedJob
    <3> HIDE DEF row
    <3>4. row # Absent
      BY <3>3 DEF Absent
    <3> QED
      BY <3>1, <3>2, <3>3, <3>4, Zenon DEF j
  <2> QED
    BY <2>2, <2>3, Zenon
<1>3. LineageInv(s, N, [family EXCEPT ![id] = row], lineage)
  BY <1>1, <1>2, FamilyMovesOn, Zenon
<1> QED
  BY <1>1, <1>2, <1>3, Zenon DEF RetryInv

\* The invariant of manual retries.
LEMMA RetryInvariant ==
    RetrySpec => []RetryInv
<1>1. RetryInit => RetryInv
  <2> SUFFICES ASSUME RetryInit PROVE RetryInv
    OBVIOUS
  <2> DEFINE root == [QueuedJob(RootKey, 1) EXCEPT !.status = "failed", !.version = 3,
                                                   !.attempt = Attempts]
             s == [i \in 1..0 |-> Root]
  <2>1. /\ family = [id \in JobIDs |-> IF id = Root THEN root ELSE Absent]
        /\ lineage = {} /\ rule = 1 /\ retries = [o \in Operators |-> NoRequest]
    BY Zenon DEF RetryInit
  <2>2. root.status = "failed" /\ DOMAIN root = JobFields
    BY DEF QueuedJob, JobFields
  <2> HIDE DEF root
  <2>3. root # Absent
    BY <2>2 DEF Absent
  <2>4. \A i : i \notin 1..0
    OBVIOUS
  <2>5. ChainOf(s, 0, {})
    <3>1. s \in [1..0 -> {}] /\ 0 \in Nat
      BY <2>4
    <3> QED
      BY <2>4, <3>1, Zenon DEF ChainOf
  <2> HIDE DEF s
  <2>6. LineageInv(s, 0, family, {})
    <3>1. DOMAIN family = JobIDs /\ family[Root] = root
      BY <2>1, RetryAssumption, Zenon
    <3>2. \A id \in JobIDs : family[id] # Absent => id = Root
      BY <2>1, Zenon
    <3> QED
      BY <2>2, <2>3, <2>4, <2>5, <3>1, <3>2, Zenon DEF LineageInv
  <2>7. RequestsInv(retries, s, 0, {})
    <3>1. RequestInv(NoRequest, s, 0, {})
      <4>1. NoRequest.phase = "idle"
        BY DEF NoRequest
      <4> QED
        BY <4>1 DEF RequestInv
    <3> QED
      BY <2>1, <3>1, Zenon DEF RequestsInv
  <2>8. rule \in DOMAIN Policies
    BY <2>1, RetryAssumption, Zenon
  <2> QED
    BY <2>1, <2>6, <2>7, <2>8, Zenon DEF RetryInv
<1>2. RetryInv /\ [RetryNext]_retryVars => RetryInv'
  <2> SUFFICES ASSUME RetryInv, [RetryNext]_retryVars PROVE RetryInv'
    OBVIOUS
  <2>1. PICK s, N : RetryAt(s, N)
    BY Zenon DEF RetryInv, RetryAt
  <2>2. ASSUME RequestsInv(retries', s, N, lineage), UNCHANGED <<family, lineage, rule>>
        PROVE  RetryInv'
    BY <2>1, <2>2, Zenon DEF RetryAt, RetryInv
  <2>3. ASSUME rule' \in DOMAIN Policies, UNCHANGED <<family, lineage, retries>>
        PROVE  RetryInv'
    BY <2>1, <2>3, Zenon DEF RetryAt, RetryInv
  <2>4. ASSUME NEW o \in Operators, NEW id \in JobIDs, Review(o, id) PROVE RetryInv'
    <3>1. UNCHANGED <<family, lineage, rule>>
      BY <2>4, Zenon DEF Review
    <3> QED
      BY <2>1, <2>2, <2>4, <3>1, ReviewMoves, Zenon
  <2>5. ASSUME NEW o \in Operators, NEW other \in Operators, Share(o, other) PROVE RetryInv'
    <3>1. UNCHANGED <<family, lineage, rule>>
      BY <2>5, Zenon DEF Share
    <3> QED
      BY <2>1, <2>2, <2>5, <3>1, ShareMoves, Zenon
  <2>6. ASSUME NEW o \in Operators,
               Resubmit(o) \/ \E c \in Children : Submit(o, c[1], c[2])
        PROVE  RetryInv'
    <3>1. UNCHANGED <<family, lineage, rule>>
      BY <2>6, Zenon DEF Resubmit, Submit
    <3>2. RequestsInv(retries', s, N, lineage)
      BY <2>1, <2>6, SendMoves
    <3> QED
      BY <2>2, <3>1, <3>2, Zenon
  <2>7. ASSUME NEW o \in Operators, Lookup(o) PROVE RetryInv'
    <3>1. UNCHANGED <<family, lineage, rule>>
      BY <2>7, Zenon DEF Lookup
    <3> QED
      BY <2>1, <2>2, <2>7, <3>1, LookupMoves, Zenon
  <2>8. ASSUME NEW o \in Operators, ReadSource(o) \/ ReadRevision(o) \/ ReadPolicy(o)
        PROVE  RetryInv'
    <3>1. UNCHANGED <<family, lineage, rule>>
      BY <2>8, Zenon DEF ReadSource, ReadRevision, ReadPolicy
    <3>2. RequestsInv(retries', s, N, lineage)
      BY <2>1, <2>8, ReadMoves
    <3> QED
      BY <2>2, <3>1, <3>2, Zenon
  <2>9. ASSUME NEW o \in Operators, Revalidate(o) PROVE RetryInv'
    <3>1. UNCHANGED <<family, lineage, rule>>
      BY <2>9, Zenon DEF Revalidate
    <3> QED
      BY <2>1, <2>2, <2>9, <3>1, RevalidateMoves, Zenon
  <2>10. ASSUME NEW o \in Operators, CreateManualRetry(o) PROVE RetryInv'
    BY <2>1, <2>10, CreateMoves, Zenon
  <2>11. ASSUME NEW id \in JobIDs,
                ClaimJob(id) \/ \E status \in {"failed", "succeeded", "cancelled"} :
                                   FinishJob(id, status)
         PROVE  RetryInv'
    BY <2>1, <2>11, JobMoves
  <2>12. CASE ChangePolicy
    BY <2>3, <2>12, Zenon DEF ChangePolicy
  <2>13. CASE Revise \/ TimePasses \/ UNCHANGED retryVars
    <3>1. UNCHANGED <<family, lineage, retries, rule>>
      BY <2>13, Zenon DEF Revise, TimePasses, retryVars
    <3>2. rule \in DOMAIN Policies
      BY Zenon DEF RetryInv
    <3> QED
      BY <2>3, <3>1, <3>2, Zenon
  <2> QED
    BY <2>4, <2>5, <2>6, <2>7, <2>8, <2>9, <2>10, <2>11, <2>12, <2>13, Zenon DEF RetryNext
<1> QED
  BY <1>1, <1>2, PTL DEF RetrySpec

\* A retry by hand is of what its operator reviewed, whatever moved on while the
\* request was on its way, and the retries of a Job are one chain within the budget
\* (CreateManualRetryWithRevalidation, CreateManualRetry): for any number of
\* operators, Jobs, policies and revisions.
THEOREM RetrySafety ==
    RetrySpec => []RetryIsWhatWasReviewed
<1>1. RetryInv => RetryIsWhatWasReviewed
  <2> SUFFICES ASSUME RetryInv, NEW l \in lineage
               PROVE  LET chain == Walk(l.root)
                      IN  /\ l.revision = l.reviewed.revision /\ l.policy = l.reviewed.policy
                          /\ l.approval = l.reviewed.approval
                          /\ \E i \in 1 .. Len(chain) :
                               /\ chain[i] = l /\ l.reviewed.history = SubSeq(chain, 1, i - 1)
                               /\ i <= Policies[l.policy].max
    BY Zenon DEF RetryIsWhatWasReviewed
  <2>1. PICK s, N : LineageInv(s, N, family, lineage)
    BY Zenon DEF RetryInv
  <2>2. ChainOf(s, N, lineage) /\ N \in Nat /\ s \in [1..N -> lineage]
    BY <2>1, Zenon DEF LineageInv, ChainOf
  <2>3. Walk(Root) = s /\ Len(s) = N
    BY <2>2, WalkIsChain
  <2>4. PICK i \in 1..N : s[i] = l
    BY <2>2, Zenon DEF ChainOf
  <2>5. l.root = Root
    BY <2>2, <2>4, Zenon DEF ChainOf
  <2>6. l.reviewed.history = Prefix(s, i - 1) /\ i <= Policies[l.policy].max
    BY <2>1, <2>4, Zenon DEF LineageInv
  <2>7. Prefix(s, i - 1) = SubSeq(s, 1, i - 1)
    <3>1. s \in Seq(lineage)
      BY <2>2
    <3> QED
      BY <2>2, <2>3, <3>1 DEF Prefix
  <2>8. /\ l.revision = l.reviewed.revision /\ l.policy = l.reviewed.policy
        /\ l.approval = l.reviewed.approval
    BY <2>1, Zenon DEF LineageInv, EntryInv
  <2> QED
    BY <2>3, <2>4, <2>5, <2>6, <2>7, <2>8, Zenon
<1> QED
  BY <1>1, RetryInvariant, PTL

\* A request for a retry gets one answer, from the memory repository the one it
\* gets from PostgreSQL unless the identifier and the key of the child are both
\* taken, and true of the Job it names, however often and by whomever it is sent.
THEOREM AnswerSafety ==
    RetrySpec => []AnswersAgree
<1> DEFINE Agreed(m) == MemoryOutcome(m) = PostgresOutcome(m) \/ BothTaken(m)
<1>1. RetryInv => AnswersAgree
  <2> SUFFICES ASSUME RetryInv, NEW o \in Operators
               PROVE  /\ retries[o].phase = "create" => Agreed(retries[o].mutation)
                      /\ retries[o].phase = "answered"
                           /\ retries[o].outcome \in {"created", "replayed"} =>
                           AnswerInv(retries[o].job, retries[o], lineage)
    BY Zenon DEF AnswersAgree, AnswerInv
  <2>1. PICK s, N : LineageInv(s, N, family, lineage) /\ RequestsInv(retries, s, N, lineage)
    BY Zenon DEF RetryInv
  <2>2. RequestInv(retries[o], s, N, lineage)
    BY <2>1, Zenon DEF RequestsInv
  <2>3. ASSUME retries[o].phase = "create"
        PROVE  Agreed(retries[o].mutation)
    <3>1. MutationInv(retries[o].mutation, retries[o])
      BY <2>2, <2>3, Zenon DEF RequestInv
    <3> QED
      BY <2>1, <3>1, OutcomesAgree, Zenon
  <2> QED
    BY <2>2, <2>3, Zenon DEF RequestInv
<1> QED
  BY <1>1, RetryInvariant, PTL
=============================================================================
