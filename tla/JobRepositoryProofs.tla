------------------------ MODULE JobRepositoryProofs ------------------------
(***************************************************************************)
(* Proofs about JobRepository for any set of Jobs, any number of attempts, *)
(* any lease TTL, retry delays and clock lag.                              *)
(*                                                                         *)
(* Every operation changes rows one by one, so the argument is made per    *)
(* row: RowInv relates a row to the set of lease tokens handed out for it, *)
(* one lemma per operation shows that the row it writes satisfies RowInv   *)
(* again, and the invariants of JobRepository follow from RowInv.          *)
(*                                                                         *)
(* On RowInv rest also the timeline (JobTimeline), cancellation of a       *)
(* reviewed row (OperatorCancel) and the agreement of the in-memory store  *)
(* with this one (MemoryRepository).                                       *)
(***************************************************************************)
EXTENDS MemoryRepository, JobTimeline, OperatorCancel,
        NaturalsInduction, WellFoundedInduction, FiniteSetTheorems, TLAPS

InFlight == {"running", "cancel_requested"}

\* What holds of a row j and the tokens L handed out for it.  The conjuncts on
\* versions make a new token larger than every older one, which is what keeps the
\* newest claim the only one whose token the row can carry.
RowInv(j, L) ==
    /\ j \in Job
    /\ L \subseteq Nat \ {0}
    /\ \A t \in L : t <= j.version
    /\ j.status = "absent" => L = {} /\ j.version = 0
    /\ j.status \in InFlight <=> j.token # 0
    /\ j.token # 0 => j.token \in L /\ \A t \in L : t <= j.token
    /\ j.status = "succeeded" => j.output \in L /\ \A t \in L : t <= j.output
    /\ j.status = "failed" => j.attempt = MaxAttempts
    /\ j.status = "retry_wait" => /\ j.attempt \in 1..(MaxAttempts - 1)
                                  /\ j.next = j.updatedAt + Delay[j.attempt]
    /\ j.status \in {"absent", "queued"} => j.attempt = 0
    /\ j.token # 0 => j.attempt > 0 /\ j.next = 0

IInv ==
    /\ jobs \in [Keys -> Job]
    /\ leases \in [Keys -> SUBSET Nat]
    /\ clock \in Nat \ {0}
    /\ \A k \in Keys : RowInv(jobs[k], leases[k])

-----------------------------------------------------------------------------
(* The fields of a written row *)

\* A row stays a row when its fields are given values of their types.
LEMMA StampedType ==
    ASSUME NEW j \in Job, NEW status \in Statuses, NEW now \in Nat, NEW version \in Nat
    PROVE  [j EXCEPT !.status = status, !.updatedAt = now, !.version = version] \in Job
BY DEF Job

\* Setting the lease columns keeps a row a row.
LEMMA LeaseType ==
    ASSUME NEW j \in Job, NEW token \in Nat, NEW expires \in Nat
    PROVE  [j EXCEPT !.token = token, !.expires = expires] \in Job
BY DEF Job

\* So does starting an attempt under a new lease.
LEMMA StartedType ==
    ASSUME NEW j \in Job, NEW attempt \in 0..MaxAttempts, NEW token \in Nat, NEW expires \in Nat
    PROVE  [j EXCEPT !.attempt = attempt, !.next = 0, !.token = token, !.expires = expires] \in Job
BY DEF Job

\* So does storing an output and the time of the next attempt.
LEMMA OutputType ==
    ASSUME NEW j \in Job, NEW output \in Nat, NEW next \in Nat
    PROVE  [j EXCEPT !.output = output, !.next = next] \in Job
BY DEF Job

\* What a write changes, and what it leaves alone.
LEMMA WrittenFields ==
    ASSUME NEW j \in Job, NEW status \in Statuses, NEW now \in Nat
    PROVE  /\ Written(j, status, now) \in Job
           /\ Written(j, status, now).status = status
           /\ Written(j, status, now).attempt = j.attempt
           /\ Written(j, status, now).next = j.next
           /\ Written(j, status, now).token = j.token
           /\ Written(j, status, now).expires = j.expires
           /\ Written(j, status, now).output = j.output
           /\ Written(j, status, now).updatedAt = now
           /\ Written(j, status, now).version = j.version + 1
<1>1. j.version + 1 \in Nat
  BY DEF Job
<1>2. Written(j, status, now) \in Job
  BY <1>1, StampedType DEF Written
<1> QED
  BY <1>2 DEF Written, Job

\* What giving up the lease changes, and what it leaves alone.
LEMMA ReleasedFields ==
    ASSUME NEW j \in Job, NEW status \in Statuses, NEW now \in Nat
    PROVE  /\ Released(j, status, now) \in Job
           /\ Released(j, status, now).status = status
           /\ Released(j, status, now).attempt = j.attempt
           /\ Released(j, status, now).token = 0
           /\ Released(j, status, now).output = j.output
           /\ Released(j, status, now).updatedAt = now
           /\ Released(j, status, now).version = j.version + 1
<1>1. Released(j, status, now) \in Job
  BY WrittenFields, LeaseType DEF Released
<1> QED
  BY <1>1, WrittenFields DEF Released, Job

\* What Claim makes of the row it leases.
LEMMA ClaimedFields ==
    ASSUME NEW j \in Job, NEW now \in Nat, j.attempt < MaxAttempts
    PROVE  /\ Claimed(j, now) \in Job
           /\ Claimed(j, now).status = "running"
           /\ Claimed(j, now).attempt = j.attempt + 1
           /\ Claimed(j, now).next = 0
           /\ Claimed(j, now).token = j.version + 1
           /\ Claimed(j, now).updatedAt = now
           /\ Claimed(j, now).version = j.version + 1
<1> DEFINE w == Written(j, "running", now)
           attempt == j.attempt + 1
           token == j.version + 1
           expires == now + LeaseTTL
<1>1. "running" \in Statuses
  BY DEF Statuses
<1>2. /\ w \in Job
      /\ w.status = "running"
      /\ w.attempt = j.attempt
      /\ w.updatedAt = now
      /\ w.version = j.version + 1
  BY <1>1, WrittenFields
<1>3. attempt \in 0..MaxAttempts /\ token \in Nat /\ expires \in Nat
  BY JobAssumption DEF Job
<1>4. Claimed(j, now) = [w EXCEPT !.attempt = attempt, !.next = 0,
                                  !.token = token, !.expires = expires]
  BY Zenon, <1>2 DEF Claimed
<1> HIDE DEF w, attempt, token, expires
<1>5. [w EXCEPT !.attempt = attempt, !.next = 0, !.token = token, !.expires = expires] \in Job
  BY <1>2, <1>3, StartedType
<1>6. /\ Claimed(j, now).status = w.status
      /\ Claimed(j, now).attempt = attempt
      /\ Claimed(j, now).next = 0
      /\ Claimed(j, now).token = token
      /\ Claimed(j, now).updatedAt = w.updatedAt
      /\ Claimed(j, now).version = w.version
  BY <1>2, <1>4 DEF Job
<1> QED
  BY <1>2, <1>4, <1>5, <1>6 DEF attempt, token

\* What Fail makes of a row in flight.
LEMMA FailedFields ==
    ASSUME NEW j \in Job, NEW token \in Nat, NEW now \in Nat,
           j.status \in InFlight, j.attempt > 0
    PROVE  LET retry  == j.status = "running" /\ j.attempt < MaxAttempts
               failed == Failed(j, token, now)
           IN /\ failed \in Job
              /\ failed.status = IF j.status = "cancel_requested" THEN "cancelled"
                                 ELSE IF retry THEN "retry_wait" ELSE "failed"
              /\ failed.attempt = j.attempt
              /\ failed.token = 0
              /\ failed.updatedAt = now
              /\ failed.version = j.version + 1
              /\ retry => failed.next = now + Delay[j.attempt]
<1> DEFINE retry  == j.status = "running" /\ j.attempt < MaxAttempts
           status == IF j.status = "cancel_requested" THEN "cancelled"
                     ELSE IF retry THEN "retry_wait" ELSE "failed"
           next   == IF retry THEN now + Delay[j.attempt] ELSE 0
           r      == Released(j, status, now)
<1>1. status \in Statuses
  BY DEF Statuses
<1>2. next \in Nat
  BY JobAssumption DEF Job
<1>3. Failed(j, token, now) = [r EXCEPT !.output = token, !.next = next]
  BY Zenon DEF Failed
<1> HIDE DEF status, next
<1>4. /\ r \in Job
      /\ r.status = status
      /\ r.attempt = j.attempt
      /\ r.token = 0
      /\ r.updatedAt = now
      /\ r.version = j.version + 1
  BY <1>1, ReleasedFields
<1> HIDE DEF r
<1>5. Failed(j, token, now) \in Job
  <2>1. r \in Job
    BY <1>4
  <2>2. [r EXCEPT !.output = token, !.next = next] \in Job
    BY <1>2, <2>1, OutputType
  <2> QED
    BY <1>3, <2>2, Zenon
<1>6. /\ Failed(j, token, now).status = status
      /\ Failed(j, token, now).attempt = j.attempt
      /\ Failed(j, token, now).token = 0
      /\ Failed(j, token, now).updatedAt = now
      /\ Failed(j, token, now).version = j.version + 1
      /\ Failed(j, token, now).next = next
  BY <1>3, <1>4 DEF Job
<1> QED
  BY <1>5, <1>6 DEF status, next

-----------------------------------------------------------------------------
(* One row keeps its invariant *)

\* The row Create inserts.
NewRow(now) == [NoJob EXCEPT !.status = "queued", !.createdAt = now,
                             !.updatedAt = now, !.version = 1]

RenewedRow(j, now) == [Written(j, j.status, now) EXCEPT !.expires = now + LeaseTTL]

\* The row Create inserts satisfies the row invariant.
LEMMA NewRowInv ==
    ASSUME NEW now \in Nat
    PROVE  RowInv(NewRow(now), {})
<1>1. NoJob \in Job /\ NoJob.attempt = 0 /\ NoJob.token = 0
  BY JobAssumption DEF NoJob, Job, Statuses
<1>2. "queued" \in Statuses
  BY DEF Statuses
<1>3. /\ NewRow(now) \in Job
      /\ NewRow(now).status = "queued"
      /\ NewRow(now).attempt = 0
      /\ NewRow(now).token = 0
  BY <1>1, <1>2 DEF NewRow, Job
<1> QED
  BY <1>3 DEF RowInv, InFlight

\* A released row of a status that asks nothing more of it.
LEMMA ReleasedRowInv ==
    ASSUME NEW j, NEW L, RowInv(j, L), NEW now \in Nat, NEW status \in {"cancelled", "failed"},
           status = "failed" => j.attempt = MaxAttempts,
           j.status # "absent"
    PROVE  RowInv(Released(j, status, now), L)
<1>1. j \in Job /\ status \in Statuses
  BY DEF RowInv, Statuses
<1>2. j.version \in Nat /\ L \subseteq Nat \ {0} /\ \A t \in L : t <= j.version
  BY <1>1 DEF RowInv, Job
<1> DEFINE r == Released(j, status, now)
<1>3. /\ r \in Job
      /\ r.status = status
      /\ r.attempt = j.attempt
      /\ r.token = 0
      /\ r.version = j.version + 1
  BY <1>1, ReleasedFields
<1> HIDE DEF r
<1>4. RowInv(r, L)
  BY <1>2, <1>3 DEF RowInv, InFlight
<1> QED
  BY <1>4 DEF r

\* Claim's two sweeping UPDATEs keep the row invariant.
LEMMA SweptRowInv ==
    ASSUME NEW j, NEW L, RowInv(j, L), NEW now \in Nat
    PROVE  RowInv(Swept(j, now), L)
<1>1. j \in Job
  BY DEF RowInv
<1> DEFINE cancel == j.status = "cancel_requested" /\ Expired(j, now)
           exhausted == /\ j.attempt >= MaxAttempts
                        /\ \/ j.status \in {"queued", "retry_wait"}
                           \/ j.status = "running" /\ Expired(j, now)
<1>2. CASE cancel
  <2>1. Swept(j, now) = Released(j, "cancelled", now)
    BY <1>2 DEF Swept
  <2> QED
    BY <1>2, <2>1, ReleasedRowInv
<1>3. CASE ~cancel /\ exhausted
  <2>1. Swept(j, now) = Released(j, "failed", now)
    BY <1>3 DEF Swept
  <2>2. j.attempt = MaxAttempts
    BY <1>1, <1>3, JobAssumption DEF Job
  <2> QED
    BY <1>3, <2>1, <2>2, ReleasedRowInv
<1>4. CASE ~cancel /\ ~exhausted
  BY <1>4 DEF Swept
<1> QED
  BY <1>2, <1>3, <1>4

\* A claim hands out a token larger than every token before it.
LEMMA ClaimedRowInv ==
    ASSUME NEW j, NEW L, RowInv(j, L), NEW now \in Nat, Claimable(j, now)
    PROVE  RowInv(Claimed(j, now), L \cup {j.version + 1})
<1>1. j \in Job /\ j.attempt < MaxAttempts
  BY DEF RowInv, Claimable
<1>2. /\ j.version \in Nat
      /\ j.attempt \in Nat
      /\ L \subseteq Nat \ {0}
      /\ \A t \in L : t <= j.version
  BY <1>1 DEF RowInv, Job
<1> DEFINE r == Claimed(j, now)
<1>3. /\ r \in Job
      /\ r.status = "running"
      /\ r.attempt = j.attempt + 1
      /\ r.next = 0
      /\ r.token = j.version + 1
      /\ r.version = j.version + 1
  BY <1>1, ClaimedFields
<1> HIDE DEF r
<1> DEFINE M == L \cup {r.token}
<1>4. r.token \in Nat \ {0} /\ r.token = r.version /\ r.attempt > 0
  BY <1>2, <1>3
<1>5. /\ M \subseteq Nat \ {0}
      /\ r.token \in M
      /\ \A t \in M : t <= r.token /\ t <= r.version
  <2>1. \A t \in L : t <= r.token
    <3> SUFFICES ASSUME NEW t \in L PROVE t <= r.token
      OBVIOUS
    <3>1. t \in Nat /\ t <= j.version
      BY <1>2
    <3> QED
      BY <1>2, <1>3, <3>1
  <2>2. r.token <= r.token
    BY <1>4
  <2>3. M \subseteq Nat \ {0} /\ r.token \in M
    BY <1>2, <1>4, Zenon
  <2>4. \A t \in M : t <= r.token
    BY <2>1, <2>2, Zenon
  <2> QED
    BY <1>4, <2>3, <2>4, Zenon
<1> HIDE DEF M
<1>6. RowInv(r, M)
  BY <1>3, <1>4, <1>5 DEF RowInv, InFlight
<1> QED
  BY <1>3, <1>6 DEF r, M

\* A renewal keeps the token and the status.
LEMMA RenewedRowInv ==
    ASSUME NEW j, NEW L, RowInv(j, L), NEW now \in Nat, j.status \in InFlight
    PROVE  RowInv(RenewedRow(j, now), L)
<1> DEFINE w == Written(j, j.status, now)
<1>1. j \in Job /\ j.status \in Statuses
  BY DEF RowInv, Job
<1>2. /\ w \in Job
      /\ w.status = j.status
      /\ w.attempt = j.attempt
      /\ w.next = j.next
      /\ w.token = j.token
      /\ w.version = j.version + 1
  BY <1>1, WrittenFields
<1>3. now + LeaseTTL \in Nat
  BY JobAssumption
<1>4. RenewedRow(j, now) = [w EXCEPT !.expires = now + LeaseTTL]
  BY DEF RenewedRow
<1> HIDE DEF w
<1>5. /\ RenewedRow(j, now) \in Job
      /\ RenewedRow(j, now).status = j.status
      /\ RenewedRow(j, now).attempt = j.attempt
      /\ RenewedRow(j, now).next = j.next
      /\ RenewedRow(j, now).token = j.token
      /\ RenewedRow(j, now).version = j.version + 1
  BY <1>2, <1>3, <1>4 DEF Job
<1>6. j.version \in Nat /\ L \subseteq Nat \ {0} /\ \A t \in L : t <= j.version
  BY <1>1 DEF RowInv, Job
<1> QED
  BY <1>5, <1>6 DEF RowInv, InFlight

\* Only the newest token opens the row, so the output stored is the newest claim's.
LEMMA SucceededRowInv ==
    ASSUME NEW j, NEW L, RowInv(j, L), NEW now \in Nat, NEW token, Leased(j, token, now)
    PROVE  RowInv(Succeeded(j, token, now), L)
<1>1. j \in Job /\ token = j.token /\ j.token # 0 /\ "succeeded" \in Statuses
  BY DEF RowInv, Leased, Statuses
<1>2. CASE j.status = "cancel_requested"
  BY <1>2, ReleasedRowInv DEF Succeeded
<1>3. CASE j.status # "cancel_requested"
  <2> DEFINE r == Released(j, "succeeded", now)
  <2>1. /\ r \in Job
        /\ r.status = "succeeded"
        /\ r.attempt = j.attempt
        /\ r.token = 0
        /\ r.version = j.version + 1
    BY <1>1, ReleasedFields
  <2>2. Succeeded(j, token, now) = [r EXCEPT !.output = token]
    BY <1>3 DEF Succeeded
  <2>3. token \in Nat
    BY <1>1 DEF Job
  <2> HIDE DEF r
  <2>4. /\ Succeeded(j, token, now) \in Job
        /\ Succeeded(j, token, now).status = "succeeded"
        /\ Succeeded(j, token, now).token = 0
        /\ Succeeded(j, token, now).output = token
        /\ Succeeded(j, token, now).version = j.version + 1
    BY <2>1, <2>2, <2>3 DEF Job
  <2>5. j.version \in Nat /\ L \subseteq Nat \ {0} /\ \A t \in L : t <= j.version
    BY <1>1 DEF RowInv, Job
  <2> QED
    BY <1>1, <2>4, <2>5 DEF RowInv, InFlight
<1> QED
  BY <1>2, <1>3

\* Fail keeps the row invariant: the status it chooses matches the attempt.
LEMMA FailedRowInv ==
    ASSUME NEW j, NEW L, RowInv(j, L), NEW now \in Nat, NEW token, Leased(j, token, now)
    PROVE  RowInv(Failed(j, token, now), L)
<1>1. /\ j \in Job
      /\ token \in Nat
      /\ j.status \in InFlight
      /\ j.attempt > 0
      /\ j.attempt \in 0..MaxAttempts
  BY DEF RowInv, Leased, InFlight, Job
<1>2. j.version \in Nat /\ L \subseteq Nat \ {0} /\ \A t \in L : t <= j.version
  BY <1>1 DEF RowInv, Job
<1> DEFINE retry == j.status = "running" /\ j.attempt < MaxAttempts
           r == Failed(j, token, now)
<1>3. /\ r \in Job
      /\ r.status = IF j.status = "cancel_requested" THEN "cancelled"
                    ELSE IF retry THEN "retry_wait" ELSE "failed"
      /\ r.attempt = j.attempt
      /\ r.token = 0
      /\ r.updatedAt = now
      /\ r.version = j.version + 1
      /\ retry => r.next = now + Delay[j.attempt]
  BY <1>1, FailedFields
<1> HIDE DEF r
<1>4. RowInv(r, L)
  BY <1>1, <1>2, <1>3, JobAssumption DEF RowInv, InFlight
<1> QED
  BY <1>4 DEF r

\* Both cancellations keep the row invariant.
LEMMA CancelledRowInv ==
    ASSUME NEW j, NEW L, RowInv(j, L), NEW now \in Nat, j.status # "absent"
    PROVE  RowInv(Cancelled(j, now), L)
<1>1. j \in Job /\ "cancel_requested" \in Statuses
  BY DEF RowInv, Statuses
<1>2. CASE Terminal(j)
  BY <1>2 DEF Cancelled, Terminal, TerminalStatuses
<1>3. CASE j.status = "running"
  <2>1. Cancelled(j, now) = Written(j, "cancel_requested", now)
    BY <1>3 DEF Cancelled, Terminal, TerminalStatuses
  <2>2. j.version \in Nat /\ L \subseteq Nat \ {0} /\ \A t \in L : t <= j.version
    BY <1>1 DEF RowInv, Job
  <2> DEFINE r == Written(j, "cancel_requested", now)
  <2>3. /\ r \in Job
        /\ r.status = "cancel_requested"
        /\ r.attempt = j.attempt
        /\ r.next = j.next
        /\ r.token = j.token
        /\ r.version = j.version + 1
    BY <1>1, WrittenFields
  <2> HIDE DEF r
  <2>4. RowInv(r, L)
    BY <1>3, <2>2, <2>3 DEF RowInv, InFlight
  <2> QED
    BY <2>1, <2>4 DEF r
<1>4. CASE ~Terminal(j) /\ j.status # "running"
  BY <1>4, ReleasedRowInv DEF Cancelled
<1> QED
  BY <1>2, <1>3, <1>4

-----------------------------------------------------------------------------
(* The table keeps its invariant *)

\* The empty table satisfies the invariant.
LEMMA InitInv ==
    Init => IInv
<1> SUFFICES ASSUME Init PROVE IInv
  OBVIOUS
<1>1. NoJob \in Job
  BY JobAssumption DEF NoJob, Job, Statuses
<1>2. RowInv(NoJob, {})
  BY <1>1 DEF RowInv, NoJob, InFlight
<1> QED
  BY <1>1, <1>2 DEF Init, IInv

\* An operation on one row that keeps RowInv keeps the invariant.
LEMMA OneRow ==
    ASSUME IInv, NEW k \in Keys, NEW row, RowInv(row, leases[k]),
           jobs' = [jobs EXCEPT ![k] = row], UNCHANGED <<clock, leases>>
    PROVE  IInv'
<1>1. row \in Job
  BY DEF RowInv
<1>2. jobs' \in [Keys -> Job]
  BY <1>1 DEF IInv
<1>3. \A o \in Keys : RowInv(jobs'[o], leases'[o])
  BY DEF IInv
<1> QED
  BY <1>2, <1>3 DEF IInv

\* Create keeps the invariant.
LEMMA CreateInv ==
    ASSUME IInv, NEW k \in Keys, Create(k, clock)
    PROVE  IInv'
<1>1. clock \in Nat /\ leases[k] = {}
  BY DEF IInv, RowInv, Create
<1>2. jobs' = [jobs EXCEPT ![k] = NewRow(clock)] /\ UNCHANGED <<clock, leases>>
  BY DEF Create, NewRow
<1> QED
  BY <1>1, <1>2, NewRowInv, OneRow

\* RequestCancel and RequestCancelIfVersion keep the invariant.
LEMMA CancelInv ==
    ASSUME IInv, NEW k \in Keys, jobs[k].status # "absent",
           jobs' = [jobs EXCEPT ![k] = Cancelled(@, clock)], UNCHANGED <<clock, leases>>
    PROVE  IInv'
<1>1. clock \in Nat /\ RowInv(jobs[k], leases[k])
  BY DEF IInv
<1>2. RowInv(Cancelled(jobs[k], clock), leases[k])
  BY <1>1, CancelledRowInv
<1> QED
  BY <1>2, OneRow

\* RenewLease keeps the invariant.
LEMMA RenewInv ==
    ASSUME IInv, NEW k \in Keys, NEW token, NEW now \in Nat, RenewLease(k, token, now)
    PROVE  IInv'
<1>1. RowInv(jobs[k], leases[k]) /\ jobs[k].status \in InFlight
  BY DEF IInv, RenewLease, Leased, InFlight
<1>2. RowInv(RenewedRow(jobs[k], now), leases[k])
  BY <1>1, RenewedRowInv
<1>3. jobs' = [jobs EXCEPT ![k] = RenewedRow(jobs[k], now)] /\ UNCHANGED <<clock, leases>>
  BY DEF RenewLease, RenewedRow
<1> QED
  BY <1>2, <1>3, OneRow

\* Succeed keeps the invariant.
LEMMA SucceedInv ==
    ASSUME IInv, NEW k \in Keys, NEW token, NEW now \in Nat, Succeed(k, token, now)
    PROVE  IInv'
<1>1. RowInv(jobs[k], leases[k]) /\ Leased(jobs[k], token, now)
  BY DEF IInv, Succeed
<1>2. RowInv(Succeeded(jobs[k], token, now), leases[k])
  BY <1>1, SucceededRowInv
<1> QED
  BY <1>2, OneRow DEF Succeed

\* Fail keeps the invariant.
LEMMA FailInv ==
    ASSUME IInv, NEW k \in Keys, NEW token, NEW now \in Nat, Fail(k, token, now)
    PROVE  IInv'
<1>1. RowInv(jobs[k], leases[k]) /\ Leased(jobs[k], token, now)
  BY DEF IInv, Fail
<1>2. RowInv(Failed(jobs[k], token, now), leases[k])
  BY <1>1, FailedRowInv
<1> QED
  BY <1>2, OneRow DEF Fail

\* Claim sweeps every row and may claim one of them.
LEMMA ClaimInv ==
    ASSUME IInv, NEW now \in Nat, NEW locked \in SUBSET Keys, Claim(now, locked)
    PROVE  IInv'
<1> DEFINE swept == [k \in Keys |-> Swept(jobs[k], now)]
           ready == {k \in Keys \ locked : Claimable(jobs[k], now)}
<1>1. \A k \in Keys : RowInv(jobs[k], leases[k]) /\ RowInv(swept[k], leases[k])
  BY SweptRowInv DEF IInv
<1>2. \A j, L : RowInv(j, L) => j \in Job /\ L \in SUBSET Nat
  BY DEF RowInv
<1>3. clock' \in Nat \ {0}
  BY DEF IInv, Claim
<1>4. CASE jobs' = swept /\ UNCHANGED leases
  BY <1>1, <1>2, <1>3, <1>4 DEF IInv
<1>5. CASE \E k \in ready :
              /\ jobs' = [swept EXCEPT ![k] = Claimed(jobs[k], now)]
              /\ leases' = [leases EXCEPT ![k] = @ \cup {jobs[k].version + 1}]
  <2>1. PICK k \in ready :
              /\ jobs' = [swept EXCEPT ![k] = Claimed(jobs[k], now)]
              /\ leases' = [leases EXCEPT ![k] = @ \cup {jobs[k].version + 1}]
    BY <1>5
  <2>2. k \in Keys /\ RowInv(Claimed(jobs[k], now), leases[k] \cup {jobs[k].version + 1})
    BY <1>1, ClaimedRowInv
  <2>3. leases \in [Keys -> SUBSET Nat]
    BY DEF IInv
  <2> HIDE DEF ready
  <2>4. \A o \in Keys : RowInv(jobs'[o], leases'[o])
    <3> SUFFICES ASSUME NEW o \in Keys PROVE RowInv(jobs'[o], leases'[o])
      OBVIOUS
    <3>1. CASE o = k
      BY <2>1, <2>2, <2>3, <3>1
    <3>2. CASE o # k
      BY <1>1, <2>1, <2>3, <3>2
    <3> QED
      BY <3>1, <3>2
  <2>5. DOMAIN jobs' = Keys /\ jobs' = [o \in Keys |-> jobs'[o]]
    BY <2>1
  <2>6. DOMAIN leases' = Keys /\ leases' = [o \in Keys |-> leases'[o]]
    BY <2>1, <2>3
  <2> QED
    BY <1>2, <1>3, <2>4, <2>5, <2>6 DEF IInv
<1> QED
  BY <1>4, <1>5 DEF Claim

\* A worker's time is a time, and never ahead of the clock.
LEMMA NowInNat ==
    ASSUME IInv, NEW now \in Now
    PROVE  now \in Nat \ {0} /\ now <= clock
BY DEF IInv, Now

\* Every operation of the store keeps the invariant.
LEMMA NextInv ==
    IInv /\ [Next]_vars => IInv'
<1> SUFFICES ASSUME IInv, [Next]_vars PROVE IInv'
  OBVIOUS
<1>1. ASSUME NEW k \in Keys, Create(k, clock) PROVE IInv'
  BY <1>1, CreateInv
<1>2. ASSUME NEW k \in Keys, RequestCancel(k, clock) PROVE IInv'
  BY <1>2, CancelInv DEF RequestCancel
<1>3. ASSUME NEW k \in Keys, NEW v, RequestCancelIfVersion(k, v, clock) PROVE IInv'
  BY <1>3, CancelInv DEF RequestCancelIfVersion
<1>4. ASSUME NEW k \in Keys, NEW token \in leases[k], NEW now \in Now,
             \/ RenewLease(k, token, now)
             \/ Succeed(k, token, now)
             \/ Fail(k, token, now)
      PROVE  IInv'
  BY <1>4, NowInNat, RenewInv, SucceedInv, FailInv
<1>5. ASSUME NEW now \in Now, NEW locked \in SUBSET Keys, Claim(now, locked) PROVE IInv'
  BY <1>5, NowInNat, ClaimInv
<1>6. CASE Tick
  BY <1>6 DEF Tick, IInv
<1>7. CASE UNCHANGED vars
  BY <1>7 DEF vars, IInv
<1> QED
  BY <1>1, <1>2, <1>3, <1>4, <1>5, <1>6, <1>7 DEF Next

\* The row invariant holds of every row in every reachable state of the store.
THEOREM InductiveInvariant ==
    Spec => []IInv
BY InitInv, NextInv, PTL DEF Spec

\* Rows, tokens and the clock keep their types under every operation.
THEOREM TypeCorrect ==
    Spec => []TypeOK
<1>1. IInv => TypeOK
  BY DEF IInv, TypeOK
<1> QED
  BY <1>1, InductiveInvariant, PTL

\* A Job is leased exactly while it is in flight, by its newest claim.
THEOREM LeaseSafety ==
    Spec => []LeaseHeldIffInFlight
<1>1. IInv => LeaseHeldIffInFlight
  BY DEF IInv, RowInv, InFlight, LeaseHeldIffInFlight
<1> QED
  BY <1>1, InductiveInvariant, PTL

\* A Job fails only after its last attempt and waits only while attempts remain.
THEOREM AttemptSafety ==
    Spec => []AttemptsMatchStatus
<1>1. IInv => AttemptsMatchStatus
  BY DEF IInv, RowInv, AttemptsMatchStatus
<1> QED
  BY <1>1, InductiveInvariant, PTL

\* The output of a succeeded Job is that of its newest claim.
THEOREM OutputSafety ==
    Spec => []OutputFromNewestClaim
<1>1. IInv => OutputFromNewestClaim
  BY DEF IInv, RowInv, OutputFromNewestClaim
<1> QED
  BY <1>1, InductiveInvariant, PTL

\* Lease, attempts and output of every row are right, together.
THEOREM RowSafety ==
    Spec => []RowsAreSound
<1>1. LeaseHeldIffInFlight /\ AttemptsMatchStatus /\ OutputFromNewestClaim => RowsAreSound
  BY DEF RowsAreSound
<1> QED
  BY <1>1, LeaseSafety, AttemptSafety, OutputSafety, PTL

-----------------------------------------------------------------------------
(* What one step may do to a row *)

LifeOf(j) == [status |-> j.status, attempt |-> j.attempt]

\* The row j becomes r, at the time clock.
RowStep(j, r) ==
    /\ r # j => r.version = j.version + 1 /\ r.updatedAt # 0
    /\ LifeOf(r) = LifeOf(j) \/ Lifecycle!LifeStep(LifeOf(j), LifeOf(r))
    /\ r.attempt > j.attempt /\ j.token # 0 => j.expires <= clock
    /\ j.status = "retry_wait" /\ r.status = "running"
          => clock >= j.updatedAt + Delay[j.attempt]

\* A row that is not written makes no step.
LEMMA SameRowStep ==
    ASSUME NEW j \in Job
    PROVE  RowStep(j, j)
<1>1. ~(j.attempt > j.attempt)
  BY DEF Job
<1> QED
  BY <1>1 DEF RowStep

\* Cancelling or failing a Job, or ending one, never starts an attempt.
LEMMA EndedRowStep ==
    ASSUME NEW j \in Job, NEW r \in Job, r.version = j.version + 1, r.attempt = j.attempt,
           r.updatedAt # 0, r.status # "running",
           \/ r.status = j.status
           \/ Lifecycle!Cancelling(LifeOf(j), LifeOf(r))
           \/ Lifecycle!Completed(LifeOf(j), LifeOf(r))
    PROVE  RowStep(j, r)
<1>1. ~(r.attempt > j.attempt)
  BY DEF Job
<1>2. LifeOf(r) = LifeOf(j) \/ Lifecycle!LifeStep(LifeOf(j), LifeOf(r))
  BY DEF Lifecycle!LifeStep, LifeOf
<1> QED
  BY <1>1, <1>2 DEF RowStep

\* Create makes the first step of a row.
LEMMA NewRowStep ==
    ASSUME NEW j, NEW L, RowInv(j, L), j.status = "absent", NEW now \in Nat \ {0}
    PROVE  RowStep(j, NewRow(now))
<1>1. /\ NewRow(now).status = "queued"
      /\ NewRow(now).attempt = 0
      /\ NewRow(now).updatedAt = now
      /\ NewRow(now).version = 1
  BY DEF NewRow, NoJob
<1>2. j.attempt = 0 /\ j.version = 0 /\ j.token = 0
  BY DEF RowInv, InFlight
<1>3. Lifecycle!LifeStep(LifeOf(j), LifeOf(NewRow(now)))
  BY <1>1 DEF Lifecycle!LifeStep, LifeOf
<1> QED
  BY <1>1, <1>2, <1>3 DEF RowStep

\* Claim's sweep only ends Jobs.
LEMMA SweptRowStep ==
    ASSUME NEW j, NEW L, RowInv(j, L), NEW now \in Nat \ {0}
    PROVE  RowStep(j, Swept(j, now))
<1>1. j \in Job /\ "cancelled" \in Statuses /\ "failed" \in Statuses
  BY DEF RowInv, Statuses
<1> DEFINE cancel == j.status = "cancel_requested" /\ Expired(j, now)
           exhausted == /\ j.attempt >= MaxAttempts
                        /\ \/ j.status \in {"queued", "retry_wait"}
                           \/ j.status = "running" /\ Expired(j, now)
<1>2. CASE cancel
  <2> DEFINE r == Released(j, "cancelled", now)
  <2>1. Swept(j, now) = r
    BY <1>2 DEF Swept
  <2>2. /\ r \in Job /\ r.version = j.version + 1 /\ r.updatedAt = now
        /\ r.attempt = j.attempt /\ r.status = "cancelled"
    BY <1>1, ReleasedFields
  <2> HIDE DEF r
  <2>3. Lifecycle!Cancelling(LifeOf(j), LifeOf(r))
    BY <1>2, <2>2 DEF Lifecycle!Cancelling, LifeOf
  <2> QED
    BY <1>1, <2>1, <2>2, <2>3, EndedRowStep
<1>3. CASE ~cancel /\ exhausted
  <2> DEFINE r == Released(j, "failed", now)
  <2>1. Swept(j, now) = r
    BY <1>3 DEF Swept
  <2>2. /\ r \in Job /\ r.version = j.version + 1 /\ r.updatedAt = now
        /\ r.attempt = j.attempt /\ r.status = "failed"
    BY <1>1, ReleasedFields
  <2>3. j.status = "running" /\ j.attempt = MaxAttempts
    BY <1>1, <1>3, JobAssumption DEF RowInv, Job
  <2> HIDE DEF r
  <2>4. Lifecycle!Completed(LifeOf(j), LifeOf(r))
    BY <2>2, <2>3 DEF Lifecycle!Completed, LifeOf
  <2> QED
    BY <1>1, <2>1, <2>2, <2>4, EndedRowStep
<1>4. CASE ~cancel /\ ~exhausted
  BY <1>1, <1>4, SameRowStep DEF Swept
<1> QED
  BY <1>2, <1>3, <1>4

\* A claimed row was waiting, its delay over, or its lease had expired.
LEMMA ClaimedRowStep ==
    ASSUME NEW j, NEW L, RowInv(j, L), clock \in Nat, NEW now \in Nat \ {0}, now <= clock,
           Claimable(j, now)
    PROVE  RowStep(j, Claimed(j, now))
<1>1. j \in Job /\ j.attempt < MaxAttempts
  BY DEF RowInv, Claimable
<1> DEFINE r == Claimed(j, now)
<1>2. /\ r.version = j.version + 1 /\ r.updatedAt = now
      /\ r.attempt = j.attempt + 1 /\ r.status = "running"
  BY <1>1, ClaimedFields
<1> HIDE DEF r
<1>3. Lifecycle!Started(LifeOf(j), LifeOf(r))
  BY <1>2 DEF Lifecycle!Started, LifeOf, Claimable
<1>4. j.token # 0 => j.expires <= clock
  <2>1. j.token # 0 => j.status = "running"
    BY DEF RowInv, InFlight, Claimable
  <2>2. j.status = "running" => j.expires <= now
    BY DEF Claimable, Expired
  <2> QED
    BY <1>1, <2>1, <2>2 DEF Job
<1>5. j.status = "retry_wait" => clock >= j.updatedAt + Delay[j.attempt]
  <2>1. j.status = "retry_wait" => j.next <= now /\ j.next = j.updatedAt + Delay[j.attempt]
    BY DEF Claimable, RowInv
  <2> QED
    BY <1>1, <2>1 DEF Job
<1>6. RowStep(j, r)
  BY <1>2, <1>3, <1>4, <1>5 DEF RowStep, Lifecycle!LifeStep
<1> QED
  BY <1>6 DEF r

\* A renewal changes neither status nor attempt.
LEMMA RenewedRowStep ==
    ASSUME NEW j \in Job, NEW now \in Nat \ {0}
    PROVE  RowStep(j, RenewedRow(j, now))
<1> DEFINE r == RenewedRow(j, now)
           w == Written(j, j.status, now)
<1>1. j.status \in Statuses
  BY DEF Job
<1>2. /\ w \in Job
      /\ w.status = j.status
      /\ w.attempt = j.attempt
      /\ w.updatedAt = now
      /\ w.version = j.version + 1
  BY <1>1, WrittenFields
<1>3. r = [w EXCEPT !.expires = now + LeaseTTL]
  BY DEF RenewedRow
<1> HIDE DEF w, r
<1>4. /\ r.status = j.status /\ r.attempt = j.attempt
      /\ r.updatedAt = now /\ r.version = j.version + 1
  BY <1>2, <1>3 DEF Job
<1>5. ~(r.attempt > j.attempt) /\ ~(j.status = "retry_wait" /\ r.status = "running")
  BY <1>4 DEF Job
<1>6. RowStep(j, r)
  BY <1>4, <1>5 DEF RowStep, LifeOf
<1> QED
  BY <1>6 DEF r

\* Succeed ends the Job along its life cycle.
LEMMA SucceededRowStep ==
    ASSUME NEW j, NEW L, RowInv(j, L), NEW now \in Nat \ {0}, NEW token, Leased(j, token, now)
    PROVE  RowStep(j, Succeeded(j, token, now))
<1>1. j \in Job /\ token \in Nat /\ "cancelled" \in Statuses /\ "succeeded" \in Statuses
  BY DEF RowInv, Leased, Job, Statuses
<1>2. CASE j.status = "cancel_requested"
  <2> DEFINE r == Released(j, "cancelled", now)
  <2>1. Succeeded(j, token, now) = r
    BY <1>2 DEF Succeeded
  <2>2. /\ r \in Job /\ r.version = j.version + 1 /\ r.updatedAt = now
        /\ r.attempt = j.attempt /\ r.status = "cancelled"
    BY <1>1, ReleasedFields
  <2> HIDE DEF r
  <2>3. Lifecycle!Cancelling(LifeOf(j), LifeOf(r))
    BY <1>2, <2>2 DEF Lifecycle!Cancelling, LifeOf
  <2> QED
    BY <1>1, <2>1, <2>2, <2>3, EndedRowStep
<1>3. CASE j.status = "running"
  <2> DEFINE w == Released(j, "succeeded", now)
             r == Succeeded(j, token, now)
  <2>1. /\ w \in Job /\ w.version = j.version + 1 /\ w.updatedAt = now
        /\ w.attempt = j.attempt /\ w.status = "succeeded"
    BY <1>1, ReleasedFields
  <2>2. r = [w EXCEPT !.output = token]
    BY <1>3 DEF Succeeded
  <2> HIDE DEF w, r
  <2>3. /\ r \in Job /\ r.version = j.version + 1 /\ r.updatedAt = now
        /\ r.attempt = j.attempt /\ r.status = "succeeded"
    BY <1>1, <2>1, <2>2 DEF Job
  <2>4. Lifecycle!Completed(LifeOf(j), LifeOf(r))
    BY <1>3, <2>3 DEF Lifecycle!Completed, LifeOf
  <2>5. RowStep(j, r)
    BY <1>1, <2>3, <2>4, EndedRowStep
  <2> QED
    BY <2>5 DEF r
<1> QED
  BY <1>2, <1>3 DEF Leased

\* Fail ends the attempt along the life cycle.
LEMMA FailedRowStep ==
    ASSUME NEW j, NEW L, RowInv(j, L), NEW now \in Nat \ {0}, NEW token, Leased(j, token, now)
    PROVE  RowStep(j, Failed(j, token, now))
<1>1. /\ j \in Job
      /\ token \in Nat
      /\ j.status \in InFlight
      /\ j.attempt > 0
      /\ j.attempt \in 0..MaxAttempts
  BY DEF RowInv, Leased, InFlight, Job
<1> DEFINE retry == j.status = "running" /\ j.attempt < MaxAttempts
           r == Failed(j, token, now)
<1>2. /\ r \in Job
      /\ r.status = IF j.status = "cancel_requested" THEN "cancelled"
                    ELSE IF retry THEN "retry_wait" ELSE "failed"
      /\ r.attempt = j.attempt
      /\ r.updatedAt = now
      /\ r.version = j.version + 1
  BY <1>1, FailedFields
<1> HIDE DEF r
<1>3. \/ Lifecycle!Cancelling(LifeOf(j), LifeOf(r))
      \/ Lifecycle!Completed(LifeOf(j), LifeOf(r))
  BY <1>1, <1>2, JobAssumption DEF Lifecycle!Cancelling, Lifecycle!Completed, LifeOf, InFlight
<1>4. RowStep(j, r)
  BY <1>1, <1>2, <1>3, EndedRowStep
<1> QED
  BY <1>4 DEF r

\* A cancellation follows the life cycle.
LEMMA CancelledRowStep ==
    ASSUME NEW j, NEW L, RowInv(j, L), NEW now \in Nat \ {0}, j.status # "absent"
    PROVE  RowStep(j, Cancelled(j, now))
<1>1. j \in Job /\ "cancel_requested" \in Statuses /\ "cancelled" \in Statuses
  BY DEF RowInv, Statuses
<1>2. CASE Terminal(j)
  BY <1>1, <1>2, SameRowStep DEF Cancelled, Terminal, TerminalStatuses
<1>3. CASE ~Terminal(j)
  <2> DEFINE r == IF j.status = "running" THEN Written(j, "cancel_requested", now)
                  ELSE Released(j, "cancelled", now)
  <2>1. Cancelled(j, now) = r
    BY <1>3 DEF Cancelled
  <2>2. /\ r \in Job
        /\ r.version = j.version + 1
        /\ r.updatedAt = now
        /\ r.attempt = j.attempt
        /\ r.status = IF j.status = "running" THEN "cancel_requested" ELSE "cancelled"
    <3>1. CASE j.status = "running"
      BY <1>1, <3>1, WrittenFields
    <3>2. CASE j.status # "running"
      BY <1>1, <3>2, ReleasedFields
    <3> QED
      BY <3>1, <3>2
  <2> HIDE DEF r
  <2>3. j.status \in {"queued", "retry_wait", "running", "cancel_requested"}
    BY <1>1, <1>3 DEF Job, Statuses, Terminal, TerminalStatuses
  <2>4. Lifecycle!Cancelling(LifeOf(j), LifeOf(r))
    BY <2>2, <2>3 DEF Lifecycle!Cancelling, LifeOf
  <2> QED
    BY <1>1, <2>1, <2>2, <2>4, EndedRowStep
<1> QED
  BY <1>2, <1>3

\* An operation on one row leaves the others alone.
LEMMA OneRowStep ==
    ASSUME IInv, NEW k \in Keys, NEW row, RowStep(jobs[k], row),
           jobs' = [jobs EXCEPT ![k] = row]
    PROVE  \A o \in Keys : RowStep(jobs[o], jobs'[o])
<1>1. \A o \in Keys : RowStep(jobs[o], jobs[o])
  BY SameRowStep DEF IInv
<1> QED
  BY <1>1 DEF IInv

\* Claim moves every row along the life cycle, and the one it leases to its next attempt.
LEMMA ClaimStep ==
    ASSUME IInv, NEW now \in Nat \ {0}, now <= clock, NEW locked \in SUBSET Keys, Claim(now, locked)
    PROVE  \A o \in Keys : RowStep(jobs[o], jobs'[o])
<1> DEFINE swept == [k \in Keys |-> Swept(jobs[k], now)]
           ready == {k \in Keys \ locked : Claimable(jobs[k], now)}
<1>1. \A k \in Keys : RowInv(jobs[k], leases[k])
  BY DEF IInv
<1>2. \A k \in Keys : RowStep(jobs[k], swept[k])
  BY <1>1, SweptRowStep
<1>3. clock \in Nat
  BY DEF IInv
<1>4. CASE jobs' = swept
  BY <1>2, <1>4
<1>5. CASE \E k \in ready : jobs' = [swept EXCEPT ![k] = Claimed(jobs[k], now)]
  <2>1. PICK k \in ready : jobs' = [swept EXCEPT ![k] = Claimed(jobs[k], now)]
    BY <1>5
  <2>2. k \in Keys /\ RowStep(jobs[k], Claimed(jobs[k], now))
    BY <1>1, <1>3, ClaimedRowStep
  <2> QED
    BY <1>2, <2>1, <2>2
<1> QED
  BY <1>4, <1>5 DEF Claim

\* Every operation of the store moves every row as RowStep allows.
LEMMA NextStep ==
    IInv /\ [Next]_vars => \A k \in Keys : RowStep(jobs[k], jobs'[k])
<1> SUFFICES ASSUME IInv, [Next]_vars
             PROVE  \A k \in Keys : RowStep(jobs[k], jobs'[k])
  OBVIOUS
<1> DEFINE Steps == \A k \in Keys : RowStep(jobs[k], jobs'[k])
<1>1. clock \in Nat \ {0} /\ \A k \in Keys : RowInv(jobs[k], leases[k])
  BY DEF IInv
<1>2. ASSUME NEW k \in Keys, Create(k, clock) PROVE Steps
  <2>1. jobs' = [jobs EXCEPT ![k] = NewRow(clock)] /\ jobs[k].status = "absent"
    BY <1>2 DEF Create, NewRow
  <2> QED
    BY <1>1, <2>1, NewRowStep, OneRowStep
<1>3. ASSUME NEW k \in Keys, jobs[k].status # "absent",
             jobs' = [jobs EXCEPT ![k] = Cancelled(@, clock)]
      PROVE  Steps
  <2>1. RowStep(jobs[k], Cancelled(jobs[k], clock))
    BY <1>1, <1>3, CancelledRowStep
  <2> QED
    BY <1>3, <2>1, OneRowStep
<1>4. ASSUME NEW k \in Keys, NEW token, NEW now \in Now, RenewLease(k, token, now) PROVE Steps
  <2>1. jobs' = [jobs EXCEPT ![k] = RenewedRow(jobs[k], now)]
    BY <1>4 DEF RenewLease, RenewedRow
  <2>2. RowStep(jobs[k], RenewedRow(jobs[k], now))
    BY NowInNat, RenewedRowStep DEF IInv
  <2> QED
    BY <2>1, <2>2, OneRowStep
<1>5. ASSUME NEW k \in Keys, NEW token, NEW now \in Now, Succeed(k, token, now) PROVE Steps
  <2>1. RowStep(jobs[k], Succeeded(jobs[k], token, now))
    BY <1>1, <1>5, NowInNat, SucceededRowStep DEF Succeed
  <2> QED
    BY <1>5, <2>1, OneRowStep DEF Succeed
<1>6. ASSUME NEW k \in Keys, NEW token, NEW now \in Now, Fail(k, token, now) PROVE Steps
  <2>1. RowStep(jobs[k], Failed(jobs[k], token, now))
    BY <1>1, <1>6, NowInNat, FailedRowStep DEF Fail
  <2> QED
    BY <1>6, <2>1, OneRowStep DEF Fail
<1>7. ASSUME NEW now \in Now, NEW locked \in SUBSET Keys, Claim(now, locked) PROVE Steps
  BY <1>7, NowInNat, ClaimStep
<1>8. CASE UNCHANGED jobs
  BY <1>8, SameRowStep DEF IInv
<1> QED
  BY <1>2, <1>3, <1>4, <1>5, <1>6, <1>7, <1>8
     DEF Next, RequestCancel, RequestCancelIfVersion, Tick, vars

\* Every write of a row advances its version by exactly one.
THEOREM VersionsCountWrites ==
    Spec => VersionCountsWrites
<1>1. IInv /\ [Next]_vars =>
         [\A k \in Keys : jobs'[k] # jobs[k] => jobs'[k].version = jobs[k].version + 1]_vars
  BY NextStep DEF RowStep
<1> QED
  BY <1>1, InductiveInvariant, PTL DEF Spec, VersionCountsWrites

\* No Job is reclaimed before its lease has expired on the real clock.
THEOREM ReclaimsAreLate ==
    Spec => NoEarlyReclaim
<1>1. IInv /\ [Next]_vars =>
         [\A k \in Keys : jobs'[k].attempt > jobs[k].attempt /\ jobs[k].token # 0
                             => jobs[k].expires <= clock]_vars
  BY NextStep DEF RowStep
<1> QED
  BY <1>1, InductiveInvariant, PTL DEF Spec, NoEarlyReclaim

\* No attempt is repeated before its retry delay has passed.
THEOREM RetriesWait ==
    Spec => RetryWaitsForDelay
<1>1. IInv /\ [Next]_vars =>
         [\A k \in Keys : jobs[k].status = "retry_wait" /\ jobs'[k].status = "running"
                             => clock >= jobs[k].updatedAt + Delay[jobs[k].attempt]]_vars
  BY NextStep DEF RowStep
<1> QED
  BY <1>1, InductiveInvariant, PTL DEF Spec, RetryWaitsForDelay

\* Claims come in time and every write is a version, together.
THEOREM WriteSafety ==
    Spec => WritesAreInOrder
<1> QED
  BY ReclaimsAreLate, RetriesWait, VersionsCountWrites DEF WritesAreInOrder

\* The store implements the abstract Job life cycle.
THEOREM Refinement ==
    Spec => ImplementsLifecycle
<1> DEFINE life == [k \in Keys |-> [status |-> jobs[k].status, attempt |-> jobs[k].attempt]]
<1>1. Init => Lifecycle!Init
  BY DEF Init, NoJob, Lifecycle!Init
<1>2. IInv /\ IInv' /\ [Next]_vars => [Lifecycle!Next]_life
  <2> SUFFICES ASSUME IInv, IInv', [Next]_vars PROVE Lifecycle!Next
    OBVIOUS
  <2>1. life' \in [Keys -> Lifecycle!Life]
    BY DEF IInv, Job, Statuses, Lifecycle!Life, Lifecycle!Statuses
  <2>2. \A k \in Keys : life'[k] = life[k] \/ Lifecycle!LifeStep(life[k], life'[k])
    BY NextStep DEF RowStep, LifeOf
  <2> QED
    BY <2>1, <2>2 DEF Lifecycle!Next
<1> QED
  BY <1>1, <1>2, NextInv, InductiveInvariant, PTL DEF Spec, ImplementsLifecycle, Lifecycle!Spec

-----------------------------------------------------------------------------
(* The timeline *)

\* A step that moves a Job along its life cycle has a timeline entry, unless its
\* time lies before that of the row.
LEMMA StepIsRecorded ==
    ASSUME NEW j, NEW L, RowInv(j, L), NEW r \in Job, RowStep(j, r),
           r.status # j.status \/ r.attempt # j.attempt,
           r.updatedAt >= j.updatedAt
    PROVE  TimelineEntryFromTransition(j, r) \notin {"none", "error"}
<1>1. /\ j \in Job
      /\ j.version \in Nat /\ j.updatedAt \in Nat /\ j.attempt \in Nat
      /\ r.updatedAt \in Nat /\ r.attempt \in 0..MaxAttempts
  BY DEF RowInv, Job
<1>2. r.version = j.version + 1 /\ r.updatedAt # 0
  BY DEF RowStep
<1>3. Lifecycle!LifeStep(LifeOf(j), LifeOf(r))
  <2>1. LifeOf(r) # LifeOf(j)
    BY DEF LifeOf
  <2> QED
    BY <2>1 DEF RowStep
<1>4. CASE j.status = "absent"
  <2>1. r.status = "queued" /\ r.attempt = 0
    BY <1>3, <1>4 DEF Lifecycle!LifeStep, Lifecycle!Started, Lifecycle!Cancelling,
                      Lifecycle!Completed, LifeOf
  <2>2. j.version = 0
    BY <1>4 DEF RowInv
  <2> QED
    BY <1>1, <1>2, <1>4, <2>1, <2>2, JobAssumption DEF TimelineEntryFromTransition
<1>5. CASE j.status # "absent"
  <2>1. \/ Lifecycle!Started(LifeOf(j), LifeOf(r))
        \/ Lifecycle!Cancelling(LifeOf(j), LifeOf(r))
        \/ Lifecycle!Completed(LifeOf(j), LifeOf(r))
    BY <1>3, <1>5 DEF Lifecycle!LifeStep, LifeOf
  <2>2. r.status # "absent" /\ (r.attempt = j.attempt \/ r.attempt = j.attempt + 1)
    BY <2>1 DEF Lifecycle!Started, Lifecycle!Cancelling, Lifecycle!Completed, LifeOf
  <2>3. TimelineEntryFromTransition(j, r) = TimelineEvent(j, r)
    <3>1. ~(r.version = 0 \/ r.updatedAt = 0 \/ r.attempt > MaxAttempts)
      BY <1>1, <1>2, JobAssumption
    <3>2. ~( \/ j.version >= r.version
             \/ r.updatedAt < j.updatedAt
             \/ r.attempt < j.attempt
             \/ r.attempt > j.attempt + 1 )
      <4>1. r.attempt \in Nat
        BY <1>1, JobAssumption
      <4> QED
        BY <1>1, <1>2, <2>2, <4>1
    <3> QED
      BY <1>5, <2>2, <3>1, <3>2, Zenon DEF TimelineEntryFromTransition
  <2>4. CASE Lifecycle!Started(LifeOf(j), LifeOf(r))
    <3>1. TimelineEvent(j, r) = "attempt_started"
      BY <2>4 DEF TimelineEvent, Lifecycle!Started, LifeOf
    <3> QED
      BY <2>3, <3>1
  <2>5. CASE Lifecycle!Cancelling(LifeOf(j), LifeOf(r))
    <3>1. TimelineEvent(j, r) = r.status /\ r.status \in {"cancel_requested", "cancelled"}
      BY <2>5 DEF TimelineEvent, Lifecycle!Cancelling, LifeOf
    <3> QED
      BY <2>3, <3>1
  <2>6. CASE Lifecycle!Completed(LifeOf(j), LifeOf(r))
    <3>1. TimelineEvent(j, r) \in {"succeeded", "retry_scheduled", "failed"}
      BY <2>6 DEF TimelineEvent, Lifecycle!Completed, LifeOf
    <3> QED
      BY <2>3, <3>1
  <2> QED
    BY <2>1, <2>4, <2>5, <2>6
<1> QED
  BY <1>4, <1>5

\* Every transition of a Job that the store makes yields a timeline entry
\* (TimelineEntryFromTransition), for any Jobs, clocks and tokens.
THEOREM TimelineSafety ==
    Spec => EveryTransitionIsRecorded
<1> DEFINE Recorded(k) ==
      ( /\ jobs'[k].status # jobs[k].status \/ jobs'[k].attempt # jobs[k].attempt
        /\ jobs'[k].updatedAt >= jobs[k].updatedAt )
         => TimelineEntryFromTransition(jobs[k], jobs'[k]) \notin {"none", "error"}
<1>1. ASSUME IInv, IInv', [Next]_vars, NEW k \in Keys
      PROVE  Recorded(k)
  <2>1. RowInv(jobs[k], leases[k]) /\ jobs'[k] \in Job
    BY <1>1 DEF IInv
  <2>2. RowStep(jobs[k], jobs'[k])
    BY <1>1, NextStep
  <2> QED
    BY <2>1, <2>2, StepIsRecorded
<1>2. IInv /\ IInv' /\ [Next]_vars => [\A k \in Keys : Recorded(k)]_vars
  BY <1>1
<1> QED
  BY <1>2, InductiveInvariant, PTL DEF Spec, EveryTransitionIsRecorded

-----------------------------------------------------------------------------
(* Cancellation at a reviewed version *)

\* A version names the contents of a row: the row an operator reviewed is the
\* stored one as long as the version is.
ReviewInv ==
    /\ IInv
    /\ \A r \in requests :
          /\ r.key \in Keys /\ r.row \in Job
          /\ r.row.version <= jobs[r.key].version
          /\ r.row.version = jobs[r.key].version => r.row = jobs[r.key]

\* A cancellation that is delivered is one of the store's operations, and so is
\* everything that happens meanwhile.
LEMMA CancelStepIsStep ==
    ASSUME ReviewInv, [CancelNext]_cancelVars
    PROVE  /\ [Next]_vars
           /\ \/ requests' = requests
              \/ /\ UNCHANGED vars
                 /\ \E k \in Keys : requests' = requests \cup {[key |-> k, row |-> jobs[k]]}
<1>1. ASSUME NEW k \in Keys, ReviewAndCancel(k)
      PROVE  UNCHANGED vars /\ requests' = requests \cup {[key |-> k, row |-> jobs[k]]}
  BY <1>1 DEF ReviewAndCancel
<1>2. ASSUME NEW r \in requests, Deliver(r)
      PROVE  Next /\ requests' = requests
  <2>1. r.key \in Keys /\ RequestCancel(r.key, clock)
    BY <1>2 DEF ReviewInv, Deliver, RequestCancelIfVersion, RequestCancel
  <2> QED
    BY <1>2, <2>1 DEF Next, Deliver
<1>3. ASSUME Background
      PROVE  Next /\ requests' = requests
  <2>1. {} \in SUBSET Keys
    OBVIOUS
  <2> QED
    BY <1>3, <2>1, Zenon DEF Background, Next
<1>4. CASE UNCHANGED cancelVars
  BY <1>4 DEF cancelVars
<1> QED
  BY <1>1, <1>2, <1>3, <1>4 DEF CancelNext

\* The row an operator reviewed is the stored one or has an older version, however
\* its requests (versionBoundCancellationMiddleware) are delayed, lost or repeated.
THEOREM ReviewInvariant ==
    CancelSpec => []ReviewInv
<1>1. CancelInit => ReviewInv
  BY InitInv DEF CancelInit, ReviewInv
<1>2. ReviewInv /\ [CancelNext]_cancelVars => ReviewInv'
  <2> SUFFICES ASSUME ReviewInv, [CancelNext]_cancelVars PROVE ReviewInv'
    OBVIOUS
  <2>1. [Next]_vars
    BY CancelStepIsStep
  <2>2. IInv /\ IInv' /\ \A k \in Keys : RowStep(jobs[k], jobs'[k])
    BY <2>1, NextInv, NextStep DEF ReviewInv
  <2>3. \A k \in Keys : jobs[k] \in Job /\ jobs[k].version \in Nat
    BY DEF ReviewInv, IInv, Job
  <2>4. ASSUME NEW r \in requests
        PROVE  /\ r.key \in Keys /\ r.row \in Job
               /\ r.row.version <= jobs'[r.key].version
               /\ r.row.version = jobs'[r.key].version => r.row = jobs'[r.key]
    <3>1. /\ r.key \in Keys /\ r.row \in Job
          /\ r.row.version <= jobs[r.key].version
          /\ r.row.version = jobs[r.key].version => r.row = jobs[r.key]
      BY <2>4 DEF ReviewInv
    <3>2. r.row.version \in Nat /\ jobs[r.key].version \in Nat
      BY <2>3, <3>1 DEF Job
    <3>3. CASE jobs'[r.key] = jobs[r.key]
      BY <3>1, <3>3
    <3>4. CASE jobs'[r.key] # jobs[r.key]
      <4>1. jobs'[r.key].version = jobs[r.key].version + 1
        BY <2>2, <3>1, <3>4 DEF RowStep
      <4> QED
        BY <3>1, <3>2, <4>1
    <3> QED
      BY <3>3, <3>4
  <2>5. CASE requests' = requests
    BY <2>2, <2>4, <2>5 DEF ReviewInv
  <2>6. CASE /\ UNCHANGED vars
             /\ \E k \in Keys : requests' = requests \cup {[key |-> k, row |-> jobs[k]]}
    <3>1. PICK k \in Keys : requests' = requests \cup {[key |-> k, row |-> jobs[k]]}
      BY <2>6
    <3>2. jobs' = jobs
      BY <2>6 DEF vars
    <3>3. ASSUME NEW r \in requests'
          PROVE  /\ r.key \in Keys /\ r.row \in Job
                 /\ r.row.version <= jobs'[r.key].version
                 /\ r.row.version = jobs'[r.key].version => r.row = jobs'[r.key]
      <4>1. CASE r \in requests
        BY <2>4, <4>1
      <4>2. CASE r \notin requests
        <5>1. r.key = k /\ r.row = jobs[k]
          BY <3>1, <3>3, <4>2
        <5>2. jobs[k].version <= jobs[k].version
          BY <2>3
        <5> QED
          BY <2>3, <3>2, <5>1, <5>2
      <4> QED
        BY <4>1, <4>2
    <3> QED
      BY <2>2, <3>3 DEF ReviewInv
  <2> QED
    BY <2>5, <2>6, CancelStepIsStep
<1> QED
  BY <1>1, <1>2, PTL DEF CancelSpec

\* A cancellation acts on the row its operator reviewed or not at all, and a
\* repeated one leaves the worker its lease (RequestCancelIfVersion).
THEOREM CancelSafety ==
    CancelSpec => CancelIsBoundToReview
<1> DEFINE Bound(r) ==
      Deliver(r) /\ jobs'[r.key] # jobs[r.key] => jobs[r.key] = r.row
           Kept(r) ==
      Deliver(r) /\ r.row.status = "running"
         => /\ jobs'[r.key].token = jobs[r.key].token
            /\ jobs'[r.key].expires = jobs[r.key].expires
<1>1. ASSUME ReviewInv, NEW r \in requests, Deliver(r)
      PROVE  jobs[r.key] = r.row
  BY <1>1 DEF ReviewInv, Deliver, RequestCancelIfVersion
<1>2. ASSUME ReviewInv, NEW r \in requests, Deliver(r), r.row.status = "running"
      PROVE  /\ jobs'[r.key].token = jobs[r.key].token
             /\ jobs'[r.key].expires = jobs[r.key].expires
  <2> DEFINE j == jobs[r.key]
  <2>1. r.key \in Keys /\ j \in Job /\ clock \in Nat /\ j.status = "running"
    BY <1>1, <1>2 DEF ReviewInv, IInv
  <2>2. jobs'[r.key] = Cancelled(j, clock)
    BY <1>2, <2>1 DEF Deliver, RequestCancelIfVersion, ReviewInv, IInv
  <2>3. Cancelled(j, clock) = Written(j, "cancel_requested", clock)
    BY <2>1 DEF Cancelled, Terminal, TerminalStatuses
  <2>4. "cancel_requested" \in Statuses
    BY DEF Statuses
  <2> HIDE DEF j
  <2>5. /\ Written(j, "cancel_requested", clock).token = j.token
        /\ Written(j, "cancel_requested", clock).expires = j.expires
    BY <2>1, <2>4, WrittenFields
  <2> QED
    BY <2>2, <2>3, <2>5 DEF j
<1>3. ReviewInv => [\A r \in requests : Bound(r)]_cancelVars
  BY <1>1
<1>4. ReviewInv => [\A r \in requests : Kept(r)]_cancelVars
  BY <1>2
<1>5. CancelSpec => CancelActsOnReviewedRow
  BY <1>3, ReviewInvariant, PTL DEF CancelSpec, CancelActsOnReviewedRow
<1>6. CancelSpec => RetransmissionKeepsLease
  BY <1>4, ReviewInvariant, PTL DEF CancelSpec, RetransmissionKeepsLease
<1> QED
  BY <1>5, <1>6 DEF CancelIsBoundToReview

-----------------------------------------------------------------------------
(* The in-memory store *)

\* Both stores ask the same of whoever writes under a lease.
LEMMA SameLease ==
    ASSUME NEW j \in Job, NEW token, NEW now \in Nat
    PROVE  MemLeased(j, token, now) <=> Leased(j, token, now)
<1>1. j.expires \in Nat
  BY DEF Job
<1> QED
  BY <1>1 DEF MemLeased, Leased

\* A row given up is written and stripped of its lease in one assignment.
LEMMA ReleasedAtOnce ==
    ASSUME NEW j \in Job, NEW status \in Statuses, NEW now \in Nat
    PROVE  Released(j, status, now) =
              [j EXCEPT !.status = status, !.token = 0, !.expires = 0,
                        !.updatedAt = now, !.version = @ + 1]
BY DEF Released, Written, Job

\* Completion stores the same row in both stores.
LEMMA SameSuccess ==
    ASSUME NEW j \in Job, NEW token \in Nat, NEW now \in Nat
    PROVE  MemSucceed(j, token, now) =
              IF Leased(j, token, now) THEN Succeeded(j, token, now) ELSE NoJob
<1>1. CASE ~Leased(j, token, now)
  BY <1>1, SameLease DEF MemSucceed
<1>2. CASE Leased(j, token, now) /\ j.status = "cancel_requested"
  <2>1. MemLeased(j, token, now)
    BY <1>2, SameLease
  <2>2. MemSucceed(j, token, now) =
          [j EXCEPT !.status = "cancelled", !.output = j.output, !.token = 0, !.expires = 0,
                    !.updatedAt = now, !.version = @ + 1]
    BY <1>2, <2>1 DEF MemSucceed
  <2>3. Succeeded(j, token, now) = Released(j, "cancelled", now)
    BY <1>2 DEF Succeeded
  <2>4. "cancelled" \in Statuses
    BY DEF Statuses
  <2>5. [j EXCEPT !.status = "cancelled", !.output = j.output, !.token = 0, !.expires = 0,
                  !.updatedAt = now, !.version = @ + 1]
         = [j EXCEPT !.status = "cancelled", !.token = 0, !.expires = 0,
                     !.updatedAt = now, !.version = @ + 1]
    BY DEF Job
  <2> QED
    BY <1>2, <2>2, <2>3, <2>4, <2>5, ReleasedAtOnce
<1>3. CASE Leased(j, token, now) /\ j.status # "cancel_requested"
  <2>1. MemLeased(j, token, now)
    BY <1>3, SameLease
  <2>2. MemSucceed(j, token, now) =
          [j EXCEPT !.status = "succeeded", !.output = token, !.token = 0, !.expires = 0,
                    !.updatedAt = now, !.version = @ + 1]
    BY <1>3, <2>1 DEF MemSucceed
  <2>3. Succeeded(j, token, now) = [Released(j, "succeeded", now) EXCEPT !.output = token]
    BY <1>3 DEF Succeeded
  <2>4. "succeeded" \in Statuses
    BY DEF Statuses
  <2>5. [[j EXCEPT !.status = "succeeded", !.token = 0, !.expires = 0,
                   !.updatedAt = now, !.version = @ + 1] EXCEPT !.output = token]
         = [j EXCEPT !.status = "succeeded", !.output = token, !.token = 0, !.expires = 0,
                     !.updatedAt = now, !.version = @ + 1]
    BY DEF Job
  <2>6. Released(j, "succeeded", now) =
           [j EXCEPT !.status = "succeeded", !.token = 0, !.expires = 0,
                     !.updatedAt = now, !.version = @ + 1]
    BY <2>4, ReleasedAtOnce, Zenon
  <2> QED
    BY <1>3, <2>2, <2>3, <2>5, <2>6, Zenon
<1> QED
  BY <1>1, <1>2, <1>3

\* So does failure: a row in flight has no next attempt, so that keeping it and
\* clearing it come to the same.
LEMMA SameFailure ==
    ASSUME NEW j, NEW L, RowInv(j, L), NEW token \in Nat, NEW now \in Nat
    PROVE  MemFail(j, token, now) =
              IF Leased(j, token, now) THEN Failed(j, token, now) ELSE NoJob
<1>1. j \in Job
  BY DEF RowInv
<1>2. CASE ~Leased(j, token, now)
  BY <1>1, <1>2, SameLease DEF MemFail
<1>3. CASE Leased(j, token, now)
  <2>1. MemLeased(j, token, now) /\ j.status \in InFlight
    BY <1>1, <1>3, SameLease DEF Leased, InFlight
  <2>2. j.next = 0 /\ j.attempt \in 1..MaxAttempts
    BY <1>1, <1>3, JobAssumption DEF RowInv, Leased, Job
  <2> DEFINE retry == j.status = "running" /\ j.attempt < MaxAttempts
             status == IF j.status = "cancel_requested" THEN "cancelled"
                       ELSE IF retry THEN "retry_wait" ELSE "failed"
             next == IF retry THEN now + Delay[j.attempt] ELSE 0
             stored == [j EXCEPT !.output = token, !.token = 0, !.expires = 0,
                                 !.updatedAt = now, !.version = @ + 1]
  <2>3. status \in Statuses /\ next \in Nat
    BY <2>2, JobAssumption DEF Statuses
  <2>4. Failed(j, token, now) = [Released(j, status, now) EXCEPT !.output = token, !.next = next]
    BY DEF Failed
  <2>5. MemFail(j, token, now) = [stored EXCEPT !.status = status, !.next = next]
    <3>3. CASE j.status = "cancel_requested"
      <4>1. MemFail(j, token, now) = [stored EXCEPT !.status = "cancelled"]
        BY <2>1, <3>3 DEF MemFail
      <4>2. [stored EXCEPT !.status = "cancelled"] = [stored EXCEPT !.status = "cancelled", !.next = 0]
        BY <1>1, <2>2 DEF Job
      <4> QED
        BY <3>3, <4>1, <4>2
    <3>4. CASE j.status # "cancel_requested" /\ retry
      BY <2>1, <3>4 DEF MemFail
    <3>5. CASE j.status # "cancel_requested" /\ ~retry
      BY Zenon, <2>1, <3>5 DEF MemFail
    <3> QED
      BY <3>3, <3>4, <3>5
  <2> HIDE DEF status, next
  <2>6. Released(j, status, now) = [j EXCEPT !.status = status, !.token = 0, !.expires = 0,
                                              !.updatedAt = now, !.version = @ + 1]
    BY <1>1, <2>3, ReleasedAtOnce
  <2>7. [[j EXCEPT !.status = status, !.token = 0, !.expires = 0, !.updatedAt = now,
                   !.version = @ + 1] EXCEPT !.output = token, !.next = next]
         = [stored EXCEPT !.status = status, !.next = next]
    BY <1>1 DEF Job
  <2> QED
    BY <1>3, <2>4, <2>5, <2>6, <2>7
<1> QED
  BY <1>2, <1>3

\* And renewal.
LEMMA SameRenewal ==
    ASSUME NEW j \in Job, NEW token, NEW now \in Nat
    PROVE  MemRenewLease(j, token, now) =
              IF Leased(j, token, now) THEN RenewedRow(j, now) ELSE NoJob
<1>1. CASE ~Leased(j, token, now)
  BY <1>1, SameLease DEF MemRenewLease
<1>2. CASE Leased(j, token, now)
  <2>1. MemRenewLease(j, token, now) =
          [j EXCEPT !.expires = now + LeaseTTL, !.updatedAt = now, !.version = @ + 1]
    BY <1>2, SameLease DEF MemRenewLease
  <2>2. RenewedRow(j, now) =
          [j EXCEPT !.expires = now + LeaseTTL, !.updatedAt = now, !.version = @ + 1]
    BY Zenon DEF RenewedRow, Written, Job
  <2> QED
    BY <1>2, <2>1, <2>2
<1> QED
  BY <1>1, <1>2

\* And cancellation, with and without a version.
LEMMA SameCancellation ==
    ASSUME NEW j \in Job, j.status # "absent", NEW now \in Nat
    PROVE  MemRequestCancel(j, now) = Cancelled(j, now)
<1>1. CASE Terminal(j)
  BY <1>1 DEF MemRequestCancel, Cancelled, Terminal, TerminalStatuses
<1>2. CASE j.status = "running"
  BY <1>2 DEF MemRequestCancel, Cancelled, Terminal, TerminalStatuses, Written
<1>3. CASE ~Terminal(j) /\ j.status # "running"
  <2>1. "cancelled" \in Statuses
    BY DEF Statuses
  <2>2. Cancelled(j, now) = Released(j, "cancelled", now)
    BY <1>3 DEF Cancelled
  <2>3. MemRequestCancel(j, now) =
          [j EXCEPT !.status = "cancelled", !.token = 0, !.expires = 0,
                    !.updatedAt = now, !.version = @ + 1]
    BY <1>3 DEF MemRequestCancel
  <2> QED
    BY <2>1, <2>2, <2>3, ReleasedAtOnce
<1> QED
  BY <1>1, <1>2, <1>3

\* Row by row the stores agree wherever the row invariant holds.
LEMMA RowsMatch ==
    IInv => MemoryRowsMatchPostgres
<1> SUFFICES ASSUME IInv, NEW k \in Keys, NEW now \in Now
             PROVE  LET j == jobs[k]
                    IN /\ \A t \in leases[k] :
                             LET held(row) == IF Leased(j, t, now) THEN row ELSE NoJob
                             IN /\ MemSucceed(j, t, now) = held(Succeeded(j, t, now))
                                /\ MemFail(j, t, now) = held(Failed(j, t, now))
                                /\ MemRenewLease(j, t, now) =
                                     held([Written(j, j.status, now) EXCEPT !.expires = now + LeaseTTL])
                       /\ \A v \in 1..j.version :
                             MemRequestCancelIfVersion(j, v, now) =
                                IF j.version = v THEN Cancelled(j, now) ELSE NoJob
  BY Zenon DEF MemoryRowsMatchPostgres
<1> DEFINE j == jobs[k]
<1>1. j \in Job /\ RowInv(j, leases[k]) /\ now \in Nat
  BY NowInNat DEF IInv
<1>2. \A t \in leases[k] : t \in Nat
  BY DEF IInv
<1> HIDE DEF j
<1>3. ASSUME NEW t \in leases[k]
      PROVE  /\ MemSucceed(j, t, now) =
                   IF Leased(j, t, now) THEN Succeeded(j, t, now) ELSE NoJob
             /\ MemFail(j, t, now) = IF Leased(j, t, now) THEN Failed(j, t, now) ELSE NoJob
             /\ MemRenewLease(j, t, now) =
                   IF Leased(j, t, now)
                   THEN [Written(j, j.status, now) EXCEPT !.expires = now + LeaseTTL] ELSE NoJob
  <2>1. t \in Nat
    BY <1>2
  <2>2. MemSucceed(j, t, now) = IF Leased(j, t, now) THEN Succeeded(j, t, now) ELSE NoJob
    BY <1>1, <2>1, SameSuccess, Zenon
  <2>3. MemFail(j, t, now) = IF Leased(j, t, now) THEN Failed(j, t, now) ELSE NoJob
    BY <1>1, <2>1, SameFailure, Zenon
  <2>4. MemRenewLease(j, t, now) =
           IF Leased(j, t, now)
           THEN [Written(j, j.status, now) EXCEPT !.expires = now + LeaseTTL] ELSE NoJob
    BY <1>1, SameRenewal, Zenon DEF RenewedRow
  <2> QED
    BY <2>2, <2>3, <2>4, Zenon
<1>4. ASSUME NEW v \in 1..j.version
      PROVE  MemRequestCancelIfVersion(j, v, now) =
                IF j.version = v THEN Cancelled(j, now) ELSE NoJob
  <2>1. j.status # "absent"
    BY <1>1 DEF RowInv
  <2> QED
    BY <1>1, <2>1, SameCancellation, Zenon DEF MemRequestCancelIfVersion
<1> QED
  BY <1>3, <1>4, Zenon DEF j

\* What one visit of the pass does to a row while no Job is leased: it leases
\* the Job if it can, and else does what the sweeps would.
LEMMA VisitRow ==
    ASSUME NEW table \in [Keys -> Job], NEW k \in Keys, NEW L, RowInv(table[k], L),
           NEW now \in Nat
    PROVE  MemVisit([jobs |-> table, leased |-> {}], k, now) =
              IF Claimable(table[k], now)
              THEN [jobs |-> [table EXCEPT ![k] = Claimed(table[k], now)], leased |-> {k}]
              ELSE [jobs |-> [table EXCEPT ![k] = Swept(table[k], now)], leased |-> {}]
<1> DEFINE j == table[k]
           acc == [jobs |-> table, leased |-> {}]
           visit == MemVisit(acc, k, now)
<1>1. j \in Job /\ j.expires \in Nat /\ j.attempt \in 0..MaxAttempts
  BY DEF RowInv, Job
<1>2. acc.jobs = table /\ acc.leased = {}
  OBVIOUS
<1>3. \A row : [acc EXCEPT !.jobs[k] = row] = [jobs |-> [table EXCEPT ![k] = row], leased |-> {}]
  OBVIOUS
<1>4. CASE j.status = "cancel_requested" /\ Expired(j, now)
  <2>1. ~Claimable(j, now) /\ Swept(j, now) = Released(j, "cancelled", now)
    BY <1>4 DEF Claimable, Swept
  <2>2. ~MemEligible(j, now)
    BY <1>4 DEF MemEligible
  <2>3. visit = [acc EXCEPT !.jobs[k] = Released(j, "cancelled", now)]
    BY <1>2, <1>4, <2>2 DEF MemVisit, Expired
  <2> QED
    BY <1>3, <2>1, <2>3
<1>5. CASE j.status # "cancel_requested" /\ MemEligible(j, now) /\ j.attempt >= MaxAttempts
  <2>1. j.status = "running" /\ Expired(j, now)
    BY <1>1, <1>5, JobAssumption DEF MemEligible, RowInv, Expired
  <2>2. ~Claimable(j, now) /\ Swept(j, now) = Released(j, "failed", now)
    BY <1>1, <1>5, <2>1, JobAssumption DEF Claimable, Swept
  <2>3. visit = [acc EXCEPT !.jobs[k] = Released(j, "failed", now)]
    BY <1>1, <1>2, <1>5, JobAssumption DEF MemVisit
  <2> QED
    BY <1>3, <2>2, <2>3
<1>6. CASE j.status # "cancel_requested" /\ MemEligible(j, now) /\ j.attempt < MaxAttempts
  <2>1. Claimable(j, now)
    BY <1>6 DEF Claimable, MemEligible, Expired
  <2>2. visit = [jobs |-> [acc.jobs EXCEPT ![k] = Claimed(j, now)], leased |-> {k}]
    BY <1>1, <1>2, <1>6, JobAssumption DEF MemVisit
  <2> QED
    BY <1>2, <2>1, <2>2
<1>7. CASE ~MemEligible(j, now) /\ ~(j.status = "cancel_requested" /\ Expired(j, now))
  <2>1. ~Claimable(j, now)
    BY <1>7 DEF Claimable, MemEligible, Expired
  <2>2. Swept(j, now) = j
    BY <1>1, <1>7, JobAssumption DEF Swept, MemEligible, RowInv, Expired
  <2>3. visit = acc
    BY <1>2, <1>7 DEF MemVisit, Expired
  <2>4. [table EXCEPT ![k] = j] = table
    OBVIOUS
  <2> QED
    BY <2>1, <2>2, <2>3, <2>4
<1>8. MemEligible(j, now) => j.status # "cancel_requested"
  BY DEF MemEligible
<1>9. j.attempt < MaxAttempts \/ j.attempt >= MaxAttempts
  BY <1>1, JobAssumption
<1> QED
  BY <1>4, <1>5, <1>6, <1>7, <1>8, <1>9, Zenon

\* The table and the key leased after n visits, when the f-th Job in the order is
\* the first that can be leased (or f lies past the end).
Table(order, f, now, n) ==
    [k \in Keys |->
       IF \E i \in 1..n : i < f /\ order[i] = k THEN Swept(jobs[k], now)
       ELSE IF f <= n /\ order[f] = k THEN Claimed(jobs[k], now)
       ELSE jobs[k]]

PassAfter(order, f, now, n) ==
    [jobs |-> Table(order, f, now, n), leased |-> IF f <= n THEN {order[f]} ELSE {}]

\* An order without repetition, and the place of the first Job that can be leased.
FirstReady(order, N, f, now) ==
    /\ order \in [1..N -> Keys]
    /\ \A i, j \in 1..N : i < j => order[i] # order[j]
    /\ f \in 1..(N + 1)
    /\ f <= N => Claimable(jobs[order[f]], now)
    /\ \A i \in 1..N : i < f => ~Claimable(jobs[order[i]], now)

\* Every visit takes one such table to the next.
LEMMA PassVisits ==
    ASSUME IInv, NEW now \in Nat, NEW N \in Nat, NEW order, NEW f,
           FirstReady(order, N, f, now), NEW n \in 1..N
    PROVE  PassAfter(order, f, now, n) = MemVisit(PassAfter(order, f, now, n - 1), order[n], now)
<1> DEFINE T(m) == Table(order, f, now, m)
           k == order[n]
<1>1. k \in Keys /\ n - 1 \in Nat /\ f \in Nat /\ n \in Nat
  BY DEF FirstReady
<1>2. jobs \in [Keys -> Job] /\ RowInv(jobs[k], leases[k])
  BY <1>1 DEF IInv
<1>3. CASE f < n
  <2>1. f <= n - 1 /\ f <= n
    BY <1>1, <1>3
  <2>2. PassAfter(order, f, now, n - 1).leased # {}
    BY <2>1 DEF PassAfter
  <2>3. T(n) = T(n - 1)
    <3>1. ASSUME NEW o \in Keys
          PROVE  (\E i \in 1..n : i < f /\ order[i] = o) <=> (\E i \in 1..(n - 1) : i < f /\ order[i] = o)
      BY <1>1, <1>3
    <3> QED
      BY <2>1, <3>1, Zenon DEF Table
  <2>4. PassAfter(order, f, now, n) = PassAfter(order, f, now, n - 1)
    BY <2>1, <2>3 DEF PassAfter
  <2> QED
    BY <2>2, <2>4, Zenon DEF MemVisit
<1>4. CASE n <= f
  <2>1. ~(f <= n - 1)
    BY <1>1, <1>4
  <2>2. PassAfter(order, f, now, n - 1) = [jobs |-> T(n - 1), leased |-> {}]
    BY <2>1, Zenon DEF PassAfter
  <2>3. T(n - 1)[k] = jobs[k]
    <3>1. \A i \in 1..(n - 1) : order[i] # k
      BY <1>1 DEF FirstReady
    <3> QED
      BY <1>1, <2>1, <3>1, Zenon DEF Table
  <2>4. ASSUME NEW o \in Keys
        PROVE  T(n - 1)[o] = IF \E i \in 1..(n - 1) : i < f /\ order[i] = o
                             THEN Swept(jobs[o], now) ELSE jobs[o]
    BY <2>1, Zenon DEF Table
  <2>5. \A j, M : RowInv(j, M) => j \in Job
    BY DEF RowInv
  <2>6. T(n - 1) \in [Keys -> Job]
    <3>1. ASSUME NEW o \in Keys
          PROVE  T(n - 1)[o] \in Job
      <4>1. jobs[o] \in Job /\ RowInv(jobs[o], leases[o])
        BY DEF IInv
      <4>2. Swept(jobs[o], now) \in Job
        BY <2>5, <4>1, SweptRowInv
      <4> QED
        BY <2>4, <4>1, <4>2, Zenon
    <3>2. T(n - 1) = [o \in Keys |-> T(n - 1)[o]]
      BY Zenon DEF Table
    <3> HIDE DEF T
    <3> QED
      BY <3>1, <3>2, Zenon
  <2>7. MemVisit([jobs |-> T(n - 1), leased |-> {}], k, now) =
          IF Claimable(jobs[k], now)
          THEN [jobs |-> [T(n - 1) EXCEPT ![k] = Claimed(jobs[k], now)], leased |-> {k}]
          ELSE [jobs |-> [T(n - 1) EXCEPT ![k] = Swept(jobs[k], now)], leased |-> {}]
    <3> HIDE DEF T, k
    <3> QED
      BY Zenon, <1>1, <1>2, <2>3, <2>6, VisitRow
  <2>8. CASE n = f
    <3>1. Claimable(jobs[k], now) /\ f <= n
      BY <1>1, <2>8 DEF FirstReady
    <3>2. T(n) = [T(n - 1) EXCEPT ![k] = Claimed(jobs[k], now)]
      <4>1. ASSUME NEW o \in Keys
            PROVE  T(n)[o] = IF o = k THEN Claimed(jobs[k], now) ELSE T(n - 1)[o]
        <5>1. (\E i \in 1..n : i < f /\ order[i] = o) <=> (\E i \in 1..(n - 1) : i < f /\ order[i] = o)
          BY <1>1, <2>8
        <5>2. T(n)[o] = IF \E i \in 1..(n - 1) : i < f /\ order[i] = o THEN Swept(jobs[o], now)
                        ELSE IF k = o THEN Claimed(jobs[o], now) ELSE jobs[o]
          BY <2>8, <3>1, <5>1, Zenon DEF Table
        <5>3. \A i \in 1..(n - 1) : order[i] # k
          BY <1>1 DEF FirstReady
        <5> QED
          BY <2>4, <5>2, <5>3, Zenon
      <4>2. T(n) = [o \in Keys |-> T(n)[o]]
        BY Zenon DEF Table
      <4> HIDE DEF T, k
      <4> QED
        BY <1>1, <2>6, <4>1, <4>2
    <3>3. PassAfter(order, f, now, n) = [jobs |-> T(n), leased |-> {k}]
      BY <2>8, <3>1, Zenon DEF PassAfter
    <3> HIDE DEF T, k
    <3>4. PassAfter(order, f, now, n) = MemVisit([jobs |-> T(n - 1), leased |-> {}], k, now)
      BY <2>7, <3>1, <3>2, <3>3, Zenon
    <3> QED
      BY <2>2, <3>4, Zenon DEF k
  <2>9. CASE n < f
    <3>1. ~Claimable(jobs[k], now) /\ ~(f <= n)
      BY <1>1, <2>9 DEF FirstReady
    <3>2. T(n) = [T(n - 1) EXCEPT ![k] = Swept(jobs[k], now)]
      <4>1. ASSUME NEW o \in Keys
            PROVE  T(n)[o] = IF o = k THEN Swept(jobs[k], now) ELSE T(n - 1)[o]
        <5>1. (\E i \in 1..n : i < f /\ order[i] = o)
                 <=> (o = k \/ \E i \in 1..(n - 1) : i < f /\ order[i] = o)
          BY <1>1, <2>9
        <5>2. T(n)[o] = IF o = k \/ \E i \in 1..(n - 1) : i < f /\ order[i] = o
                        THEN Swept(jobs[o], now) ELSE jobs[o]
          BY <3>1, <5>1, Zenon DEF Table
        <5> QED
          BY <2>4, <5>2, Zenon
      <4>2. T(n) = [o \in Keys |-> T(n)[o]]
        BY Zenon DEF Table
      <4> HIDE DEF T, k
      <4> QED
        BY <1>1, <2>6, <4>1, <4>2
    <3>3. PassAfter(order, f, now, n) = [jobs |-> T(n), leased |-> {}]
      BY <3>1, Zenon DEF PassAfter
    <3> HIDE DEF T, k
    <3>4. PassAfter(order, f, now, n) = MemVisit([jobs |-> T(n - 1), leased |-> {}], k, now)
      BY <2>7, <3>1, <3>2, <3>3, Zenon
    <3> QED
      BY <2>2, <3>4, Zenon DEF k
  <2> QED
    BY <1>1, <1>4, <2>8, <2>9
<1> QED
  BY <1>1, <1>3, <1>4

\* Every nonempty set of naturals has a least element.
LEMMA LeastNumber ==
    ASSUME NEW T \in SUBSET Nat, T # {}
    PROVE  \E n \in T : \A o \in T : n <= o
<1> DEFINE Less == OpToRel(<, Nat)
<1>1. IsWellFoundedOn(Less, Nat)
  BY NatLessThanWellFounded, Zenon
<1>2. PICK n \in T : \A o \in T : <<o, n>> \notin Less
  <2> HIDE DEF Less
  <2> QED
    BY <1>1, WFMin, Zenon
<1>3. ASSUME NEW o \in T  PROVE  n <= o
  <2>1. <<o, n>> \notin {ss \in Nat \X Nat : ss[1] < ss[2]}
    BY <1>2, Zenon DEF OpToRel
  <2>2. ~(o < n)
    BY <2>1, Zenon
  <2> QED
    BY <2>2
<1> QED
  BY <1>3, Zenon

\* The whole pass, its recursion unfolded: a table as above solves its equation,
\* and no other does.
LEMMA ClaimPass ==
    ASSUME IInv, NEW now \in Nat, NEW order, NEW f, Len(order) \in Nat,
           FirstReady(order, Len(order), f, now)
    PROVE  MemClaim(order, now) = PassAfter(order, f, now, Len(order))
<1> DEFINE N == Len(order)
           start == [jobs |-> jobs, leased |-> {}]
           P(n) == PassAfter(order, f, now, n)
           Solves(g) == g = [n \in 0..N |-> IF n = 0 THEN start
                                            ELSE MemVisit(g[n - 1], order[n], now)]
           pass == CHOOSE g : Solves(g)
<1>1. P(0) = start
  <2>1. f \in Nat /\ ~(f <= 0) /\ ~\E i \in 1..0 : TRUE
    BY DEF FirstReady
  <2>2. Table(order, f, now, 0) = jobs
    <3>1. jobs = [k \in Keys |-> jobs[k]]
      BY DEF IInv
    <3> QED
      BY <2>1, <3>1, Zenon DEF Table
  <2> QED
    BY <2>1, <2>2, Zenon DEF PassAfter
<1>2. \A n \in 1..N : P(n) = MemVisit(P(n - 1), order[n], now)
  BY PassVisits
<1> DEFINE h == [n \in 0..N |-> P(n)]
<1>3. Solves(h)
  <2> HIDE DEF P, start
  <2>1. \A n \in 1..N : n \in 0..N /\ n - 1 \in 0..N
    OBVIOUS
  <2>2. \A n \in 0..N : n # 0 => n \in 1..N
    OBVIOUS
  <2>3. \A n \in 0..N : h[n] = IF n = 0 THEN start ELSE MemVisit(h[n - 1], order[n], now)
    BY <1>1, <1>2, <2>1, <2>2, Zenon
  <2> QED
    BY <2>3, Zenon
<1>4. Solves(pass)
  <2> HIDE DEF h
  <2> QED
    BY <1>3, Zenon
<1>5. MemClaim(order, now) = pass[N]
  BY Zenon DEF MemClaim
<1> HIDE DEF pass, h, P
<1>6. \A n \in 0..N : pass[n] = P(n)
  <2> DEFINE Bad == {n \in 0..N : pass[n] # P(n)}
  <2>1. SUFFICES ASSUME Bad # {} PROVE FALSE
    BY Zenon
  <2>2. PICK n \in Bad : \A o \in Bad : n <= o
    <3>1. Bad \in SUBSET Nat
      OBVIOUS
    <3> HIDE DEF Bad
    <3> QED
      BY <2>1, <3>1, LeastNumber, Zenon
  <2>3. n # 0
    <3>1. pass[0] = start
      BY <1>4
    <3> QED
      BY <1>1, <3>1, Zenon
  <2>4. n \in 1..N /\ n \in 0..N /\ n - 1 \in 0..N /\ n - 1 \notin Bad
    BY <2>2, <2>3
  <2>5. pass[n - 1] = P(n - 1)
    BY <2>4, Zenon
  <2>6. pass[n] = MemVisit(pass[n - 1], order[n], now)
    BY <1>4, <2>3, <2>4, Zenon
  <2> QED
    BY <1>2, <2>4, <2>5, <2>6, Zenon
<1>7. N \in 0..N
  OBVIOUS
<1> QED
  BY <1>5, <1>6, <1>7, Zenon DEF P

\* The memory store's Claim leases the Job that PostgreSQL's would.
LEMMA ClaimsMatch ==
    IInv => MemoryClaimMatchesPostgres
<1> SUFFICES ASSUME IInv, NEW now \in Now, NEW order \in CreationOrders
             PROVE  LET mem == MemClaim(order, now)
                        ready == {i \in DOMAIN order : Claimable(jobs[order[i]], now)}
                        first == CHOOSE i \in ready : \A o \in ready : i <= o
                    IN /\ mem.leased = IF ready = {} THEN {} ELSE {order[first]}
                       /\ \A i \in DOMAIN order :
                             mem.jobs[order[i]] =
                                CASE ready # {} /\ i = first -> Claimed(jobs[order[i]], now)
                                  [] ready # {} /\ i > first -> jobs[order[i]]
                                  [] OTHER                   -> Swept(jobs[order[i]], now)
  BY Zenon DEF MemoryClaimMatchesPostgres
<1> DEFINE ready == {i \in DOMAIN order : Claimable(jobs[order[i]], now)}
           first == CHOOSE i \in ready : \A o \in ready : i <= o
           N == Len(order)
           f == IF ready = {} THEN N + 1 ELSE first
           stored == {k \in Keys : jobs[k].status # "absent"}
<1>1. now \in Nat
  BY NowInNat
<1>2. N \in Nat /\ order \in [1..N -> Keys] /\ \A i, j \in 1..N : i < j => order[i] # order[j]
  <2>1. IsFiniteSet(stored)
    BY KeysAssumption, FS_Subset
  <2>2. Cardinality(stored) \in Nat
    BY <2>1, FS_CardinalityType
  <2>3. /\ order \in [1..Cardinality(stored) -> stored]
        /\ \A i, j \in DOMAIN order : i < j => order[i] # order[j]
    BY Zenon DEF CreationOrders
  <2>4. N = Cardinality(stored)
    <3> HIDE DEF stored
    <3>1. order \in Seq(stored)
      BY <2>2, <2>3
    <3> QED
      BY <2>2, <2>3, <3>1
  <2>5. stored \subseteq Keys
    OBVIOUS
  <2> HIDE DEF stored
  <2> QED
    BY <2>2, <2>3, <2>4, <2>5
<1> HIDE DEF N
<1>3. ready # {} => first \in ready /\ \A o \in ready : first <= o
  <2> SUFFICES ASSUME ready # {} PROVE \E i \in ready : \A o \in ready : i <= o
    BY Zenon
  <2>1. ready \in SUBSET Nat
    BY <1>2
  <2> HIDE DEF ready
  <2> QED
    BY <2>1, LeastNumber
<1> HIDE DEF first
<1>4. FirstReady(order, N, f, now)
  <2>1. CASE ready = {}
    <3>1. \A i \in 1..N : ~Claimable(jobs[order[i]], now)
      BY <1>2, <2>1
    <3>2. f \in 1..(N + 1) /\ ~(f <= N)
      BY <1>2, <2>1
    <3> QED
      BY <1>2, <3>1, <3>2, Zenon DEF FirstReady
  <2>2. CASE ready # {}
    <3>1. f \in 1..N /\ Claimable(jobs[order[f]], now)
      BY <1>2, <1>3, <2>2
    <3>2. \A i \in 1..N : i < f => ~Claimable(jobs[order[i]], now)
      BY <1>2, <1>3, <2>2
    <3>3. f \in 1..(N + 1)
      <4> HIDE DEF f
      <4> QED
        BY <1>2, <3>1
    <3> QED
      BY <1>2, <3>1, <3>2, <3>3, Zenon DEF FirstReady
  <2> QED
    BY <2>1, <2>2
<1>5. MemClaim(order, now) = PassAfter(order, f, now, N)
  BY <1>1, <1>2, <1>4, ClaimPass DEF N
<1> DEFINE mem == MemClaim(order, now)
<1>6. mem.leased = IF ready = {} THEN {} ELSE {order[first]}
  <2>1. mem.leased = IF f <= N THEN {order[f]} ELSE {}
    BY <1>5 DEF PassAfter
  <2>2. f <= N <=> ready # {}
    BY <1>2, <1>3
  <2> QED
    BY <2>1, <2>2, Zenon
<1>7. ASSUME NEW i \in DOMAIN order
      PROVE  mem.jobs[order[i]] = CASE ready # {} /\ i = first -> Claimed(jobs[order[i]], now)
                                    [] ready # {} /\ i > first -> jobs[order[i]]
                                    [] OTHER                   -> Swept(jobs[order[i]], now)
  <2>1. i \in 1..N /\ i \in Nat /\ order[i] \in Keys /\ f \in 1..(N + 1)
    <3>1. i \in 1..N /\ order[i] \in Keys
      BY <1>2
    <3>2. f \in 1..(N + 1)
      BY <1>4, Zenon DEF FirstReady
    <3> QED
      BY <3>1, <3>2
  <2>2. mem.jobs[order[i]] =
          IF \E o \in 1..N : o < f /\ order[o] = order[i] THEN Swept(jobs[order[i]], now)
          ELSE IF f <= N /\ order[f] = order[i] THEN Claimed(jobs[order[i]], now)
          ELSE jobs[order[i]]
    <3>1. mem.jobs = Table(order, f, now, N)
      BY <1>5 DEF PassAfter
    <3> QED
      BY <2>1, <3>1, Zenon DEF Table
  <2>3. \A o \in 1..N : order[o] = order[i] => o = i
    BY <1>2, <2>1
  <2>4. (\E o \in 1..N : o < f /\ order[o] = order[i]) <=> i < f
    BY <2>1, <2>3, Zenon
  <2>5. (f <= N /\ order[f] = order[i]) <=> i = f
    BY <1>2, <2>1, <2>3
  <2>6. mem.jobs[order[i]] = IF i < f THEN Swept(jobs[order[i]], now)
                             ELSE IF i = f THEN Claimed(jobs[order[i]], now)
                             ELSE jobs[order[i]]
    BY <2>2, <2>4, <2>5, Zenon
  <2>7. CASE ready = {}
    <3>1. i < f
      BY <1>2, <2>1, <2>7
    <3> QED
      BY <2>6, <2>7, <3>1
  <2>8. CASE ready # {}
    <3>1. f = first /\ first \in Nat
      BY <1>2, <1>3, <2>8
    <3> HIDE DEF ready, mem, f
    <3> QED
      BY <2>1, <2>6, <2>8, <3>1
  <2> QED
    BY <2>7, <2>8
<1> HIDE DEF ready, mem
<1> QED
  BY <1>6, <1>7, Zenon DEF ready, first, mem

\* The in-memory store (memory.go) does what the PostgreSQL store does, row by row and claim by
\* claim, for every finite set of Jobs and every order of creation.
THEOREM MemorySafety ==
    Spec => []MemoryMatchesPostgres
<1>1. IInv => MemoryMatchesPostgres
  BY RowsMatch, ClaimsMatch DEF MemoryMatchesPostgres
<1> QED
  BY <1>1, InductiveInvariant, PTL
=============================================================================
