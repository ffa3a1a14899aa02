-------------------------- MODULE MemoryRepository --------------------------
(***************************************************************************)
(* job.MemoryRepository, the store every test of the worker and of the     *)
(* HTTP server runs on, translated from job/memory.go and                  *)
(* job/cancel_version.go over the rows of JobRepository.  Evidence from    *)
(* those tests carries over to PostgreSQL only as far as the two stores    *)
(* agree; the properties below say how far that is.                        *)
(*                                                                         *)
(* An operation is a function from the stored Job to the Job it stores; a  *)
(* call the store rejects is NoJob.                                        *)
(***************************************************************************)
EXTENDS JobRepository, Sequences

\* The map that holds the Jobs is finite.
ASSUME KeysAssumption == IsFiniteSet(Keys)

\* found.Lease == nil || found.Lease.Token != token || !ExpiresAt.After(now)
MemLeased(j, token, now) ==
    /\ j.status = "running" \/ j.status = "cancel_requested"
    /\ ~(j.token = 0 \/ j.token # token \/ j.expires <= now)

MemRenewLease(j, token, now) ==
    IF ~MemLeased(j, token, now) THEN NoJob
    ELSE [j EXCEPT !.expires = now + LeaseTTL, !.updatedAt = now, !.version = @ + 1]

MemSucceed(j, token, now) ==
    IF ~MemLeased(j, token, now) THEN NoJob
    ELSE [j EXCEPT !.status = IF @ = "cancel_requested" THEN "cancelled" ELSE "succeeded",
                   !.output = IF j.status = "cancel_requested" THEN @ ELSE token,
                   !.token = 0, !.expires = 0, !.updatedAt = now, !.version = @ + 1]

\* NextAttemptAt is reset only on the way to failed: the cancelled branch keeps it.
MemFail(j, token, now) ==
    IF ~MemLeased(j, token, now) THEN NoJob
    ELSE LET stored == [j EXCEPT !.output = token, !.token = 0, !.expires = 0,
                                 !.updatedAt = now, !.version = @ + 1]
         IN CASE j.status = "cancel_requested" -> [stored EXCEPT !.status = "cancelled"]
              [] j.status = "running" /\ j.attempt < MaxAttempts ->
                    [stored EXCEPT !.status = "retry_wait", !.next = now + Delay[j.attempt]]
              [] OTHER -> [stored EXCEPT !.status = "failed", !.next = 0]

MemRequestCancel(j, now) ==
    CASE j.status = "absent"  -> NoJob
      [] Terminal(j)          -> j
      [] j.status = "running" ->
            [j EXCEPT !.status = "cancel_requested", !.updatedAt = now, !.version = @ + 1]
      [] OTHER ->
            [j EXCEPT !.status = "cancelled", !.token = 0, !.expires = 0,
                      !.updatedAt = now, !.version = @ + 1]

MemRequestCancelIfVersion(j, expected, now) ==
    IF j.status = "absent" \/ j.version # expected THEN NoJob ELSE MemRequestCancel(j, now)

-----------------------------------------------------------------------------
(* Claim: one pass over the Jobs in creation order, which stops at the first *)
(* Job it can lease.  Jobs after that one are not looked at.                 *)

\* Mutant of MemEligible: a retry is not due at the instant it is scheduled for.
MemEligibleLater(j, now) ==
    \/ j.status = "queued"
    \/ j.status = "retry_wait" /\ j.next < now
    \/ j.status = "running" /\ j.token # 0 /\ j.expires <= now

MemEligible(j, now) ==
    \/ j.status = "queued"
    \/ j.status = "retry_wait" /\ j.next <= now
    \/ j.status = "running" /\ j.token # 0 /\ j.expires <= now

\* One iteration of the loop: acc is the table so far and the key leased, if any.
MemVisit(acc, k, now) ==
    LET j == acc.jobs[k]
        ended(status) == [acc EXCEPT !.jobs[k] = Released(j, status, now)]
    IN IF acc.leased # {} THEN acc
       ELSE CASE j.status = "cancel_requested" /\ j.token # 0 /\ j.expires <= now ->
                   ended("cancelled")
              [] MemEligible(j, now) /\ j.attempt >= MaxAttempts -> ended("failed")
              [] MemEligible(j, now) /\ j.attempt < MaxAttempts ->
                   [jobs |-> [acc.jobs EXCEPT ![k] = Claimed(j, now)], leased |-> {k}]
              [] OTHER -> acc

MemClaim(order, now) ==
    LET pass[n \in 0..Len(order)] ==
           IF n = 0 THEN [jobs |-> jobs, leased |-> {}]
           ELSE MemVisit(pass[n - 1], order[n], now)
    IN pass[Len(order)]

\* Creation order; Jobs created at the same instant come in the order of their ids.
CreationOrders ==
    LET stored == {k \in Keys : jobs[k].status # "absent"}
    IN {order \in [1..Cardinality(stored) -> stored] :
          \A i, j \in DOMAIN order :
             i < j => /\ order[i] # order[j]
                      /\ jobs[order[i]].createdAt <= jobs[order[j]].createdAt}

-----------------------------------------------------------------------------
(* Properties *)

\* Renewal, completion, failure and both cancellations store the same row in
\* memory and in PostgreSQL, and both stores reject the same calls, in every
\* reachable state, for every token ever issued and every version seen: the CAS
\* semantics of the two stores coincide.
MemoryRowsMatchPostgres ==
    \A k \in Keys, now \in Now :
       LET j == jobs[k]
       IN /\ \A t \in leases[k] :
                LET held(row) == IF Leased(j, t, now) THEN row ELSE NoJob
                IN /\ MemSucceed(j, t, now) = held(Succeeded(j, t, now))
                   /\ MemFail(j, t, now) = held(Failed(j, t, now))
                   /\ MemRenewLease(j, t, now) =
                         held([Written(j, j.status, now) EXCEPT !.expires = now + LeaseTTL])
          /\ \A v \in 1..j.version :
                MemRequestCancelIfVersion(j, v, now) =
                   IF j.version = v THEN Cancelled(j, now) ELSE NoJob

\* The two Claims lease the same Job: the memory store's single pass, which ends
\* Jobs on the way, leases exactly the oldest Job PostgreSQL's SELECT would
\* return, and leaves unswept only Jobs created after it.
MemoryClaimMatchesPostgres ==
    \A now \in Now, order \in CreationOrders :
       LET mem == MemClaim(order, now)
           ready == {i \in DOMAIN order : Claimable(jobs[order[i]], now)}
           first == CHOOSE i \in ready : \A o \in ready : i <= o
       IN /\ mem.leased = IF ready = {} THEN {} ELSE {order[first]}
          /\ \A i \in DOMAIN order :
                mem.jobs[order[i]] =
                   CASE ready # {} /\ i = first -> Claimed(jobs[order[i]], now)
                     [] ready # {} /\ i > first -> jobs[order[i]]
                     [] OTHER                   -> Swept(jobs[order[i]], now)

\* The in-memory store, on which the tests run, does what the PostgreSQL store
\* does: row by row and claim by claim, with the difference in Claim's sweep that
\* MemoryClaimMatchesPostgres spells out.
MemoryMatchesPostgres == MemoryRowsMatchPostgres /\ MemoryClaimMatchesPostgres
=============================================================================
