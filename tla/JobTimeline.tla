---------------------------- MODULE JobTimeline ----------------------------
(***************************************************************************)
(* The operator timeline derived from Job writes                           *)
(* (job/timeline_transition.go, job/timeline.go): the entry, if any, that  *)
(* TimelineEntryFromTransition makes of the row before and the row after a *)
(* write of JobRepository.                                                 *)
(***************************************************************************)
EXTENDS JobRepository

\* The result of a call: an event name, "none" for a write that is not recorded,
\* or "error" for a transition the function refuses.

\* The event of a write that ends in the given status, by the status before it.
TimelineEvent(before, after) ==
    LET same == after.attempt = before.attempt
        from(statuses) == before.status \in statuses
    IN CASE after.status = "running" ->
               CASE after.attempt = before.attempt + 1 ->
                       IF from({"queued", "retry_wait", "running"})
                       THEN "attempt_started" ELSE "error"
                 [] OTHER -> IF before.status = "running" /\ same THEN "none" ELSE "error"
         [] after.status = "retry_wait" ->
               IF from({"running"}) /\ same THEN "retry_scheduled" ELSE "error"
         [] after.status = "cancel_requested" ->
               IF from({"running"}) /\ same THEN "cancel_requested" ELSE "error"
         [] after.status = "cancelled" ->
               IF from({"queued", "retry_wait", "running", "cancel_requested"})
               THEN "cancelled" ELSE "error"
         [] after.status = "succeeded" ->
               IF from({"running"}) /\ same THEN "succeeded" ELSE "error"
         [] after.status = "failed" ->
               IF from({"queued", "retry_wait", "running"}) THEN "failed" ELSE "error"
         [] OTHER -> IF after.status = before.status /\ same THEN "none" ELSE "error"

\* Mutant of TimelineEntryFromTransition: the last attempt is taken for one too many.
TimelineEntryBeforeLastAttempt(before, after) ==
    IF after.status = "absent" \/ after.version = 0 \/ after.updatedAt = 0
         \/ after.attempt >= MaxAttempts
    THEN "error"
    ELSE IF before.status = "absent" THEN "created" ELSE TimelineEvent(before, after)

TimelineEntryFromTransition(before, after) ==
    IF after.status = "absent" \/ after.version = 0 \/ after.updatedAt = 0
         \/ after.attempt > MaxAttempts
    THEN "error"
    ELSE IF before.status = "absent"
    THEN IF after.status = "queued" /\ after.attempt = 0 /\ after.version = 1
         THEN "created" ELSE "error"
    ELSE IF \/ before.version >= after.version
            \/ after.updatedAt < before.updatedAt
            \/ after.attempt < before.attempt
            \/ after.attempt > before.attempt + 1
    THEN "error"
    ELSE TimelineEvent(before, after)

-----------------------------------------------------------------------------

\* Every write that moves a Job to another status or attempt yields a timeline
\* entry, so that a store that appends the entry in the transaction of the write
\* (as timeline.go asks production paths to do) never has to refuse the write.
\* The one exception is a write stamped with a time before that of the row, which
\* a Claim with the time of a buffered tick may make.
EveryTransitionIsRecorded ==
    [][\A k \in Keys :
          ( /\ jobs'[k].status # jobs[k].status \/ jobs'[k].attempt # jobs[k].attempt
            /\ jobs'[k].updatedAt >= jobs[k].updatedAt )
             => TimelineEntryFromTransition(jobs[k], jobs'[k]) \notin {"none", "error"}]_vars
=============================================================================
