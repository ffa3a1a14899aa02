----------------------------- MODULE ManualRetry ----------------------------
(***************************************************************************)
(* Retrying a failed Job by hand.  An operator reviews an admission, which *)
(* is evidence about one version of the Job, and then asks for the retry.  *)
(* The request is revalidated in several reads before one transaction      *)
(* creates the new Job and its lineage                                     *)
(* (operationsview/retry_admission.go and retry_mutation.go, and           *)
(* job/manual_retry*.go over the memory and the Postgres repository).      *)
(*                                                                         *)
(* A digest stands for what it digests: it is the value itself.  A policy  *)
(* and a revision are numbered.  Jobs run as JobRepository says; here a    *)
(* Job is claimed and ends.                                                *)
(***************************************************************************)
EXTENDS Integers, Sequences, FiniteSets

CONSTANTS JobIDs,       \* the identifiers of Jobs
          Root,         \* the Job that failed first
          RootKey,      \* its idempotency key
          Children,     \* the identifiers and keys asked for, as pairs
          Operators,    \* requests that may be under way at once
          Policies,     \* the policies there will be, by number
          Revisions,    \* the number of revisions there will be
          MaxTime,      \* the clock stops
          MaxSends      \* bound: no request is sent again once one was sent that often

\* There is a first policy, and every budget is a number.
ASSUME RetryAssumption ==
  /\ Root \in JobIDs /\ \A c \in Children : c[1] \in JobIDs
  /\ 1 \in DOMAIN Policies /\ \A p \in DOMAIN Policies : Policies[p].max \in Nat

VARIABLES time, family, lineage, rule, revision, retries

retryVars == <<time, family, lineage, rule, revision, retries>>

Absent == [status |-> "absent"]

Exists(id) == family[id] /= Absent

QueuedJob(key, now) ==
  [status |-> "queued", version |-> 1, attempt |-> 0, leased |-> FALSE, key |-> key,
   updated |-> now]

Attempts == 1   \* the attempts a Job has, as its root had

NoChild == "none"

NoRequest == [phase |-> "idle"]

RetryInit ==
  /\ time = 1
  /\ family = [id \in JobIDs |->
                 IF id = Root
                 THEN [QueuedJob(RootKey, 1) EXCEPT !.status = "failed", !.version = 3,
                                                    !.attempt = Attempts]
                 ELSE Absent]
  /\ lineage = {} /\ rule = 1 /\ revision = 1
  /\ retries = [o \in Operators |-> NoRequest]

-----------------------------------------------------------------------------
(* The history of retries *)

RootOf(id) ==
  IF \E l \in lineage : l.retry = id
  THEN (CHOOSE l \in lineage : l.retry = id).root
  ELSE id

ListManualRetryLineage(root) == {l \in lineage : l.root = root}

\* The entries from the root on, as far as they hang together.
Walk(root) ==
  LET entries == ListManualRetryLineage(root)
      walk[n \in 0 .. Cardinality(entries)] ==
        IF n = 0 THEN <<>>
        ELSE LET cursor == IF n = 1 \/ walk[n-1] = <<>> THEN root
                           ELSE walk[n-1][Len(walk[n-1])].retry
                 next   == {l \in entries : l.source = cursor}
             IN  IF next = {} THEN walk[n-1]
                 ELSE Append(walk[n-1], CHOOSE l \in next : TRUE)
  IN  walk[Cardinality(entries)]

\* The entries neither fork, nor come back, nor fall apart.
IsChain(root) ==
  LET entries == ListManualRetryLineage(root)
      walked  == Walk(root)
  IN  /\ \A k, l \in entries : k.source = l.source => k = l
      /\ Len(walked) = Cardinality(entries)
      /\ \A i \in 1 .. Len(walked) :
           /\ walked[i].retry /= root
           /\ \A k \in 1 .. i : walked[i].retry /= walked[k].source

\* The history is its entries: what the digest is taken over.
BuildManualRetryHistoryEvidence(id, now) ==
  LET entries == Walk(RootOf(id))
  IN  [root |-> RootOf(id), source |-> id, version |-> family[id].version,
       used |-> Len(entries),
       alreadyRetried |-> \E l \in lineage : l.source = id,
       digest |-> entries, observed |-> now]

-----------------------------------------------------------------------------
(* Admissions *)

\* What the policy layer says of a Job now.
CurrentRetryPolicy(id, now) ==
  [digest |-> rule, allows |-> Policies[rule].allows, max |-> Policies[rule].max,
   fresh |-> Policies[rule].fresh, approval |-> Policies[rule].approval,
   used |-> Len(Walk(RootOf(id))), observed |-> now]

validateRetryPolicy(p) == p.observed /= 0 /\ p.used <= p.max

CanAdmit(job, expected, p, history, now) ==
  /\ job.version = expected
  /\ 0 <= job.attempt /\ job.attempt <= Attempts
  /\ job.status = "failed" => job.attempt = Attempts
  /\ job.status \in {"failed", "succeeded", "cancelled"} => ~ job.leased
  /\ validateRetryPolicy(p)
  /\ job.updated <= p.observed /\ job.updated <= history.observed
  /\ p.observed <= now /\ history.observed <= now

\* Mutant of BudgetExhausted: the last retry of the budget may be made twice.
BudgetExceeded(p) == p.max = 0 \/ p.used > p.max

BudgetExhausted(p) == p.max = 0 \/ p.used >= p.max

Blockers(job, p, history) ==
  {b \in {"source_not_failed", "source_already_retried", "policy_denies_retry",
          "manual_retry_budget_exhausted", "fresh_approval_required"} :
     CASE b = "source_not_failed"             -> job.status /= "failed"
       [] b = "source_already_retried"        -> history.alreadyRetried
       [] b = "policy_denies_retry"           -> ~ p.allows
       [] b = "manual_retry_budget_exhausted" -> BudgetExhausted(p)
       [] b = "fresh_approval_required"       -> p.fresh /\ p.approval = 0}

\* The admission's identity is the digest of all of it, its time included.
BuildJobRetryAdmissionEvidence(id, job, rev, p, history, now) ==
  [job |-> id, version |-> job.version, status |-> job.status, attempt |-> job.attempt,
   revision |-> rev, policy |-> p.digest, used |-> p.used, max |-> p.max,
   fresh |-> p.fresh, approval |-> p.approval,
   history |-> history.digest, historyObserved |-> history.observed,
   alreadyRetried |-> history.alreadyRetried,
   blockers |-> Blockers(job, p, history), observed |-> now]

Eligible(admission) == admission.blockers = {}

\* Mutant of sameReviewedRetryBoundary: the revision is not compared.
SameBoundaryOfAnyRevision(reviewed, current) ==
  [reviewed EXCEPT !.revision = 0, !.historyObserved = 0, !.observed = 0] =
  [current EXCEPT !.revision = 0, !.historyObserved = 0, !.observed = 0]

\* Two admissions that differ at most in when they were made.
sameReviewedRetryBoundary(reviewed, current) ==
  [reviewed EXCEPT !.historyObserved = 0, !.observed = 0] =
  [current EXCEPT !.historyObserved = 0, !.observed = 0]

-----------------------------------------------------------------------------
(* The repositories *)

\* A request's identity leaves out when it was sent and revalidated.
ManualRetryRequestFingerprint(m) == [m EXCEPT !.revalidation = 0, !.requested = 0]

ByAdmission(reviewed) == {l \in lineage : l.reviewed = reviewed}

Fingerprint(l) == ManualRetryRequestFingerprint([l EXCEPT !.root = NoChild])

Replay(m) ==
  IF \A l \in ByAdmission(m.reviewed) : Fingerprint(l) = ManualRetryRequestFingerprint(m)
  THEN "replayed" ELSE "conflict"

IDTaken(m) == Exists(m.retry)

KeyTaken(m) == \E id \in JobIDs : Exists(id) /\ family[id].key = m.key

Retryable(job) == job.status = "failed" /\ job.attempt >= Attempts /\ ~ job.leased

\* Mutant of RetriedBefore: only the same admission counts.
RetriedUnderAdmission(m) == ByAdmission(m.reviewed) /= {}

RetriedBefore(m) == \E l \in lineage : l.source = m.source /\ l.version = m.version

\* What JobRepository.CreateManualRetry does with a request, the source locked.
\* An insert that conflicts is explained by the key before the identifier.
PostgresOutcome(m) ==
  IF ~ Exists(m.source) THEN "notFound"
  ELSE IF family[m.source].version /= m.version THEN "versionConflict"
  ELSE IF ByAdmission(m.reviewed) /= {} THEN Replay(m)
  ELSE IF ~ Retryable(family[m.source]) THEN "notFailed"
  ELSE IF RetriedBefore(m) THEN "alreadyRetried"
  ELSE IF KeyTaken(m) THEN "idempotencyConflict"
  ELSE IF IDTaken(m) THEN "idExists"
  ELSE "created"

\* Mutant of MemoryOutcome: the idempotency keys of Jobs are not looked up.
MemoryOutcomeWithoutKeys(m) ==
  IF ByAdmission(m.reviewed) /= {} THEN Replay(m)
  ELSE IF ~ Exists(m.source) THEN "notFound"
  ELSE IF family[m.source].version /= m.version THEN "versionConflict"
  ELSE IF ~ Retryable(family[m.source]) THEN "notFailed"
  ELSE IF RetriedBefore(m) THEN "alreadyRetried"
  ELSE IF IDTaken(m) THEN "idExists"
  ELSE "created"

\* What MemoryManualRetryRepository.CreateManualRetry does, the mutex held.  The
\* identifier is looked up before the key.
MemoryOutcome(m) ==
  IF ByAdmission(m.reviewed) /= {} THEN Replay(m)
  ELSE IF ~ Exists(m.source) THEN "notFound"
  ELSE IF family[m.source].version /= m.version THEN "versionConflict"
  ELSE IF ~ Retryable(family[m.source]) THEN "notFailed"
  ELSE IF RetriedBefore(m) THEN "alreadyRetried"
  ELSE IF IDTaken(m) THEN "idExists"
  ELSE IF KeyTaken(m) THEN "idempotencyConflict"
  ELSE "created"

-----------------------------------------------------------------------------
(* Requests *)

\* An admission that is not eligible goes no further
\* (validateReviewedRetryAdmission).
Review(o, id) ==
  LET p         == CurrentRetryPolicy(id, time)
      history   == BuildManualRetryHistoryEvidence(id, time)
      admission == BuildJobRetryAdmissionEvidence(id, family[id], revision, p, history, time)
  IN  /\ retries[o].phase = "idle" /\ Exists(id) /\ IsChain(RootOf(id))
      /\ CanAdmit(family[id], family[id].version, p, history, time)
      /\ Eligible(admission)
      /\ retries' = [retries EXCEPT ![o] =
           [phase |-> "reviewed", sends |-> 0, reviewed |-> admission]]
      /\ UNCHANGED <<time, family, lineage, rule, revision>>

\* Someone else acts on the same review, or the client sends the request again
\* before the first is answered.
Share(o, other) ==
  /\ retries[o].phase = "idle" /\ retries[other].phase /= "idle"
  /\ retries' = [retries EXCEPT ![o] =
       [phase |-> "reviewed", sends |-> 0, reviewed |-> retries[other].reviewed]]
  /\ UNCHANGED <<time, family, lineage, rule, revision>>

Answer(o, outcome, id) ==
  retries' = [retries EXCEPT ![o] =
    [phase |-> "answered", reviewed |-> @.reviewed, retry |-> @.retry, key |-> @.key,
     sends |-> @.sends, outcome |-> outcome, job |-> id]]

Refuse(o) == Answer(o, "refused", NoChild)

Submit(o, id, key) ==
  /\ retries[o].phase = "reviewed"
  /\ retries' = [retries EXCEPT ![o] =
       [phase |-> "lookup", reviewed |-> @.reviewed, retry |-> id, key |-> key,
        sends |-> 1, requested |-> time,
        source |-> Absent, revision |-> 0, policy |-> Absent]]
  /\ UNCHANGED <<time, family, lineage, rule, revision>>

\* The answer was lost, and the client sends the request again.
Resubmit(o) ==
  /\ retries[o].phase = "answered"
  /\ \A other \in Operators : retries[other].phase /= "idle" => retries[other].sends < MaxSends
  /\ retries' = [retries EXCEPT ![o] =
       [phase |-> "lookup", reviewed |-> @.reviewed, retry |-> @.retry, key |-> @.key,
        sends |-> @.sends + 1, requested |-> time,
        source |-> Absent, revision |-> 0, policy |-> Absent]]
  /\ UNCHANGED <<time, family, lineage, rule, revision>>

\* Mutant of Lookup: what was created is returned whatever was asked for.
LookupAnyChild(o) ==
  LET r     == retries[o]
      found == ByAdmission(r.reviewed)
  IN  /\ r.phase = "lookup"
      /\ IF found = {} THEN retries' = [retries EXCEPT ![o].phase = "source"]
         ELSE LET l == CHOOSE l \in found : TRUE
              IN  Answer(o, "replayed", l.retry)
      /\ UNCHANGED <<time, family, lineage, rule, revision>>

\* A lineage of this admission is its answer, for the child it names.
Lookup(o) ==
  LET r     == retries[o]
      found == ByAdmission(r.reviewed)
  IN  /\ r.phase = "lookup"
      /\ IF found = {} THEN retries' = [retries EXCEPT ![o].phase = "source"]
         ELSE LET l == CHOOSE l \in found : TRUE
              IN  IF r.retry /= l.retry \/ r.key /= family[l.retry].key
                  THEN Refuse(o) ELSE Answer(o, "replayed", l.retry)
      /\ UNCHANGED <<time, family, lineage, rule, revision>>

\* The reads of the revalidation, each of what there is at its time;
\* what is not read yet is Absent or 0.
ReadSource(o) ==
  LET r == retries[o]
      a == r.reviewed
  IN  /\ r.phase = "source"
      /\ IF /\ Exists(a.job) /\ family[a.job].version = a.version
            /\ family[a.job].status = a.status /\ family[a.job].attempt = a.attempt
         THEN retries' = [retries EXCEPT ![o].phase = "revision",
                                         ![o].source = family[a.job]]
         ELSE Refuse(o)
      /\ UNCHANGED <<time, family, lineage, rule, revision>>

ReadRevision(o) ==
  /\ retries[o].phase = "revision"
  /\ retries' = [retries EXCEPT ![o].phase = "policy", ![o].revision = revision]
  /\ UNCHANGED <<time, family, lineage, rule, revision>>

ReadPolicy(o) ==
  /\ retries[o].phase = "policy"
  /\ retries' = [retries EXCEPT ![o].phase = "history",
                                  ![o].policy =
                                    CurrentRetryPolicy(retries[o].reviewed.job, time)]
  /\ UNCHANGED <<time, family, lineage, rule, revision>>

\* The last read, and what is decided on all of them.
Revalidate(o) ==
  LET r       == retries[o]
      a       == r.reviewed
      history == BuildManualRetryHistoryEvidence(a.job, time)
      current == BuildJobRetryAdmissionEvidence(
                   a.job, r.source, r.revision, r.policy, history, r.requested)
  IN  /\ r.phase = "history"
      /\ IF /\ IsChain(RootOf(a.job))
            /\ history.version = r.source.version
            /\ r.policy.used = history.used
            /\ CanAdmit(r.source, a.version, r.policy, history, r.requested)
            /\ Eligible(current) /\ sameReviewedRetryBoundary(a, current)
         THEN retries' = [retries EXCEPT ![o] =
                [phase |-> "create", reviewed |-> a, retry |-> r.retry, key |-> r.key,
                 sends |-> r.sends,
                 mutation |-> [root |-> NoChild, source |-> a.job, version |-> r.source.version,
                               retry |-> r.retry, key |-> r.key, reviewed |-> a,
                               revalidation |-> current, revision |-> current.revision,
                               policy |-> current.policy, history |-> current.history,
                               approval |-> current.approval, requested |-> r.requested]]]
         ELSE Refuse(o)
      /\ UNCHANGED <<time, family, lineage, rule, revision>>

\* One transaction: the source is kept, the child and its lineage are new.
CreateManualRetry(o) ==
  LET m == retries[o].mutation
  IN  /\ retries[o].phase = "create"
      /\ CASE PostgresOutcome(m) = "created" ->
                /\ family' = [family EXCEPT ![m.retry] = QueuedJob(m.key, m.requested)]
                /\ lineage' = lineage \cup {[m EXCEPT !.root = RootOf(m.source)]}
                /\ Answer(o, "created", m.retry)
           [] PostgresOutcome(m) = "replayed" ->
                Answer(o, "replayed", m.retry) /\ UNCHANGED <<family, lineage>>
           [] OTHER -> Refuse(o) /\ UNCHANGED <<family, lineage>>
      /\ UNCHANGED <<time, rule, revision>>

-----------------------------------------------------------------------------
(* The world around *)

RunningJob(job, now) ==
  [job EXCEPT !.status = "running", !.version = @ + 1, !.attempt = @ + 1, !.leased = TRUE,
              !.updated = now]

EndedJob(job, status, now) ==
  [job EXCEPT !.status = status, !.version = @ + 1, !.leased = FALSE, !.updated = now]

ClaimJob(id) ==
  /\ Exists(id) /\ family[id].status = "queued"
  /\ family' = [family EXCEPT ![id] = RunningJob(@, time)]
  /\ UNCHANGED <<time, lineage, rule, revision, retries>>

FinishJob(id, status) ==
  /\ Exists(id)
  /\ family[id].status = IF status = "cancelled" THEN "queued" ELSE "running"
  /\ family' = [family EXCEPT ![id] = EndedJob(@, status, time)]
  /\ UNCHANGED <<time, lineage, rule, revision, retries>>

ChangePolicy ==
  /\ rule' \in {p \in DOMAIN Policies : p > rule}
  /\ UNCHANGED <<time, family, lineage, revision, retries>>

Revise ==
  /\ revision < Revisions /\ revision' = revision + 1
  /\ UNCHANGED <<time, family, lineage, rule, retries>>

TimePasses ==
  /\ time < MaxTime /\ time' = time + 1
  /\ UNCHANGED <<family, lineage, rule, revision, retries>>

RetryNext ==
  \/ \E o \in Operators :
       \/ \E id \in JobIDs : Review(o, id)
       \/ \E other \in Operators : Share(o, other)
       \/ \E c \in Children : Submit(o, c[1], c[2])
       \/ Resubmit(o) \/ Lookup(o) \/ ReadSource(o) \/ ReadRevision(o) \/ ReadPolicy(o)
       \/ Revalidate(o) \/ CreateManualRetry(o)
  \/ \E id \in JobIDs :
       ClaimJob(id) \/ \E status \in {"failed", "succeeded", "cancelled"} : FinishJob(id, status)
  \/ ChangePolicy \/ Revise \/ TimePasses

RetrySpec == RetryInit /\ [][RetryNext]_retryVars

-----------------------------------------------------------------------------
(* Properties *)

\* A retry is of what the operator reviewed, even if the revision, the policy,
\* the approval or the history moved on while the request was on its way: its
\* lineage names the reviewed revision, policy and approval, the history reviewed
\* is exactly the retries before it, and with it the budget of that policy is not
\* exceeded.  In particular the retries of a Job form one chain
\* (CreateManualRetryWithRevalidation, CreateManualRetry).
RetryIsWhatWasReviewed ==
  \A l \in lineage :
    LET chain == Walk(l.root)
    IN  /\ l.revision = l.reviewed.revision /\ l.policy = l.reviewed.policy
        /\ l.approval = l.reviewed.approval
        /\ \E i \in 1 .. Len(chain) :
             /\ chain[i] = l /\ l.reviewed.history = SubSeq(chain, 1, i - 1)
             /\ i <= Policies[l.policy].max

\* The one answer the repositories give differently: a child whose identifier and
\* key are both taken is refused for the identifier by one, for the key by the
\* other.
BothTaken(m) ==
  /\ IDTaken(m) /\ KeyTaken(m)
  /\ MemoryOutcome(m) = "idExists" /\ PostgresOutcome(m) = "idempotencyConflict"

\* A request gets one answer.  The memory repository and Postgres create, replay
\* and refuse the same requests, although one looks for the admission first and
\* the other for the source; they refuse for the same reason too, unless the
\* identifier and the key of the child are both taken.  And who is told that a
\* retry exists is told of the Job it asked for, created from the admission it
\* sent, no matter how often or by whom that was sent (the lineage found by
\* admission, and the fingerprint of a request).
AnswersAgree ==
  \A o \in Operators :
    /\ retries[o].phase = "create" =>
         LET m == retries[o].mutation
         IN  MemoryOutcome(m) = PostgresOutcome(m) \/ BothTaken(m)
    /\ retries[o].phase = "answered" /\ retries[o].outcome \in {"created", "replayed"} =>
         \E l \in lineage :
           /\ l.retry = retries[o].job /\ l.reviewed = retries[o].reviewed
           /\ l.retry = retries[o].retry /\ l.key = retries[o].key
=============================================================================
