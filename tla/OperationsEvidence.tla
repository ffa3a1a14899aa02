------------------------- MODULE OperationsEvidence -------------------------
(***************************************************************************)
(* The evidence an operator is shown about one revision of a change        *)
(* (src/internal/orchestration/operationsview): who approved it, how its   *)
(* job ended, and the workflow that binds both to a recovery path.         *)
(*                                                                         *)
(* A snapshot of a change is a record id, revision, machine (as in         *)
(* ChangeMachine), approvedAt (the times of machine.approvals), updated.   *)
(* A job is a record id, change, status, version, attempt, created,        *)
(* updated, output; an output is NoOutput or a record of the statuses of   *)
(* its health checks, the identifiers of its audit events and the time all *)
(* of them carry.  A revision stands for its identifier and its digest,    *)
(* the digest of an output for the output itself.  The malformed           *)
(* identifiers and the oversized outputs the builders refuse do not occur; *)
(* more approvals than a review shows do.                                  *)
(***************************************************************************)
EXTENDS ChangeMachine, SequencesExt

CONSTANT MaxApprovalEvidenceRecords     \* how many approvals a review shows

NoOutput == [health |-> <<>>, audit |-> <<>>, at |-> 0]

JobOutcomes == {"succeeded", "failed", "cancelled"}

Path == INSTANCE RecoveryPath WITH SecondTicks <- 1

-----------------------------------------------------------------------------
(* Approval *)

\* Mutant of eligibleApprovalRecords: an actor counts as often as it approved.
EveryApprovalRecord(s) ==
  {[actor |-> s.machine.approvals[i], at |-> s.approvedAt[i], place |-> i] :
     i \in {n \in DOMAIN s.machine.approvals : s.machine.approvals[n] /= Requester}}

\* The first approval of every actor but the requester; all carry the
\* permission the policy asks for.
eligibleApprovalRecords(s) ==
  LET first(i) == \A h \in 1..(i - 1) : s.machine.approvals[h] /= s.machine.approvals[i]
  IN  {[actor |-> s.machine.approvals[i], at |-> s.approvedAt[i]] :
         i \in {n \in DOMAIN s.machine.approvals :
                  s.machine.approvals[n] /= Requester /\ first(n)}}

ApprovalState(s) ==
  IF Evaluate(s.machine.risk).effect = "deny" THEN "denied"
  ELSE IF Evaluate(s.machine.risk).minimum = 0 THEN "not_required"
  ELSE IF CheckApprovals(s.machine.risk, s.machine.approvals) THEN "satisfied"
  ELSE "pending"

validateApprovalStateConsistency(state, approval) ==
  CASE state = "pending_approval" -> approval = "pending"
    [] state = "rejected"         -> approval \in {"denied", "pending"}
    [] state = "cancelled"        -> TRUE
    [] state = "absent"           -> FALSE
    [] OTHER                      -> approval \in {"satisfied", "not_required"}

\* Mutant of BoundedApprovals: the limit is one short.
FewerApprovals(s) ==
  /\ Evaluate(s.machine.risk).minimum <= MaxApprovalEvidenceRecords
  /\ Len(s.machine.approvals) < MaxApprovalEvidenceRecords

\* Neither the approvals asked for nor those made, the ones that do not count
\* included, exceed what a review shows.
BoundedApprovals(s) ==
  /\ Evaluate(s.machine.risk).minimum <= MaxApprovalEvidenceRecords
  /\ Len(s.machine.approvals) <= MaxApprovalEvidenceRecords

CanBuildApprovalEvidence(s, at) ==
  LET decision == Evaluate(s.machine.risk)
  IN  /\ s.machine.version > 0 /\ s.updated <= at
      /\ BoundedApprovals(s)
      /\ \A i \in DOMAIN s.approvedAt : s.approvedAt[i] <= at
      /\ decision.effect = "deny" => decision.minimum = 0 /\ s.machine.state = "rejected"
      /\ CheckApprovals(s.machine.risk, s.machine.approvals)
           <=> Cardinality(eligibleApprovalRecords(s)) >= decision.minimum
      /\ validateApprovalStateConsistency(s.machine.state, ApprovalState(s))

BuildApprovalEvidence(s, at) ==
  [change |-> s.id, revision |-> s.revision, state |-> ApprovalState(s),
   required |-> Evaluate(s.machine.risk).minimum, eligible |-> eligibleApprovalRecords(s),
   satisfied |-> ApprovalState(s) \in {"satisfied", "not_required"}, observed |-> at]

-----------------------------------------------------------------------------
(* Result *)

HealthRank == [status \in {"", "healthy", "unknown", "degraded", "failed"} |->
                 CASE status = "healthy"  -> 1
                   [] status = "unknown"  -> 2
                   [] status = "degraded" -> 3
                   [] status = "failed"   -> 4
                   [] OTHER               -> 0]

worseResultHealth(left, right) == IF HealthRank[right] > HealthRank[left] THEN right ELSE left

WorstHealth(output) == FoldLeft(worseResultHealth, "", output.health)

\* What an output reports happened while its job existed.
validateResultOutput(output, created, updated, at) ==
  /\ \A i, h \in DOMAIN output.audit : output.audit[i] = output.audit[h] => i = h
  /\ output.health /= <<>> \/ output.audit /= <<>> =>
       created <= output.at /\ output.at <= updated /\ output.at <= at

CanBuildJobResultEvidence(s, j, at) ==
  /\ j.change = s.id
  /\ s.machine.version > 0 /\ j.version > 0 /\ j.created <= j.updated
  /\ s.updated <= at /\ j.updated <= at
  /\ j.status \in JobOutcomes /\ s.machine.state = j.status
  /\ IF j.output = NoOutput THEN j.status = "cancelled"
     ELSE validateResultOutput(j.output, j.created, j.updated, at)

BuildJobResultEvidence(s, j, at) ==
  [change |-> s.id, revision |-> s.revision, job |-> j.id, version |-> j.version,
   outcome |-> j.status, output |-> j.output, checks |-> Len(j.output.health),
   audits |-> Len(j.output.audit), worst |-> WorstHealth(j.output), observed |-> at]

-----------------------------------------------------------------------------
(* Workflow *)

operationsWorkflowBlockReasons(approval, recovery, outcome, checks, worst, audits) ==
  {reason \in {"approval", "recovery", "verification", "audit"} :
     CASE reason = "approval"     -> approval \notin {"satisfied", "not_required"}
       [] reason = "recovery"     -> recovery /= "ready"
       [] reason = "verification" -> outcome = "succeeded" /\ (checks = 0 \/ worst /= "healthy")
       [] reason = "audit"        -> audits = 0}

validateOperationsWorkflowApproval(state, satisfied) ==
  satisfied = (state \in {"satisfied", "not_required"})

validateOperationsWorkflowResultSummary(output, checks, worst, outcome) ==
  /\ output = NoOutput => outcome = "cancelled"
  /\ IF checks = 0 THEN worst = "" ELSE worst \in DOMAIN HealthRank \ {""}

InOrder(approved, resulted, evaluated, at) ==
  approved <= resulted /\ resulted <= at /\ evaluated <= at

\* Mutant of CanBuildOperationsWorkflowEvidence: the three parts are not compared.
AnyParts(approval, result, recovery, at) ==
  /\ Path!ValidateRecoveryPathEvidence(recovery)
  /\ validateOperationsWorkflowApproval(approval.state, approval.satisfied)
  /\ validateOperationsWorkflowResultSummary(result.output, result.checks, result.worst,
                                             result.outcome)
  /\ InOrder(approval.observed, result.observed, recovery.evaluated, at)

CanBuildOperationsWorkflowEvidence(approval, result, recovery, at) ==
  /\ Path!ValidateRecoveryPathEvidence(recovery)
  /\ result.version > 0 /\ result.outcome \in JobOutcomes
  /\ validateOperationsWorkflowApproval(approval.state, approval.satisfied)
  /\ validateOperationsWorkflowResultSummary(result.output, result.checks, result.worst,
                                             result.outcome)
  /\ InOrder(approval.observed, result.observed, recovery.evaluated, at)
  /\ \A part \in {result, recovery} :
       part.change = approval.change /\ part.revision = approval.revision

\* Complete when nothing blocks it: it says nothing about success.
BuildOperationsWorkflowEvidence(approval, result, recovery, at) ==
  [change |-> approval.change, revision |-> approval.revision, approval |-> approval.state,
   satisfied |-> approval.satisfied, approved |-> approval.observed,
   job |-> result.job, version |-> result.version, outcome |-> result.outcome,
   output |-> result.output, checks |-> result.checks, audits |-> result.audits,
   worst |-> result.worst, resulted |-> result.observed,
   recovery |-> recovery.state, evaluated |-> recovery.evaluated,
   reasons |-> operationsWorkflowBlockReasons(approval.state, recovery.state, result.outcome,
                                              result.checks, result.worst, result.audits),
   observed |-> at]

ValidateOperationsWorkflowEvidence(w) ==
  /\ w.version > 0 /\ w.outcome \in JobOutcomes
  /\ validateOperationsWorkflowApproval(w.approval, w.satisfied)
  /\ validateOperationsWorkflowResultSummary(w.output, w.checks, w.worst, w.outcome)
  /\ InOrder(w.approved, w.resulted, w.evaluated, w.observed)
  /\ w.recovery \in {"ready", "blocked", "expired"}
  /\ w.reasons = operationsWorkflowBlockReasons(w.approval, w.recovery, w.outcome, w.checks,
                                                w.worst, w.audits)
=============================================================================
