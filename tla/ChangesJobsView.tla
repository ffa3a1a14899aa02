-------------------------- MODULE ChangesJobsView --------------------------
(***************************************************************************)
(* The operator's view of changes and their jobs, and the evidence that    *)
(* may be attached to it (src/internal/ui/changes_jobs*.go).               *)
(*                                                                         *)
(* A view is a record: the time it was generated, and the changes it shows *)
(* by identifier, each with its jobs.  Evidence is a set of records, one   *)
(* change occurring in it at most once; digests is the set of revisions    *)
(* whose digest the revision store vouches for.  An item that does not fit *)
(* refuses the whole set: an Apply operator returns the set of its result, *)
(* empty where the function returns an error.  Views are ordered by time   *)
(* when they are rendered; the order is not represented.                   *)
(***************************************************************************)
EXTENDS OperationsEvidence

NoWorkflow == [available |-> FALSE, complete |-> FALSE, job |-> "", version |-> 0,
               outcome |-> "", reasons |-> {}, observed |-> 0]

EvidenceKinds == {"semantic_diff", "blast_radius", "maintenance_window", "recovery"}

-----------------------------------------------------------------------------
(* Projection *)

projectChange(s) ==
  [id |-> s.id, revision |-> s.revision, state |-> s.machine.state, version |-> s.machine.version,
   updated |-> s.updated, required |-> Evaluate(s.machine.risk).minimum,
   provided |-> Len(s.machine.approvals),
   satisfied |-> CheckApprovals(s.machine.risk, s.machine.approvals),
   available |-> {}, workflow |-> NoWorkflow, jobs |-> {}]

summarizeJobOutput(output) ==
  [present |-> output /= NoOutput, checks |-> Len(output.health),
   audits |-> Len(output.audit), worst |-> WorstHealth(output)]

projectJob(j, now) ==
  [id |-> j.id, status |-> j.status, version |-> j.version, attempt |-> j.attempt,
   held |-> j.lease > now, created |-> j.created, updated |-> j.updated,
   output |-> summarizeJobOutput(j.output)]

\* Every job listed belongs to a change of the snapshots.
CanBuildChangesJobsView(snapshots, jobs) ==
  /\ \A s \in snapshots : s.machine.version > 0 /\ s.machine.state \in States \ {"absent"}
  /\ \A j \in jobs : /\ j.version > 0 /\ j.created <= j.updated
                     /\ \E s \in snapshots : s.id = j.change

BuildChangesJobsView(snapshots, jobs, now) ==
  [generated |-> now,
   changes |-> {[projectChange(s) EXCEPT
                   !.jobs = {projectJob(j, now) : j \in {k \in jobs : k.change = s.id}}] :
                  s \in snapshots}]

Shown(view, c) == CHOOSE v \in view.changes : v.id = c

IsShown(view, c) == \E v \in view.changes : v.id = c

-----------------------------------------------------------------------------
(* Validation *)

validateWorkflowEvidenceSummary(w, jobs) ==
  \/ w = NoWorkflow
  \/ /\ w.version > 0 /\ w.observed > 0 /\ w.outcome \in JobOutcomes
     /\ w.complete = (w.reasons = {})
     /\ \E j \in jobs : j.id = w.job /\ j.version = w.version /\ j.status = w.outcome

ValidateChangesJobsView(view) ==
  /\ view.generated > 0
  /\ \A u, v \in view.changes : u.id = v.id => u = v
  /\ \A v \in view.changes :
       /\ v.version > 0 /\ v.state \in States \ {"absent"}
       /\ v.satisfied => v.provided >= v.required
       /\ v.available \subseteq EvidenceKinds
       /\ \A j \in v.jobs :
            /\ j.version > 0 /\ j.created <= j.updated
            /\ ~j.output.present => j.output = summarizeJobOutput(NoOutput)
            /\ \A u \in view.changes : \A k \in u.jobs : j.id = k.id => u = v /\ j = k
       /\ validateWorkflowEvidenceSummary(v.workflow, v.jobs)

-----------------------------------------------------------------------------
(* Evidence *)

\* An item is about the revision a shown change has, and that revision is known.
Bound(view, digests, e) ==
  /\ IsShown(view, e.change)
  /\ e.revision = Shown(view, e.change).revision
  /\ e.revision \in digests

OncePerChange(evidence) == \A d, e \in evidence : d.change = e.change => d = e

\* A blocked or an expired path is evidence too.
ApplyVerifiedRecoveryPathEvidence(view, digests, evidence, now) ==
  IF /\ ValidateChangesJobsView(view)
     /\ OncePerChange(evidence)
     /\ \A e \in evidence : /\ Path!ValidateRecoveryPathEvidence(e)
                            /\ e.evaluated <= now
                            /\ Bound(view, digests, e)
  THEN {[view EXCEPT !.changes =
           {[v EXCEPT !.available = (@ \ {"recovery"}) \cup
                        {"recovery" : e \in {x \in evidence : x.change = v.id}}] : v \in @}]}
  ELSE {}

SameResult(j, w) ==
  /\ j.version = w.version /\ j.status = w.outcome
  /\ j.output = [present |-> w.output /= NoOutput, checks |-> w.checks,
                 audits |-> w.audits, worst |-> w.worst]

\* The view must show what the evidence was built from.
FitsShown(view, w) ==
  LET v == Shown(view, w.change)
  IN  w.satisfied = v.satisfied /\ \E j \in v.jobs : j.id = w.job /\ SameResult(j, w)

Summary(w) ==
  [available |-> TRUE, complete |-> w.reasons = {}, job |-> w.job, version |-> w.version,
   outcome |-> w.outcome, reasons |-> w.reasons, observed |-> w.observed]

ApplyVerifiedOperationsWorkflowEvidence(view, digests, evidence, now) ==
  IF /\ ValidateChangesJobsView(view)
     /\ OncePerChange(evidence)
     /\ \A w \in evidence : /\ ValidateOperationsWorkflowEvidence(w)
                            /\ w.observed <= now
                            /\ Bound(view, digests, w)
                            /\ FitsShown(view, w)
  THEN LET of(v) == {w \in evidence : w.change = v.id}
           result == [view EXCEPT !.changes =
                        {[v EXCEPT !.workflow = IF of(v) = {} THEN NoWorkflow
                                                ELSE Summary(CHOOSE w \in of(v) : TRUE)] : v \in @}]
       IN  IF ValidateChangesJobsView(result) THEN {result} ELSE {}
  ELSE {}
=============================================================================
