---------------------------- MODULE RestoreDrill ----------------------------
(***************************************************************************)
(* Restore drills: their adapters, plans and transitions, how fresh the    *)
(* newest one is, and the projections that are kept of that                *)
(* (src/internal/recovery/adapter_registry.go, restore_drill*.go).         *)
(*                                                                         *)
(* A registry is a set of adapters, one for an adapter and version.  An    *)
(* identity computed from the fields of a record is that record of them.   *)
(***************************************************************************)
EXTENDS RecoveryMetadata

CONSTANT Rank   \* the place of a restore's identifier in the order of strings

-----------------------------------------------------------------------------
(* The adapter registry *)

Adapters(registry, adapter, version) ==
  {d \in registry : d.adapter = adapter /\ d.version = version}

CanRegister(registry, d) ==
  /\ validateIdentifier(d.adapter) /\ d.version > 0
  /\ d.providers /= {} /\ validateIDSet(d.providers)
  /\ d.capabilities /= {} /\ d.capabilities \subseteq ProviderCapabilities
  /\ Adapters(registry, d.adapter, d.version) = {}

\* The provider declares no more than its adapter, and both what is required.
Resolves(registry, p, required) ==
  /\ validateProvider(p, FALSE)
  /\ \E d \in Adapters(registry, p.adapter, p.version) :
       /\ p.provider \in d.providers
       /\ p.capabilities \subseteq d.capabilities
       /\ required \subseteq p.capabilities \cap d.capabilities

DrillCapabilities == {"RESTORE", "RESTORE_DRILL"}

-----------------------------------------------------------------------------
(* Plans *)

CanPlan(registry, r, now) ==
  /\ ValidateRestoreMetadata(r)
  /\ r.mode = "ISOLATED_DRILL" /\ r.state = "PLANNED"
  /\ now > r.updated
  /\ Resolves(registry, r.provider, DrillCapabilities)

\* What the identity of a plan covers, the adapter it resolved to included: not
\* when it was evaluated.
restoreDrillPlanID(registry, r) ==
  [restore |-> r.id, scope |-> r.scope, owner |-> r.owner, point |-> r.point,
   backups |-> r.backups, target |-> r.target, provider |-> r.provider,
   adapter |-> Adapters(registry, r.provider.adapter, r.provider.version),
   version |-> r.version, generation |-> r.generation]

-----------------------------------------------------------------------------
(* Transitions; q is a request *)

validRestoreDrillEdge(from, to) ==
  \/ from = "PLANNED" /\ to \in {"RUNNING", "CANCELLED"}
  \/ from = "RUNNING" /\ to \in {"VERIFYING", "FAILED", "CANCELLED"}
  \/ from = "VERIFYING" /\ to \in {"SUCCEEDED", "FAILED", "CANCELLED"}

canonicalDrillEvidence(es, passed, started, observed) ==
  /\ es /= {} /\ validateEvidence(es)
  /\ started /= 0
  /\ \A e \in es : /\ started <= e.recorded /\ e.recorded <= observed
                   /\ e.kind /= "FENCING_CONFIRMATION"
  /\ containsEvidenceKind(es, "RESTORE_DRILL")
  /\ passed => containsEvidenceKind(es, "FUNCTIONAL_TEST")

\* What a request may carry, by the state it asks for.
Accepted(r, q) ==
  /\ (q.to = "RUNNING") <=> (q.operation /= NoID)
  /\ (q.to = "FAILED") <=> q.failure
  /\ IF q.to = "SUCCEEDED" \/ (q.to = "FAILED" /\ r.state = "VERIFYING")
     THEN canonicalDrillEvidence(q.evidence, q.to = "SUCCEEDED", r.started, q.occurred)
     ELSE q.evidence = {}

Successor(r, q, version) ==
  LET ends     == q.to \in {"SUCCEEDED", "FAILED", "CANCELLED"}
      verified == q.to = "SUCCEEDED" \/ (q.to = "FAILED" /\ r.state = "VERIFYING")
  IN  [r EXCEPT !.state = q.to, !.updated = q.occurred, !.version = version,
                !.provider.operation = IF q.to = "RUNNING" THEN q.operation ELSE @,
                !.started = IF q.to = "RUNNING" THEN q.occurred ELSE @,
                !.completed = IF ends THEN q.occurred ELSE @,
                !.failure = q.failure,
                !.verification =
                  IF verified
                  THEN [outcome |-> IF q.to = "SUCCEEDED" THEN "PASSED" ELSE "FAILED",
                        verified |-> q.occurred, evidence |-> q.evidence]
                  ELSE @]

\* ApplyRestoreDrillTransition accepts the request.
CanTransition(registry, r, q, version) ==
  /\ validRestoreDrillEdge(r.state, q.to)
  /\ q.occurred > r.updated
  /\ r.mode = "ISOLATED_DRILL" /\ ValidateRestoreMetadata(r)
  /\ Resolves(registry, r.provider, DrillCapabilities)
  /\ ValidateAgainst(q.precondition, r)
  /\ Accepted(r, q)
  /\ ValidateRestoreMetadata(Successor(r, q, version))
  /\ ValidateSuccessor(r, Successor(r, q, version), FALSE)

-----------------------------------------------------------------------------
(* Freshness *)

Truncate(t) == t - (t % SecondTicks)

IsFreshnessEvidence(r) ==
  /\ ValidateRestoreMetadata(r)
  /\ r.mode = "ISOLATED_DRILL" /\ r.state = "SUCCEEDED"
  /\ r.verification.outcome = "PASSED" /\ r.verification.verified /= 0

\* maxAge is in seconds; the drill is no younger than the check allows.
CanEvaluate(r, maxAge, checked) ==
  /\ IsFreshnessEvidence(r)
  /\ maxAge > 0 /\ checked > 0
  /\ Truncate(r.verification.verified) <= Truncate(checked)

\* Mutant of EvaluateRestoreDrillFreshness: only the check is truncated.
EvaluateFromExactTime(r, maxAge, checked) ==
  LET until == r.verification.verified + maxAge * SecondTicks
  IN  [restore |-> r.id, target |-> r.target, verified |-> r.verification.verified,
       checked |-> Truncate(checked), until |-> until, maxAge |-> maxAge,
       state |-> IF Truncate(checked) < until THEN "FRESH" ELSE "STALE"]

EvaluateRestoreDrillFreshness(r, maxAge, checked) ==
  LET verified == Truncate(r.verification.verified)
      until    == verified + maxAge * SecondTicks
  IN  [restore |-> r.id, target |-> r.target, verified |-> verified,
       checked |-> Truncate(checked), until |-> until, maxAge |-> maxAge,
       state |-> IF Truncate(checked) < until THEN "FRESH" ELSE "STALE"]

-----------------------------------------------------------------------------
(* Evidence bindings *)

CanBind(r, assessment) ==
  /\ CanEvaluate(r, assessment.maxAge, assessment.checked)
  /\ assessment = EvaluateRestoreDrillFreshness(r, assessment.maxAge, assessment.checked)

\* Mutant of BuildRestoreDrillEvidenceBinding: the drill is named, not fixed.
BindToIdentity(r, assessment) ==
  [assessment |-> assessment, restore |-> r.id, scope |-> r.scope, owner |-> r.owner]

BuildRestoreDrillEvidenceBinding(r, assessment) ==
  [assessment |-> assessment, restore |-> r.id, scope |-> r.scope, owner |-> r.owner,
   version |-> r.version, generation |-> r.generation,
   evidence |-> r.verification.evidence, verified |-> assessment.verified]

\* ValidateRestoreDrillEvidenceBindingCurrent accepts the binding.
BindingIsCurrent(r, assessment, binding) ==
  /\ CanBind(r, assessment)
  /\ binding = BuildRestoreDrillEvidenceBinding(r, assessment)

-----------------------------------------------------------------------------
(* Snapshots of the newest drill of a target.  Their fields are those of the *)
(* assessment and of the drill; a snapshot that found none has no drill.     *)

Unverifiable(target, maxAge, checked) ==
  [target |-> target, checked |-> Truncate(checked), maxAge |-> maxAge,
   state |-> "UNVERIFIABLE", restore |-> NoID, version |-> 0, generation |-> 0,
   verified |-> 0, until |-> 0, evidence |-> {}]

\* Drills verified after the check do not count; the order of identifiers
\* breaks ties.
Newest(restores, target, checked) ==
  LET evidence == {r \in restores :
                     /\ r.target = target
                     /\ IsFreshnessEvidence(r)
                     /\ Truncate(r.verification.verified) <= Truncate(checked)}
  IN  {r \in evidence :
         \A s \in evidence :
           \/ Truncate(s.verification.verified) < Truncate(r.verification.verified)
           \/ /\ Truncate(s.verification.verified) = Truncate(r.verification.verified)
              /\ Rank[r.id] <= Rank[s.id]}

ReadLatestRestoreDrillFreshnessSnapshot(restores, target, maxAge, checked) ==
  IF Newest(restores, target, checked) = {}
  THEN Unverifiable(target, maxAge, checked)
  ELSE LET r == CHOOSE x \in Newest(restores, target, checked) : TRUE
           a == EvaluateRestoreDrillFreshness(r, maxAge, checked)
       IN  [target |-> target, checked |-> a.checked, maxAge |-> maxAge,
            state |-> a.state, restore |-> r.id, version |-> r.version,
            generation |-> r.generation, verified |-> a.verified, until |-> a.until,
            evidence |-> r.verification.evidence]

ValidateRestoreDrillFreshnessSnapshot(s) ==
  /\ validateObjectReference(s.target)
  /\ s.maxAge > 0 /\ s.checked > 0 /\ s.checked = Truncate(s.checked)
  /\ \/ s = Unverifiable(s.target, s.maxAge, s.checked)
     \/ /\ validateIdentifier(s.restore) /\ s.version > 0 /\ s.generation > 0
        /\ s.verified > 0 /\ s.verified = Truncate(s.verified)
        /\ s.verified <= s.checked
        /\ s.until = s.verified + s.maxAge * SecondTicks
        /\ s.state = IF s.checked < s.until THEN "FRESH" ELSE "STALE"

\* The snapshot is what reading one drill, or all of them, gives again.
SnapshotIsCurrent(r, s) ==
  /\ ValidateRestoreDrillFreshnessSnapshot(s)
  /\ s.state /= "UNVERIFIABLE"
  /\ s = ReadLatestRestoreDrillFreshnessSnapshot({r}, s.target, s.maxAge, s.checked)

SnapshotIsLatest(restores, s) ==
  /\ ValidateRestoreDrillFreshnessSnapshot(s)
  /\ s = ReadLatestRestoreDrillFreshnessSnapshot(restores, s.target, s.maxAge, s.checked)
=============================================================================
