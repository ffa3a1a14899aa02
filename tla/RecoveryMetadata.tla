-------------------------- MODULE RecoveryMetadata --------------------------
(***************************************************************************)
(* The records of the recovery catalogue, what makes each one valid        *)
(* (src/internal/recovery/validation.go) and what makes them fit together  *)
(* (integrity.go).                                                         *)
(*                                                                         *)
(* A record is an envelope of ObjectMetadata with the fields of its type.  *)
(* Absent times are 0, absent identifiers NoID; lists that must not hold   *)
(* an element twice are sets, an optional part is a set of one or none.    *)
(* Messages, digests, the keys of artifacts, the consistency level of a    *)
(* point and the time zone of a timestamp are not represented; versions    *)
(* and log positions are numbers, and a failure is present or absent.      *)
(*                                                                         *)
(* A graph is a record of the sets points, backups, restores and           *)
(* objectives: a complete snapshot.  Time has SecondTicks ticks to the     *)
(* second.                                                                 *)
(***************************************************************************)
EXTENDS ObjectMetadata, FiniteSets, Integers

CONSTANT SecondTicks

ASSUME SecondAssumption == SecondTicks \in Nat \ {0}

Kinds == {"NODE", "SERVICE", "DATABASE", "CONFIGURATION", "USER", "GROUP",
          "POLICY", "APPLICATION", "SITE", "CONTROL_PLANE"}

ProviderCapabilities ==
  {"BACKUP", "RESTORE", "BASE_BACKUP", "WAL_ARCHIVE", "PITR", "SNAPSHOT",
   "OBJECT_VERSION", "OBJECT_RESTORE", "RESTORE_DRILL", "FENCING"}

EvidenceKinds == {"CHECKSUM", "PROVIDER_LOG", "RESTORE_DRILL",
                  "FUNCTIONAL_TEST", "FENCING_CONFIRMATION"}

\* An optional time lies between two others.
Within(t, low, high) == t = 0 \/ (low <= t /\ t <= high)

-----------------------------------------------------------------------------
(* The parts of records *)

validateObjectReference(o) ==
  /\ o.kind \in Kinds
  /\ validateIdentifier(o.id) /\ validateIdentifier(o.scope)
  /\ o.state \in {"STATELESS", "STATEFUL"}

validateObjectReferences(os) ==
  /\ os /= {}
  /\ \A o \in os : validateObjectReference(o)
  /\ \A o, p \in os :
       <<o.kind, o.scope, o.id>> = <<p.kind, p.scope, p.id>> => o = p

validateObjectReferenceScopes(os, scope) == \A o \in os : o.scope = scope

validateIDSet(ids) == \A id \in ids : validateIdentifier(id)

\* The repository may be left out where none is required.
validateProvider(p, repositoryRequired) ==
  /\ validateIdentifier(p.provider) /\ validateIdentifier(p.adapter)
  /\ p.version > 0
  /\ repositoryRequired => validateIdentifier(p.repository)
  /\ p.capabilities /= {} /\ p.capabilities \subseteq ProviderCapabilities

validateArtifact(a, repository) ==
  /\ validateIdentifier(a.repository) /\ a.repository = repository
  /\ a.size > 0
  /\ a.encryption \in {"NONE", "PROVIDER_MANAGED", "CUSTOMER_MANAGED"}
  /\ (a.encryption = "CUSTOMER_MANAGED") <=> validateIdentifier(a.encryptionKey)

validatePITR(w) ==
  /\ w.timeline > 0
  /\ w.startLSN < w.endLSN
  /\ 0 < w.earliest /\ w.earliest <= w.latest

validateEvidence(es) ==
  /\ \A e \in es : /\ validateIdentifier(e.id)
                   /\ e.kind \in EvidenceKinds
                   /\ e.recorded > 0
  /\ \A e, f \in es : e.id = f.id => e = f

containsEvidenceKind(es, kind) == \E e \in es : e.kind = kind

RecordedBy(es, t) == \A e \in es : e.recorded <= t

-----------------------------------------------------------------------------
(* Recovery points *)

\* The expiry is a matter of the state: it has passed exactly when the point
\* is marked EXPIRED.
ValidateRecoveryPoint(p) ==
  /\ ValidateMetadata(p)
  /\ p.state \in {"CREATING", "READY", "PARTIAL", "FAILED", "EXPIRED"}
  /\ p.trigger \in {"MANUAL", "SCHEDULED", "PRE_CHANGE", "PRE_DESTRUCTIVE"}
  /\ validateObjectReferences(p.objects)
  /\ validateObjectReferenceScopes(p.objects, p.scope)
  /\ validateIDSet(p.backups)
  /\ p.trigger \in {"PRE_CHANGE", "PRE_DESTRUCTIVE"} => validateIdentifier(p.change)
  /\ p.expires /= 0 => p.expires > p.created
  /\ CASE p.state = "CREATING" -> ~ p.failure
       [] p.state = "READY"    -> p.backups /= {} /\ ~ p.failure
       [] p.state = "PARTIAL"  -> p.backups /= {} /\ p.failure
       [] p.state = "FAILED"   -> p.backups = {} /\ p.failure
       [] p.state = "EXPIRED"  -> p.expires /= 0 /\ p.expires <= p.updated
  /\ p.state /= "EXPIRED" /\ p.expires /= 0 => p.expires > p.updated

-----------------------------------------------------------------------------
(* Backups *)

validateBackupModeMetadata(b) ==
  /\ IF b.mode \in {"INCREMENTAL", "DIFFERENTIAL"}
     THEN validateIdentifier(b.parent) /\ b.parent /= b.id
     ELSE b.parent = NoID
  /\ (b.mode = "BASE_WAL") <=> b.pitr /= {}
  /\ b.mode = "BASE_WAL" =>
       {"BASE_BACKUP", "WAL_ARCHIVE", "PITR"} \subseteq b.provider.capabilities
  /\ b.mode = "SNAPSHOT" => "SNAPSHOT" \in b.provider.capabilities
  /\ b.mode = "OBJECT_VERSION" => "OBJECT_VERSION" \in b.provider.capabilities

validateBackupHealth(h, backupState) ==
  LET captured == backupState \in {"COMPLETED", "EXPIRED", "DELETED"}
      noProof  == h.verified = 0 /\ h.restore = NoID /\ h.evidence = {}
      proof    == /\ h.verified /= 0 /\ validateIdentifier(h.restore)
                  /\ containsEvidenceKind(h.evidence, "RESTORE_DRILL")
  IN  /\ validateEvidence(h.evidence)
      /\ \/ h.state = "UNKNOWN" /\ backupState \in {"PLANNED", "RUNNING"} /\ noProof
         \/ h.state = "UNVERIFIED" /\ captured /\ noProof
         \/ /\ h.state = "VERIFIED" /\ captured /\ proof
            /\ containsEvidenceKind(h.evidence, "FUNCTIONAL_TEST")
         \/ h.state = "DEGRADED" /\ captured /\ proof
         \/ h.state = "FAILED" /\ backupState = "FAILED" /\ noProof
      /\ h.verified /= 0 => RecordedBy(h.evidence, h.verified)

ValidateBackupMetadata(b) ==
  LET ran  == b.started /= 0 /\ b.captured /= 0 /\ b.completed /= 0
      done == b.provider.operation /= NoID /\ ~ b.failure
      stored == b.artifact /= {}
  IN  /\ ValidateMetadata(b)
      /\ validateIdentifier(b.point)
      /\ validateObjectReference(b.target) /\ b.target.scope = b.scope
      /\ b.mode \in {"FULL", "INCREMENTAL", "DIFFERENTIAL", "SNAPSHOT", "BASE_WAL",
                     "OBJECT_VERSION"}
      /\ validateProvider(b.provider, TRUE) /\ "BACKUP" \in b.provider.capabilities
      /\ validateBackupModeMetadata(b)
      /\ \A a \in b.artifact : validateArtifact(a, b.provider.repository)
      /\ \A w \in b.pitr : validatePITR(w)
      /\ 0 < b.requested /\ b.requested <= b.updated
      /\ Within(b.started, b.requested, b.updated)
      /\ b.captured /= 0 => b.started /= 0
      /\ Within(b.captured, b.started, b.updated)
      /\ Within(b.completed, b.requested, b.updated)
      /\ Within(b.completed, b.started, b.updated)
      /\ Within(b.completed, b.captured, b.updated)
      /\ validateBackupHealth(b.health, b.state)
      /\ Within(b.health.verified, b.completed, b.updated)
      /\ \A e \in b.health.evidence : Within(e.recorded, b.completed, b.updated)
      /\ CASE b.state = "PLANNED" ->
                /\ b.started = 0 /\ b.captured = 0 /\ b.completed = 0
                /\ ~ stored /\ ~ b.failure /\ b.provider.operation = NoID
           [] b.state = "RUNNING" ->
                b.started /= 0 /\ b.completed = 0 /\ ~ stored /\ done
           [] b.state = "COMPLETED" -> ran /\ stored /\ done
           [] b.state = "FAILED" ->
                /\ b.completed /= 0 /\ ~ stored /\ b.failure
                /\ b.provider.operation /= NoID /\ b.health.state = "FAILED"
           [] b.state = "EXPIRED" -> ran /\ stored /\ done
           [] b.state = "DELETED" -> ran /\ ~ stored /\ done
           [] OTHER -> FALSE
-----------------------------------------------------------------------------
(* Restores *)

validateRestoreModeMetadata(r) ==
  /\ IF r.mode = "OBJECT_LEVEL"
     THEN /\ validateObjectReferences(r.objects)
          /\ "OBJECT_RESTORE" \in r.provider.capabilities
     ELSE r.objects = {}
  /\ (r.mode = "PITR") <=> r.pitrTarget /= 0
  /\ r.mode = "PITR" => "PITR" \in r.provider.capabilities
  /\ r.mode = "ISOLATED_DRILL" => "RESTORE_DRILL" \in r.provider.capabilities

\* A fence is planned, confirmed by its provider with evidence, or has failed.
validateFencing(f) ==
  LET operation == \E p \in f.provider : p.operation /= NoID
      planned   == f.targets /= {} /\ f.epoch > 0 /\ f.provider /= {}
  IN  /\ validateIDSet(f.targets)
      /\ validateEvidence(f.evidence)
      /\ \A p \in f.provider :
           validateProvider(p, FALSE) /\ "FENCING" \in p.capabilities
      /\ \/ /\ f.state = "NOT_REQUIRED"
            /\ f.targets = {} /\ f.epoch = 0 /\ f.provider = {}
            /\ f.confirmed = 0 /\ f.evidence = {} /\ ~ f.failure
         \/ /\ f.state = "REQUIRED"
            /\ planned /\ ~ operation
            /\ f.confirmed = 0 /\ f.evidence = {} /\ ~ f.failure
         \/ /\ f.state = "CONFIRMED"
            /\ planned /\ operation
            /\ f.confirmed /= 0 /\ RecordedBy(f.evidence, f.confirmed)
            /\ containsEvidenceKind(f.evidence, "FENCING_CONFIRMATION")
            /\ ~ f.failure
         \/ /\ f.state = "FAILED"
            /\ planned /\ operation
            /\ f.confirmed = 0 /\ f.failure

\* Mutant of validateRestoreFencingContext: a plan of the fence is enough.
FencePlanned(r) ==
  IF r.target.state = "STATEFUL" /\ r.mode \in {"IN_PLACE", "PITR"}
  THEN r.fencing.state /= "NOT_REQUIRED"
  ELSE r.fencing.state = "NOT_REQUIRED"

\* What overwrites state in place is fenced, and before it starts.
validateRestoreFencingContext(r) ==
  IF r.target.state = "STATEFUL" /\ r.mode \in {"IN_PLACE", "PITR"}
  THEN \/ /\ r.state = "PLANNED" \/ (r.state = "CANCELLED" /\ r.started = 0)
          /\ r.fencing.state \in {"REQUIRED", "CONFIRMED"}
       \/ /\ r.state = "FAILED" /\ r.fencing.state = "FAILED"
          /\ r.started = 0 /\ r.provider.operation = NoID
          /\ r.verification.outcome = "PENDING"
       \/ /\ ~ (r.state = "PLANNED" \/ (r.state = "CANCELLED" /\ r.started = 0))
          /\ r.fencing.state = "CONFIRMED"
  ELSE r.fencing.state = "NOT_REQUIRED"

validateRestoreVerification(v) ==
  /\ validateEvidence(v.evidence)
  /\ \/ v.outcome = "PENDING" /\ v.verified = 0 /\ v.evidence = {}
     \/ /\ v.outcome \in {"PASSED", "FAILED"}
        /\ v.verified /= 0 /\ v.evidence /= {}
        /\ RecordedBy(v.evidence, v.verified)

ValidateRestoreMetadata(r) ==
  LET begun  == IF r.started = 0 THEN r.requested ELSE r.started
      active == r.started /= 0 /\ r.provider.operation /= NoID
      v      == r.verification
  IN  /\ ValidateMetadata(r)
      /\ validateIdentifier(r.point)
      /\ r.backups /= {} /\ validateIDSet(r.backups)
      /\ r.mode \in {"IN_PLACE", "ALTERNATE_TARGET", "ISOLATED_DRILL", "OBJECT_LEVEL",
                     "PITR"}
      /\ validateObjectReference(r.target) /\ r.target.scope = r.scope
      /\ validateObjectReferenceScopes(r.objects, r.scope)
      /\ validateProvider(r.provider, TRUE) /\ "RESTORE" \in r.provider.capabilities
      /\ validateRestoreModeMetadata(r)
      /\ validateFencing(r.fencing)
      /\ 0 < r.requested /\ r.requested <= r.updated
      /\ Within(r.started, r.requested, r.updated)
      /\ r.started /= 0 => r.provider.operation /= NoID
      /\ r.pitrTarget <= r.requested
      /\ Within(r.fencing.confirmed, r.requested,
                IF r.started = 0 THEN r.updated ELSE r.started)
      /\ \A e \in r.fencing.evidence : Within(e.recorded, r.requested, r.updated)
      /\ Within(r.completed, begun, r.updated)
      /\ Within(v.verified, begun, r.updated)
      /\ RecordedBy(v.evidence, r.updated)
      /\ validateRestoreVerification(v)
      /\ v.outcome /= "PENDING" => r.started /= 0
      /\ validateRestoreFencingContext(r)
      /\ CASE r.state = "PLANNED" ->
                /\ r.started = 0 /\ r.completed = 0 /\ r.provider.operation = NoID
                /\ v.outcome = "PENDING" /\ ~ r.failure
           [] r.state \in {"RUNNING", "VERIFYING"} ->
                active /\ r.completed = 0 /\ v.outcome = "PENDING" /\ ~ r.failure
           [] r.state = "SUCCEEDED" ->
                active /\ r.completed /= 0 /\ v.outcome = "PASSED" /\ ~ r.failure
           [] r.state = "FAILED" ->
                /\ r.completed /= 0 /\ v.outcome /= "PASSED" /\ r.failure
                /\ r.provider.operation /= NoID \/ r.fencing.state = "FAILED"
           [] r.state = "CANCELLED" ->
                /\ r.completed /= 0 /\ v.outcome = "PENDING" /\ ~ r.failure
                /\ (r.started /= 0) <=> (r.provider.operation /= NoID)
           [] OTHER -> FALSE
      /\ r.completed /= 0 => v.verified <= r.completed
      /\ r.state = "SUCCEEDED" /\ r.mode = "ISOLATED_DRILL" =>
           /\ containsEvidenceKind(v.evidence, "RESTORE_DRILL")
           /\ containsEvidenceKind(v.evidence, "FUNCTIONAL_TEST")

-----------------------------------------------------------------------------
(* Objective evidence; an observation that was not made is NotObserved. *)

NotObserved == 1000000

ValidateRecoveryObjectiveEvidence(o) ==
  LET exceeds == \/ o.observedRPO /= NotObserved /\ o.observedRPO > o.targetRPO
                 \/ o.observedRTO /= NotObserved /\ o.observedRTO > o.targetRTO
  IN  /\ ValidateMetadata(o)
      /\ validateIDSet({o.policy, o.point, o.restore})
      /\ validateObjectReference(o.target) /\ o.target.scope = o.scope
      /\ o.targetRPO > 0 /\ o.targetRTO > 0
      /\ 0 < o.measured /\ o.measured <= o.updated
      /\ validateEvidence(o.evidence) /\ RecordedBy(o.evidence, o.measured)
      /\ containsEvidenceKind(o.evidence, "RESTORE_DRILL")
      /\ \/ /\ o.result = "PASSED"
            /\ o.observedRPO <= o.targetRPO /\ o.observedRTO <= o.targetRTO
            /\ ~ o.reason
            /\ containsEvidenceKind(o.evidence, "FUNCTIONAL_TEST")
         \/ /\ o.result = "FAILED"
            /\ exceeds \/ o.reason

-----------------------------------------------------------------------------
(* The graph *)

\* The record that has an identifier, among those of a type.
Find(records, id) == CHOOSE x \in records : x.id = id

Known(records, id) == \E x \in records : x.id = id

LinkedOwnership(x, y) == x.scope = y.scope /\ x.owner = y.owner

SameProviderStorage(p, q) ==
  <<p.provider, p.adapter, p.version, p.repository>>
    = <<q.provider, q.adapter, q.version, q.repository>>

SuccessfulBackupStates == {"COMPLETED", "EXPIRED", "DELETED"}

ReferencedBackupStates(pointState) ==
  CASE pointState \in {"CREATING", "READY", "PARTIAL"} -> {"COMPLETED"}
    [] pointState = "EXPIRED" -> SuccessfulBackupStates
    [] OTHER -> {}

Available(b) ==
  b.state \in {"COMPLETED", "EXPIRED"} /\ b.artifact /= {} /\ b.completed /= 0

\* Every use of a provider operation in the graph, told apart by its place.
ProviderOperations(g) ==
  {<<x.id, "provider", x.provider>> : x \in g.backups \cup g.restores} \cup
  UNION {{<<r.id, "fencing", p>> : p \in r.fencing.provider} : r \in g.restores}

\* Where evidence comes from: a restore and one of its two channels.
EvidenceOrigins(g) ==
  UNION {{<<r.id, "verification", e>> : e \in r.verification.evidence} \cup
         {<<r.id, "fencing", e>> : e \in r.fencing.evidence} : r \in g.restores}

Identifiers(records) == {x.id : x \in records}

\* No identifier, provider operation, artifact or evidence is claimed twice.
UniqueClaims(g) ==
  /\ Cardinality(g.points) + Cardinality(g.backups) + Cardinality(g.restores)
       + Cardinality(g.objectives)
     = Cardinality(Identifiers(g.points) \cup Identifiers(g.backups)
                   \cup Identifiers(g.restores) \cup Identifiers(g.objectives))
  /\ \A u, w \in ProviderOperations(g) :
       /\ u[3].operation /= NoID
       /\ <<u[3].provider, u[3].adapter, u[3].operation>>
            = <<w[3].provider, w[3].adapter, w[3].operation>>
       => u = w
  /\ \A b, c \in g.backups : \A x \in b.artifact, y \in c.artifact :
       x.repository = y.repository /\ x.key = y.key => b = c
  /\ \A u, w \in EvidenceOrigins(g) : u[3].id = w[3].id => u = w

validateRecoveryPointLinks(g) ==
  /\ \A p \in g.points :
       /\ \A id \in p.backups :
            /\ Known(g.backups, id)
            /\ LET b == Find(g.backups, id)
               IN  /\ b.point = p.id
                   /\ LinkedOwnership(p, b)
                   /\ b.target \in p.objects
                   /\ b.state \in ReferencedBackupStates(p.state)
                   /\ b.requested >= p.created
                   /\ p.state \in {"READY", "PARTIAL", "EXPIRED"} =>
                        b.completed <= p.updated
       /\ p.state = "READY" =>
            \A o \in p.objects :
              \E id \in p.backups : Find(g.backups, id).target = o
  /\ \A b \in g.backups :
       /\ Known(g.points, b.point)
       /\ LET p == Find(g.points, b.point)
          IN  /\ LinkedOwnership(b, p)
              /\ b.target \in p.objects
              /\ b.requested >= p.created /\ b.created >= p.created
              /\ (b.id \in p.backups) <=> (b.state \in SuccessfulBackupStates)
              /\ b.state \in {"PLANNED", "RUNNING"} => p.state = "CREATING"
              /\ b.state = "FAILED" => p.state \in {"CREATING", "PARTIAL", "FAILED"}

\* No backup is reached again through the parents, and none is missing there.
validateBackupParentCycles(backups) ==
  LET Parents(ids) == {b.parent : b \in {c \in backups : c.id \in ids}} \ {NoID}
      above[n \in 0 .. Cardinality(backups), id \in {b.id : b \in backups}] ==
        IF n = 0 THEN {id} ELSE Parents(above[n - 1, id])
  IN  /\ \A b \in backups : b.parent /= NoID => Known(backups, b.parent)
      /\ \A b \in backups, n \in 1 .. Cardinality(backups) : b.id \notin above[n, b.id]

\* Mutant of validateBackupParentLinks: whether the parent is still there is
\* not looked at.
ParentOnceCompleted(g) ==
  \A b \in g.backups : b.parent /= NoID =>
    LET parent == Find(g.backups, b.parent)
    IN  parent.target = b.target /\ parent.completed <= b.requested

validateBackupParentLinks(g) ==
  \A b \in g.backups : b.parent /= NoID =>
    LET parent == Find(g.backups, b.parent)
    IN  /\ LinkedOwnership(b, parent)
        /\ parent.target = b.target
        /\ SameProviderStorage(parent.provider, b.provider)
        /\ Available(parent)
        /\ parent.completed <= b.requested
        /\ b.captured /= 0 => parent.captured <= b.captured
        /\ b.mode = "DIFFERENTIAL" => parent.mode = "FULL"
        /\ b.mode = "INCREMENTAL" => parent.mode \in {"FULL", "INCREMENTAL"}

validateRestoreLinks(g) ==
  \A r \in g.restores :
    /\ Known(g.points, r.point)
    /\ LET p       == Find(g.points, r.point)
           Source(id) == Find(g.backups, id)
           sources == {Source(id) : id \in r.backups}
       IN  /\ LinkedOwnership(r, p)
           /\ p.state \notin {"CREATING", "FAILED"}
           /\ r.requested >= p.created /\ r.created >= p.created
           /\ p.expires /= 0 => r.requested < p.expires
           /\ \A id \in r.backups :
                /\ Known(g.backups, id)
                /\ Source(id).point = p.id /\ id \in p.backups
                /\ LinkedOwnership(r, Source(id))
                /\ Available(Source(id))
                /\ Source(id).completed <= r.requested
                /\ SameProviderStorage(Source(id).provider, r.provider)
           /\ IF r.mode \in {"IN_PLACE", "PITR", "OBJECT_LEVEL"}
              THEN r.target \in p.objects /\ \E b \in sources : b.target = r.target
              ELSE \E b \in sources :
                     b.target.kind = r.target.kind /\ b.target.state = r.target.state
           /\ \A o \in r.objects : o \in p.objects /\ \E b \in sources : b.target = o
           /\ r.mode = "PITR" =>
                \E b \in sources :
                  /\ b.mode = "BASE_WAL"
                  /\ \E w \in b.pitr : w.earliest <= r.pitrTarget /\ r.pitrTarget <= w.latest
           /\ r.started /= 0 =>
                \A e \in r.verification.evidence : e.recorded >= r.started

\* Evidence that is cited is, unchanged, what the restore recorded when it was
\* verified.
validateEvidenceConsumers(g, evidence, restore) ==
  \A e \in evidence : <<restore, "verification", e>> \in EvidenceOrigins(g)

CompletedDrill(r) ==
  r.mode = "ISOLATED_DRILL" /\ r.completed /= 0 /\ r.verification.verified /= 0

validateBackupHealthLinks(g) ==
  \A b \in g.backups : b.health.state \in {"VERIFIED", "DEGRADED"} =>
    /\ Known(g.restores, b.health.restore)
    /\ LET r == Find(g.restores, b.health.restore)
       IN  /\ LinkedOwnership(b, r)
           /\ r.point = b.point /\ b.id \in r.backups
           /\ CompletedDrill(r)
           /\ b.health.verified >= r.completed
           /\ b.health.verified >= r.verification.verified
           /\ validateEvidenceConsumers(g, b.health.evidence, r.id)
           /\ IF b.health.state = "VERIFIED"
              THEN r.state = "SUCCEEDED" /\ r.verification.outcome = "PASSED"
              ELSE r.state = "FAILED" /\ r.verification.outcome = "FAILED"

\* Mutant of elapsedSecondsCeiling: whole seconds are subtracted.
elapsedSeconds(start, end) == (end \div SecondTicks) - (start \div SecondTicks)

\* Seconds of clock time, one more when a part of a second has gone by.
elapsedSecondsCeiling(start, end) ==
  (end \div SecondTicks) - (start \div SecondTicks)
    + (IF end % SecondTicks > start % SecondTicks THEN 1 ELSE 0)

validateObjectiveLinks(g) ==
  \A o \in g.objectives :
    /\ Known(g.points, o.point) /\ Known(g.restores, o.restore)
    /\ LET p == Find(g.points, o.point)
           r == Find(g.restores, o.restore)
       IN  /\ LinkedOwnership(o, p) /\ LinkedOwnership(o, r)
           /\ r.point = p.id
           /\ CompletedDrill(r)
           /\ o.target \in p.objects
           /\ \/ \E id \in r.backups : Find(g.backups, id).target = o.target
              \/ o.target \in r.objects
           /\ o.measured >= r.completed /\ o.measured >= r.verification.verified
           /\ o.created >= o.measured
           /\ validateEvidenceConsumers(g, o.evidence, r.id)
           /\ o.result = "PASSED" =>
                r.state = "SUCCEEDED" /\ r.verification.outcome = "PASSED"
           /\ o.result = "FAILED" => r.state \in {"SUCCEEDED", "FAILED"}
           /\ r.started /= 0 =>
                o.observedRTO >= elapsedSecondsCeiling(r.started, r.completed)

ValidateRecoveryMetadataGraph(g) ==
  /\ \A p \in g.points : ValidateRecoveryPoint(p)
  /\ \A b \in g.backups : ValidateBackupMetadata(b)
  /\ \A r \in g.restores : ValidateRestoreMetadata(r)
  /\ \A o \in g.objectives : ValidateRecoveryObjectiveEvidence(o)
  /\ UniqueClaims(g)
  /\ validateRecoveryPointLinks(g)
  /\ validateBackupParentCycles(g.backups)
  /\ validateBackupParentLinks(g)
  /\ validateRestoreLinks(g)
  /\ validateBackupHealthLinks(g)
  /\ validateObjectiveLinks(g)
=============================================================================
