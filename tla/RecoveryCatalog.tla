--------------------------- MODULE RecoveryCatalog --------------------------
(***************************************************************************)
(* A recovery catalogue over time.  src/internal/recovery decides which    *)
(* records are valid, alone (on decoding) and together, and computes the   *)
(* transitions of drills and the projections of a catalogue; who writes    *)
(* the records is outside the repository.  Here writers store any record   *)
(* of a small repertoire that decodes, one at a time, and readers compute  *)
(* what the package computes.                                              *)
(*                                                                         *)
(* A history is one of four.  "capture" starts with an empty recovery      *)
(* point, of which one backup builds on one of an older point, and has one *)
(* drill; the others start with a point that is ready:                     *)
(* "plan" has a drill that is amended, planned and measured, "drill" has   *)
(* two drills, "restore" has a restore that overwrites.                    *)
(***************************************************************************)
EXTENDS RestoreDrill, RecoveryPath, TLC

CONSTANTS StartTime,   \* the clock starts
          MaxTime,     \* the clock stops
          LastRequest, \* the time of the last request for a restore
          MaxAge,      \* the age, in seconds, a verification may have
          MaxVersion   \* the writes of one restore

VARIABLES history,   \* which history this is
          clock,     \* the time, in ticks
          catalog,   \* the stored records
          registry,  \* the registered adapters
          plan,      \* the plans of drills that were built
          started,   \* drills that were started, with what they were planned to be
          snapshot   \* snapshots that were kept, with the time each was read

recoveryVars == <<history, clock, catalog, registry, plan, started, snapshot>>

-----------------------------------------------------------------------------
(* The repertoire *)

Envelope(id, t) ==
  [id |-> id, scope |-> "site", owner |-> "team", generation |-> 1, version |-> 1,
   created |-> t, updated |-> t]

Database == [kind |-> "DATABASE", id |-> "db", scope |-> "site", state |-> "STATEFUL"]

Provider == [provider |-> "pv", adapter |-> "ad", version |-> 1, repository |-> "repo",
             operation |-> NoID,
             capabilities |-> {"BACKUP", "RESTORE", "RESTORE_DRILL", "PITR",
                               "BASE_BACKUP", "WAL_ARCHIVE"}]

Artifact(id) == {[key |-> id, repository |-> "repo", size |-> 1, encryption |-> "NONE",
                  encryptionKey |-> NoID]}

NoHealth(state) == [state |-> state, verified |-> 0, restore |-> NoID, evidence |-> {}]

NewPoint(id, t, expires) ==
  [state |-> "CREATING", trigger |-> "PRE_CHANGE", objects |-> {Database},
   backups |-> {}, change |-> "c1", expires |-> expires, failure |-> FALSE]
  @@ Envelope(id, t)

Modes == [b0 |-> "FULL", b1 |-> "FULL", b2 |-> "INCREMENTAL", b3 |-> "BASE_WAL"]

Parents == [b0 |-> NoID, b1 |-> NoID, b2 |-> "b0", b3 |-> NoID]

PointOf == [b0 |-> "p0", b1 |-> "p1", b2 |-> "p1", b3 |-> "p1"]

NewBackup(id, t) ==
  [point |-> PointOf[id], target |-> Database, mode |-> Modes[id], state |-> "PLANNED",
   parent |-> Parents[id], provider |-> Provider, artifact |-> {},
   pitr |-> IF Modes[id] = "BASE_WAL"
            THEN {[timeline |-> 1, startLSN |-> 1, endLSN |-> 2, earliest |-> t,
                   latest |-> t]}
            ELSE {},
   requested |-> t, started |-> 0, captured |-> 0, completed |-> 0,
   health |-> NoHealth("UNKNOWN"), failure |-> FALSE]
  @@ Envelope(id, t)

NotFenced == [state |-> "NOT_REQUIRED", targets |-> {}, epoch |-> 0, provider |-> {},
              confirmed |-> 0, evidence |-> {}, failure |-> FALSE]

Pending == [outcome |-> "PENDING", verified |-> 0, evidence |-> {}]

NewRestore(id, mode, backups, t) ==
  [point |-> "p1", backups |-> backups, mode |-> mode, state |-> "PLANNED",
   target |-> Database, objects |-> {}, provider |-> Provider,
   pitrTarget |-> IF mode = "PITR" THEN 1 ELSE 0,
   fencing |-> NotFenced, requested |-> t, started |-> 0, completed |-> 0,
   verification |-> Pending, failure |-> FALSE]
  @@ Envelope(id, t)

EvidenceIDs ==
  [r1 |-> [RESTORE_DRILL |-> "r1d", FUNCTIONAL_TEST |-> "r1t"],
   r2 |-> [RESTORE_DRILL |-> "r2d", FUNCTIONAL_TEST |-> "r2t"],
   x1 |-> [RESTORE_DRILL |-> "x1d", FUNCTIONAL_TEST |-> "x1t"]]

\* The evidence of a drill: of the restore, and of the functional test.
Evidence(id, tested, t) ==
  {[id |-> EvidenceIDs[id][k], kind |-> k, recorded |-> t] :
     k \in IF tested THEN {"RESTORE_DRILL", "FUNCTIONAL_TEST"} ELSE {"RESTORE_DRILL"}}

\* Only the version of a restore is ever compared: others keep theirs.
Written(x) == [x EXCEPT !.updated = clock]

Rewritten(r) == [Written(r) EXCEPT !.version = @ + 1]

Put(records, x) == {y \in records : y.id /= x.id} \cup {x}

\* A point that became ready with its backups, at time 1.
CompletedBackup(id) ==
  [NewBackup(id, 1) EXCEPT !.state = "COMPLETED", !.artifact = Artifact(id),
     !.started = 1, !.captured = 1, !.completed = 1,
     !.provider.operation = id, !.health = NoHealth("UNVERIFIED")]

ReadyPoint(id, expires, ids) ==
  [NewPoint(id, 1, expires) EXCEPT !.state = "READY", !.backups = ids]

OlderCatalog ==
  [points |-> {ReadyPoint("p0", StartTime + 1, {"b0"}), NewPoint("p1", 1, MaxTime)},
   backups |-> {CompletedBackup("b0")}, restores |-> {}, objectives |-> {}]

ReadyCatalog(ids) ==
  [points |-> {ReadyPoint("p1", 0, ids)},
   backups |-> {CompletedBackup(id) : id \in ids}, restores |-> {}, objectives |-> {}]

Adapter(capabilities) ==
  [adapter |-> "ad", version |-> 1, providers |-> {"pv"}, capabilities |-> capabilities]

InitRecovery ==
  /\ \/ history = "capture" /\ catalog = OlderCatalog
     \/ history = "drill" /\ catalog = ReadyCatalog({"b1"})
     \/ history \in {"plan", "restore"} /\ catalog = ReadyCatalog({"b1", "b3"})
  /\ clock = StartTime
  /\ registry = IF history = "plan" THEN {} ELSE {Adapter(Provider.capabilities)}
  /\ plan = {} /\ started = {} /\ snapshot = {}

-----------------------------------------------------------------------------
(* Writers *)

Point == Find(catalog.points, "p1")

Backups == {b.id : b \in {c \in catalog.backups : c.point = "p1"}}

StoreBackup(b) ==
  /\ ValidateBackupMetadata(b)
  /\ catalog' = [catalog EXCEPT !.backups = Put(@, b)]
  /\ UNCHANGED <<history, clock, registry, plan, started, snapshot>>

StoreRestore(r) ==
  /\ ValidateRestoreMetadata(r) /\ r.version <= MaxVersion
  /\ catalog' = [catalog EXCEPT !.restores = Put(@, r)]
  /\ UNCHANGED <<history, clock, registry, snapshot>>

RequestBackup(id) ==
  /\ history = "capture" /\ clock = StartTime
  /\ Point.state = "CREATING" /\ ~ Known(catalog.backups, id)
  /\ StoreBackup(NewBackup(id, clock))

RunBackup(b) ==
  /\ b.state = "PLANNED"
  /\ StoreBackup([Written(b) EXCEPT !.state = "RUNNING", !.started = clock,
                                    !.provider.operation = b.id])

FinishBackup(b, succeeded) ==
  /\ b.state = "RUNNING"
  /\ StoreBackup(
       IF succeeded
       THEN [Written(b) EXCEPT !.state = "COMPLETED", !.captured = clock,
               !.completed = clock, !.artifact = Artifact(b.id),
               !.health = NoHealth("UNVERIFIED")]
       ELSE [Written(b) EXCEPT !.state = "FAILED", !.completed = clock,
               !.failure = TRUE, !.health = NoHealth("FAILED")])

\* The provider drops an artifact when retention asks for it, whatever else
\* still depends on it; here one artifact, once a drill has ended:
\* a bound.
RetireBackup(b, state) ==
  /\ history = "capture" /\ b.state = "COMPLETED"
  /\ \A c \in catalog.backups : c.state \notin {"EXPIRED", "DELETED"}
  /\ \E r \in catalog.restores : r.completed /= 0
  /\ StoreBackup([Written(b) EXCEPT !.state = state,
                    !.artifact = IF state = "DELETED" THEN {} ELSE @])

\* The point follows its backups in a write of its own.  Capture is over when
\* the clock first moves, and a point expires when it is due: two bounds.
StorePoint(point, state) ==
  LET p == [Written(point) EXCEPT
              !.state = state, !.failure = state \in {"PARTIAL", "FAILED"},
              !.backups = {b.id : b \in {c \in catalog.backups :
                                           /\ c.point = point.id
                                           /\ c.state \in SuccessfulBackupStates}}]
  IN  /\ history = "capture" /\ point.state \notin {"FAILED", "EXPIRED"}
      /\ IF state = "EXPIRED" THEN clock = point.expires
         ELSE clock = StartTime /\ point.state = "CREATING"
      /\ p.state /= point.state \/ p.backups /= point.backups
      /\ ValidateRecoveryPoint(p)
      /\ catalog' = [catalog EXCEPT !.points = Put(@, p)]
      /\ UNCHANGED <<history, clock, registry, plan, started, snapshot>>

\* The health of a backup is recorded from a drill, or from what is taken for
\* the evidence of that drill; in the tick of its end: a bound.
RecordHealth(b, r, evidence) ==
  /\ b.health.state = "UNVERIFIED" /\ b.id \in Backups /\ evidence /= {}
  /\ history \in {"capture", "drill"} /\ clock = r.completed
  /\ StoreBackup([Written(b) EXCEPT !.health =
       [state |-> IF r.verification.outcome = "PASSED" THEN "VERIFIED" ELSE "DEGRADED",
        verified |-> clock, restore |-> r.id, evidence |-> evidence]])

\* What a restore took is measured in seconds, against targets.
RecordObjective(r, seconds) ==
  LET o == [policy |-> "policy", point |-> r.point, restore |-> r.id,
            target |-> Database, targetRPO |-> 1, targetRTO |-> seconds,
            observedRPO |-> 1, observedRTO |-> seconds, measured |-> clock,
            result |-> "PASSED", reason |-> FALSE,
            evidence |-> r.verification.evidence]
           @@ Envelope("o1", clock)
  IN  /\ history = "plan" /\ catalog.objectives = {}
      /\ ValidateRecoveryObjectiveEvidence(o)
      /\ catalog' = [catalog EXCEPT !.objectives = {o}]
      /\ UNCHANGED <<history, clock, registry, plan, started, snapshot>>

-----------------------------------------------------------------------------
(* Drills *)

\* Adapters are registered when the program starts, once each.
Register(d) ==
  /\ history = "plan" /\ clock = StartTime /\ CanRegister(registry, d)
  /\ registry' = registry \cup {d}
  /\ UNCHANGED <<history, clock, catalog, plan, started, snapshot>>

RequestDrill(id, backups) ==
  /\ history /= "restore" /\ clock <= LastRequest
  /\ Point.state /= "CREATING" /\ ~ Known(catalog.restores, id)
  /\ StoreRestore(NewRestore(id, "ISOLATED_DRILL", backups, clock))
  /\ UNCHANGED <<plan, started>>

\* The request is changed before the drill starts.
AmendDrill(r, backups) ==
  /\ history = "plan" /\ r.state = "PLANNED" /\ r.backups /= backups
  /\ StoreRestore([Rewritten(r) EXCEPT !.backups = backups])
  /\ UNCHANGED <<plan, started>>

BuildRestoreDrillPlan(r) ==
  /\ CanPlan(registry, r, clock)
  /\ restoreDrillPlanID(registry, r) \notin plan
  /\ plan' = plan \cup {restoreDrillPlanID(registry, r)}
  /\ UNCHANGED <<history, clock, catalog, registry, started, snapshot>>

\* The request for a transition is made by who read the record: the version of
\* it the plan was built on, or the current one.
ApplyRestoreDrillTransition(r, q) ==
  /\ CanTransition(registry, r, q, r.version + 1)
  /\ StoreRestore(Successor(r, q, r.version + 1))

Request(r, to, version, evidence) ==
  [to |-> to, precondition |-> [id |-> r.id, version |-> version, generation |-> 0],
   occurred |-> clock, operation |-> IF to = "RUNNING" THEN r.id ELSE NoID,
   evidence |-> evidence, failure |-> to = "FAILED"]

StartDrill(r, planned) ==
  /\ planned.restore = r.id
  /\ ApplyRestoreDrillTransition(r, Request(r, "RUNNING", planned.version, {}))
  /\ started' = started \cup {planned}
  /\ UNCHANGED plan

StepDrill(r, to, evidence) ==
  /\ to /= "RUNNING"
  /\ ApplyRestoreDrillTransition(r, Request(r, to, r.version, evidence))
  /\ UNCHANGED <<plan, started>>

\* One snapshot is read and kept, with a binding to its drill, once a drill has
\* ended: a bound.
KeepSnapshot ==
  /\ history = "drill" /\ snapshot = {}
  /\ \E r \in catalog.restores : r.completed /= 0
  /\ snapshot' =
       {[read |-> clock,
         is |-> ReadLatestRestoreDrillFreshnessSnapshot(
                  catalog.restores, Database, MaxAge, clock),
         bound |-> LET Assessed(r) == EvaluateRestoreDrillFreshness(r, MaxAge, clock)
                   IN  {[drill |-> r, assessment |-> Assessed(r),
                         binding |-> BuildRestoreDrillEvidenceBinding(r, Assessed(r))] :
                          r \in {n \in Newest(catalog.restores, Database, clock) :
                                   CanBind(n, Assessed(n))}}]}
  /\ UNCHANGED <<history, clock, catalog, registry, plan, started>>

\* A writer replaces the evidence of a drill that has succeeded; here, of one a
\* snapshot was kept of: a bound.
RewriteDrill(r) ==
  /\ \E s \in snapshot : \E k \in s.bound : k.drill = r
  /\ StoreRestore([Rewritten(r) EXCEPT !.verification.evidence =
       @ \cup {[id |-> "sum", kind |-> "CHECKSUM", recorded |-> r.completed]}])
  /\ UNCHANGED <<plan, started>>

-----------------------------------------------------------------------------
(* Restores that overwrite *)

RequestRestore(mode) ==
  /\ history = "restore" /\ clock <= LastRequest /\ catalog.restores = {}
  /\ StoreRestore([NewRestore("x1", mode, {"b1", "b3"}, clock) EXCEPT
       !.fencing = [NotFenced EXCEPT !.state = "REQUIRED", !.targets = {"n1"},
                      !.epoch = 1, !.provider = {[Provider EXCEPT
                        !.capabilities = {"FENCING"}, !.repository = NoID]}]])
  /\ UNCHANGED <<plan, started>>

\* The fence is raised, or it fails and takes the restore with it.
Fence(r, succeeded) ==
  LET operated == {[p EXCEPT !.operation = "fence"] : p \in r.fencing.provider}
  IN  /\ r.fencing.state = "REQUIRED"
      /\ StoreRestore(
           IF succeeded
           THEN [Rewritten(r) EXCEPT !.fencing.state = "CONFIRMED",
                   !.fencing.provider = operated, !.fencing.confirmed = clock,
                   !.fencing.evidence = {[id |-> "x1f", recorded |-> clock,
                                          kind |-> "FENCING_CONFIRMATION"]}]
           ELSE [Rewritten(r) EXCEPT !.fencing.state = "FAILED", !.fencing.failure = TRUE,
                   !.fencing.provider = operated, !.state = "FAILED",
                   !.failure = TRUE, !.completed = clock])
      /\ UNCHANGED <<plan, started>>

StepRestore(r, state) ==
  /\ r.mode /= "ISOLATED_DRILL" /\ r.completed = 0 /\ r.state /= state
  /\ StoreRestore(
       [Rewritten(r) EXCEPT !.state = state,
          !.started = IF state = "RUNNING" THEN clock ELSE @,
          !.provider.operation = IF state = "RUNNING" THEN r.id ELSE @,
          !.completed = IF state \in {"SUCCEEDED", "FAILED", "CANCELLED"} THEN clock ELSE @,
          !.failure = state = "FAILED",
          !.verification =
            IF state = "SUCCEEDED"
            THEN [outcome |-> "PASSED", verified |-> clock,
                  evidence |-> Evidence(r.id, TRUE, clock)]
            ELSE @])
  /\ UNCHANGED <<plan, started>>

-----------------------------------------------------------------------------
\* A backup is not left between its steps when the clock moves: a bound.
Tick ==
  /\ clock < MaxTime
  /\ \A b \in catalog.backups : b.state \notin {"PLANNED", "RUNNING"}
  /\ clock' = clock + 1
  /\ UNCHANGED <<history, catalog, registry, plan, started, snapshot>>

\* Who starts a drill cites the evidence it has: of now, or of the start.
DrillEvidence(r) ==
  {{}, Evidence(r.id, FALSE, clock)} \cup
  {Evidence(r.id, TRUE, t) : t \in {clock, r.requested}}

NextDrill ==
  \/ \E c \in {Provider.capabilities, {"BACKUP", "RESTORE"}} : Register(Adapter(c))
  \/ \E id \in (IF history = "drill" THEN {"r1", "r2"} ELSE {"r1"}), bs \in SUBSET Backups :
       (id = "r2" => Known(catalog.restores, "r1")) /\ RequestDrill(id, bs)
  \/ \E r \in catalog.restores :
       \/ \E bs \in SUBSET Backups : AmendDrill(r, bs)
       \/ BuildRestoreDrillPlan(r)
       \/ \E planned \in plan : StartDrill(r, planned)
       \/ \E to \in {"VERIFYING", "SUCCEEDED", "FAILED", "CANCELLED"},
             evidence \in DrillEvidence(r) : StepDrill(r, to, evidence)
       \/ RewriteDrill(r)
  \/ KeepSnapshot

NextCapture ==
  \/ \E id \in {"b1", "b2"} : RequestBackup(id)
  \/ \E b \in catalog.backups :
       \/ RunBackup(b)
       \/ \E succeeded \in BOOLEAN : FinishBackup(b, succeeded)
       \/ \E state \in {"EXPIRED", "DELETED"} : RetireBackup(b, state)
       \/ \E r, s \in catalog.restores : RecordHealth(b, r, s.verification.evidence)
  \/ \E p \in catalog.points, state \in {"CREATING", "READY", "PARTIAL", "FAILED", "EXPIRED"} :
       StorePoint(p, state)
  \/ \E r \in catalog.restores, seconds \in 1 .. MaxAge : RecordObjective(r, seconds)

NextRestore ==
  \/ \E mode \in {"IN_PLACE", "PITR"} : RequestRestore(mode)
  \/ \E r \in catalog.restores :
       \/ \E succeeded \in BOOLEAN : Fence(r, succeeded)
       \/ \E state \in {"RUNNING", "VERIFYING", "SUCCEEDED", "FAILED", "CANCELLED"} :
            StepRestore(r, state)

NextRecovery == NextDrill \/ NextCapture \/ NextRestore \/ Tick

-----------------------------------------------------------------------------
(* Properties *)

\* A recovery path is called ready only when, for everything the recovery
\* point covers, there are backups, and each has its artifact, that of the
\* backup it builds on, and a drill that started after the capture, ended in
\* success and was tested while it ran, no matter in which order records were
\* written, retired or re-used as evidence (BuildRecoveryPathEvidenceFromGraph,
\* ValidateRecoveryMetadataGraph).
ReadyPathIsRecoverable ==
  /\ BuildRecoveryPathEvidenceFromGraph(catalog, "c1", "v1", "p1", MaxAge, clock).state
       = "ready"
  /\ CanBuildFromGraph(catalog, "c1", "p1", MaxAge, clock)
  => LET backups == Listed(catalog, Point)
     IN  /\ {b.target : b \in backups} = Point.objects
         /\ \A b \in backups :
              /\ Available(b)
              /\ b.parent /= NoID => Available(Find(catalog.backups, b.parent))
              /\ \E r \in catalog.restores :
                   /\ b.id \in r.backups /\ r.state = "SUCCEEDED"
                   /\ r.started > b.completed
                   /\ \A k \in {"RESTORE_DRILL", "FUNCTIONAL_TEST"} :
                        \E e \in b.health.evidence :
                          /\ e \in r.verification.evidence /\ e.kind = k
                          /\ r.started <= e.recorded /\ e.recorded <= r.completed

\* A drill runs what its plan named, on the target it named: backups that were
\* put into the request after the plan was built are not restored under the old
\* plan (ApplyRestoreDrillTransition and its precondition).
DrillRunsItsPlan ==
  \A p \in started :
    \A r \in catalog.restores :
      r.id = p.restore => r.backups = p.backups /\ r.target = p.target

\* A snapshot that says FRESH was read before the drill's age reached the limit,
\* to the fraction of a second that the times of the snapshot leave out
\* (EvaluateRestoreDrillFreshness).
FreshDrillIsRecent ==
  \A s \in snapshot : s.is.state = "FRESH" =>
    \E r \in catalog.restores :
      /\ r.id = s.is.restore /\ r.state = "SUCCEEDED"
      /\ s.read < r.verification.verified + MaxAge * SecondTicks

\* A snapshot or a binding that was kept is accepted for a drill only while the
\* drill is stored as it was when they were made: the same version, with the
\* same evidence (ValidateRestoreDrillFreshnessSnapshotCurrent,
\* ValidateRestoreDrillEvidenceBindingCurrent).
AcceptedProofIsUnchanged ==
  \A s \in snapshot : \A k \in s.bound : \A r \in catalog.restores :
    \/ SnapshotIsCurrent(r, s.is)
    \/ BindingIsCurrent(r, k.assessment, k.binding)
    => r = k.drill

\* In a catalogue that is accepted as a whole, an objective that passed was met
\* by the drill it names: the drill took no longer than the target, fractions of
\* a second included (elapsedSecondsCeiling).
PassedObjectiveWasMet ==
  \A o \in catalog.objectives :
    ValidateRecoveryMetadataGraph(catalog) =>
      LET r == Find(catalog.restores, o.restore)
      IN  r.completed - r.started <= o.targetRTO * SecondTicks

\* State is overwritten in place only behind a fence: one that was confirmed,
\* with evidence, after the restore was asked for and before it started
\* (validateRestoreFencingContext).
OverwriteIsFenced ==
  \A r \in catalog.restores :
    r.started /= 0 /\ r.mode \in {"IN_PLACE", "PITR"} =>
      /\ r.requested <= r.fencing.confirmed /\ r.fencing.confirmed <= r.started
      /\ containsEvidenceKind(r.fencing.evidence, "FENCING_CONFIRMATION")

\* A drill keeps to its terms: it runs what was planned, overwrites only behind a
\* fence, and counts for an objective only if it met it (restore_drill.go,
\* validation.go and integrity.go).
DrillKeepsItsTerms == DrillRunsItsPlan /\ OverwriteIsFenced /\ PassedObjectiveWasMet

\* A kept snapshot of a drill's freshness is true when it is made and is accepted
\* later only for the drill it was made of
\* (restore_drill_freshness_snapshot.go and the bindings of restore_drill evidence).
KeptProofHolds == FreshDrillIsRecent /\ AcceptedProofIsUnchanged

\* A kept snapshot is refused as the latest once a newer drill of its target has
\* succeeded (the comment of ValidateRestoreDrillFreshnessSnapshotLatestCurrent).
NewerDrillSupersedes ==
  \A s \in snapshot :
    /\ s.is.state /= "UNVERIFIABLE"
    /\ SnapshotIsLatest(catalog.restores, s.is)
    => \A r \in catalog.restores :
         IsFreshnessEvidence(r) => Truncate(r.verification.verified) <= s.is.verified
=============================================================================
