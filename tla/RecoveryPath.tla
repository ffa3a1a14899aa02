---------------------------- MODULE RecoveryPath ----------------------------
(***************************************************************************)
(* The recovery path of a change: whether what was captured before it can  *)
(* be restored (src/internal/orchestration/operationsview/recovery_path.go *)
(* and recovery_path_graph.go).  A revision stands for its identifier and  *)
(* digest.                                                                 *)
(***************************************************************************)
EXTENDS RecoveryMetadata, FiniteSetsExt

\* An observation is one the builder accepts.
ValidObservation(o, now) ==
  /\ validateIdentifier(o.point) /\ now > 0
  /\ o.verifiedBackups <= o.backups
  /\ o.pointState \in {"CREATING", "READY", "PARTIAL", "FAILED", "EXPIRED"}
  /\ o.outcome \in {"PENDING", "PASSED", "FAILED"}
  /\ o.backups = 0 => o.outcome /= "PASSED"
  /\ o.verified <= now
  /\ (o.outcome = "PASSED") <=> (o.verified /= 0)

PathState(o, now) ==
  IF \/ o.expires /= 0 /\ o.expires <= now
     \/ o.pointState = "EXPIRED"
  THEN "expired"
  ELSE IF \/ o.pointState /= "READY"
          \/ o.backups = 0
          \/ o.verifiedBackups /= o.backups
          \/ o.outcome /= "PASSED"
  THEN "blocked"
  ELSE "ready"

BuildRecoveryPathEvidence(change, revision, o, now) ==
  [change |-> change, revision |-> revision, observation |-> o,
   evaluated |-> now, state |-> PathState(o, now)]

\* Evidence that was stored or sent is rebuilt at the time it names.
ValidateRecoveryPathEvidence(e) ==
  /\ validateIdentifier(e.change) /\ validateIdentifier(e.revision)
  /\ ValidObservation(e.observation, e.evaluated)
  /\ e.state = PathState(e.observation, e.evaluated)

\* The earlier of two times of which either may be absent.
earlierRecoveryPathTime(t, u) == IF t = 0 THEN u ELSE IF u = 0 \/ t <= u THEN t ELSE u

Listed(g, p) == {b \in g.backups : b.id \in p.backups}

CanBuildFromGraph(g, change, point, maxAge, now) ==
  /\ now > 0 /\ maxAge > 0
  /\ ValidateRecoveryMetadataGraph(g)
  /\ Known(g.points, point)
  /\ LET p == Find(g.points, point)
     IN  /\ p.change = change
         /\ p.trigger \in {"PRE_CHANGE", "PRE_DESTRUCTIVE"}
         /\ p.created <= now /\ p.updated <= now
         /\ \A b \in Listed(g, p) :
              b.updated <= now /\ (b.health.state = "VERIFIED" => b.health.verified <= now)

\* What the graph says of a point: its verification is its oldest backup's.
Observe(g, p, maxAge) ==
  LET verified == {b \in Listed(g, p) : b.health.state = "VERIFIED"}
      oldest   == IF verified = {} THEN 0 ELSE Min({b.health.verified : b \in verified})
      passed   == p.backups /= {} /\ Cardinality(verified) = Cardinality(p.backups)
  IN  [point |-> p.id, pointState |-> p.state, backups |-> Cardinality(p.backups),
       verifiedBackups |-> Cardinality(verified),
       outcome |-> IF passed THEN "PASSED" ELSE "PENDING",
       verified |-> IF passed THEN oldest ELSE 0,
       expires |-> earlierRecoveryPathTime(
                     p.expires, IF oldest = 0 THEN 0 ELSE oldest + maxAge * SecondTicks)]

BuildRecoveryPathEvidenceFromGraph(g, change, revision, point, maxAge, now) ==
  BuildRecoveryPathEvidence(change, revision, Observe(g, Find(g.points, point), maxAge), now)
=============================================================================
