------------------------------ MODULE Incident ------------------------------
(***************************************************************************)
(* The incident document and its operator mutations: incidents/incident.go *)
(* and mutation.go, the version rules of corecontracts/metadata.go, and    *)
(* the canonical times of postgres/incidents.go.                           *)
(*                                                                         *)
(* An incident is the record                                               *)
(*   [status, generation, version, startedAt, lastObservedAt, updatedAt,   *)
(*    ack, timeline, evidence, runbook].                                   *)
(* Created_at is started_at: both are set once. Identity, scope, severity, *)
(* title, resources, texts and the evidence copied into timeline entries   *)
(* are never compared with changing state and are left out; the signals    *)
(* are reduced to the newest one, which last_observed_at repeats.          *)
(***************************************************************************)
EXTENDS Integers, FiniteSets, Sequences

CONSTANTS
    maxTimelineEntries,
    maxEvidenceRefs,
    Microsecond,   \* clock ticks in the finest time PostgreSQL keeps
    None           \* a nil pointer, an empty actor_id, a refused call

ASSUME DocumentAssumption ==
    /\ maxTimelineEntries \in Nat \ {0}
    /\ maxEvidenceRefs \in Nat
    /\ Microsecond \in Nat \ {0}
    /\ None \notin Int

Statuses == {"open", "acknowledged", "resolved"}
SystemKinds == {"opened", "signal-observed"}
TimelineKinds == SystemKinds \cup {"acknowledged", "resolved", "note"}

Entry(kind, at, actor) == [kind |-> kind, at |-> at, actor |-> actor]

-----------------------------------------------------------------------------
(* Times as PostgreSQL keeps them *)

postgresTime(t) == t - (t % Microsecond)

CanonicalEntry(e) == [e EXCEPT !.at = postgresTime(@)]
CanonicalAcknowledgement(ack) == IF ack = None THEN None ELSE CanonicalEntry(ack)
CanonicalTimeline(timeline) == [k \in DOMAIN timeline |-> CanonicalEntry(timeline[k])]
CanonicalReference(e) == [e EXCEPT !.collected = postgresTime(@)]
CanonicalEvidence(evidence) == {CanonicalReference(e) : e \in evidence}

\* Mutant of canonicalizeIncidentTimes: only the times that have a column.
canonicalizeColumns(i) ==
    [i EXCEPT !.startedAt = postgresTime(@),
              !.lastObservedAt = postgresTime(@),
              !.updatedAt = postgresTime(@)]

canonicalizeIncidentTimes(i) ==
    [i EXCEPT !.startedAt = postgresTime(i.startedAt),
              !.lastObservedAt = postgresTime(i.lastObservedAt),
              !.updatedAt = postgresTime(i.updatedAt),
              !.ack = CanonicalAcknowledgement(i.ack),
              !.timeline = CanonicalTimeline(i.timeline),
              !.evidence = CanonicalEvidence(i.evidence)]

-----------------------------------------------------------------------------
(* Incident.Validate *)

\* An evidence reference is [id, meta, collected]: id is its kind and id, meta
\* its digest and redaction.
validateEvidenceSet(evidence) ==
    \A a, b \in evidence : a.id = b.id => a = b

validateAcknowledgement(i) ==
    IF i.status = "open" THEN i.ack = None
    ELSE i.ack # None /\ i.ack.at \in i.startedAt..i.updatedAt

validateTimeline(i) ==
    LET t == i.timeline
        Count(kind) == Cardinality({k \in DOMAIN t : t[k].kind = kind})
    IN /\ t[1].kind = "opened" /\ t[1].at = i.startedAt
       /\ \A k \in DOMAIN t :
             /\ t[k].at \in i.startedAt..i.updatedAt
             /\ k > 1 => t[k - 1].at <= t[k].at
             /\ t[k].kind = "acknowledged" =>
                   i.ack # None /\ i.ack.actor = t[k].actor /\ i.ack.at = t[k].at
             /\ (t[k].actor = None) <=> (t[k].kind \in SystemKinds)
       /\ Count("acknowledged") = IF i.status = "open" THEN 0 ELSE 1
       /\ Count("resolved") = IF i.status = "resolved" THEN 1 ELSE 0
       /\ i.status = "resolved" => t[Len(t)].kind = "resolved"

Validate(i) ==
    /\ i.generation > 0
    /\ i.lastObservedAt \in i.startedAt..i.updatedAt
    /\ Len(i.timeline) \in 1..maxTimelineEntries
    /\ Cardinality(i.evidence) <= maxEvidenceRefs
    /\ validateEvidenceSet(i.evidence)
    /\ validateAcknowledgement(i)
    /\ validateTimeline(i)

-----------------------------------------------------------------------------
(* Object versions. A precondition is [version, generation]; the generation *)
(* is optional.                                                             *)

ValidateAgainst(precondition, current) ==
    /\ precondition.version = current.version
    /\ precondition.generation \in {None, current.generation}

ValidateSuccessor(current, next, desiredChanged) ==
    /\ next.updatedAt >= current.updatedAt
    /\ next.version # current.version
    /\ next.generation = current.generation + (IF desiredChanged THEN 1 ELSE 0)

-----------------------------------------------------------------------------
(* Prepared mutations: the next document, or None when refused. A request   *)
(* is [op, precondition, actor, at, evidence, runbook].                     *)

DesiredChanged(request) == request.op # "evidence"

validateMutationBase(current, request, version) ==
    /\ Validate(current)
    /\ ValidateAgainst(request.precondition, current)
    /\ request.at >= current.updatedAt
    /\ version # current.version

\* The part all successors share: a new version and one more timeline entry.
Successor(current, request, version, kind) ==
    [current EXCEPT !.version = version,
                    !.generation = IF DesiredChanged(request) THEN @ + 1 ELSE @,
                    !.updatedAt = request.at,
                    !.timeline = Append(@, Entry(kind, request.at, request.actor))]

\* The checks each Prepare function ends with.
Checked(current, request, next) ==
    IF Validate(next) /\ ValidateSuccessor(current, next, DesiredChanged(request))
    THEN next ELSE None

PrepareAcknowledgement(current, request, version) ==
    IF current.status # "open" THEN None
    ELSE Checked(current, request,
            [Successor(current, request, version, "acknowledged") EXCEPT
                !.status = "acknowledged",
                !.ack = [actor |-> request.actor, at |-> request.at]])

CollectedInTime(request) == \A e \in request.evidence : e.collected <= request.at

PrepareResolution(current, request, version) ==
    IF \/ current.status # "acknowledged"
       \/ ~validateEvidenceSet(request.evidence)
       \/ ~CollectedInTime(request)
    THEN None
    ELSE Checked(current, request,
            [Successor(current, request, version, "resolved") EXCEPT !.status = "resolved"])

\* A reference under an identity that is already bound to other metadata.
EvidenceConflict(existing, requested) ==
    \E e \in existing, c \in requested : e.id = c.id /\ e # c

\* Mutant of mergeEvidence: the newest metadata wins.
mergeEvidenceRebinding(existing, requested) ==
    {e \in existing : \A c \in requested : c.id # e.id} \cup requested

\* None when the request rebinds an identity.
mergeEvidence(existing, requested) ==
    IF EvidenceConflict(existing, requested) THEN None
    ELSE existing \cup requested

RunbookChanged(current, request) == request.runbook \notin {None, current.runbook}

PrepareEvidenceUpdate(current, request, version) ==
    LET merged == mergeEvidence(current.evidence, request.evidence)
    IN IF \/ current.status = "resolved"
          \/ ~validateEvidenceSet(request.evidence)
          \/ ~CollectedInTime(request)
          \/ merged = None
          \/ ~RunbookChanged(current, request) /\ merged = current.evidence
       THEN None
       ELSE Checked(current, request,
               [Successor(current, request, version, "note") EXCEPT
                   !.evidence = merged,
                   !.runbook = IF request.runbook = None THEN @ ELSE request.runbook])

Prepare(current, request, version) ==
    IF ~validateMutationBase(current, request, version) THEN None
    ELSE CASE request.op = "acknowledge" -> PrepareAcknowledgement(current, request, version)
           [] request.op = "resolve" -> PrepareResolution(current, request, version)
           [] request.op = "evidence" -> PrepareEvidenceUpdate(current, request, version)
=============================================================================
