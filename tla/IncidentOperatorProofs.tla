----------------------- MODULE IncidentOperatorProofs -----------------------
(***************************************************************************)
(* Proofs about IncidentOperator for any operators, evidence, limits and   *)
(* clocks: the locks and the audit chain, the incident's timeline against  *)
(* the audit trail, the fate of a prepared mutation, and the growth of the *)
(* incident.                                                               *)
(*                                                                          *)
(* The argument: ChainInv says who holds which lock and that the newest    *)
(* hash a transaction has read stays the newest. IncidentInv adds that the *)
(* stored incident is cut to microseconds, so that reading it again        *)
(* changes nothing (Stored), that its operator entries are the audited     *)
(* mutations (Audited), and that a prepared mutation either was made from  *)
(* the row as it is or names a version older than it (Pending). Every      *)
(* write takes a version with a greater count, so a write turns each       *)
(* mutation prepared before it into one of the second kind; a holder of    *)
(* the row's lock excludes all other writes and stays one of the first.    *)
(***************************************************************************)
EXTENDS IncidentOperator, FiniteSetTheorems, TLAPS

-----------------------------------------------------------------------------
(* PostgreSQL's microseconds: what canonicalizeIncidentTimes does *)

\* A time read back is a time (timestamptz keeps microseconds).
LEMMA CutTime ==
    ASSUME NEW t \in Int
    PROVE  postgresTime(t) \in Int
BY DocumentAssumption DEF postgresTime

\* The cut of a timeline entry changes its time only.
LEMMA CutEntryFields ==
    ASSUME NEW e \in TimelineEntry
    PROVE  /\ CanonicalEntry(e) \in TimelineEntry
           /\ CanonicalEntry(e).kind = e.kind
           /\ CanonicalEntry(e).actor = e.actor
           /\ CanonicalEntry(e).at = postgresTime(e.at)
<1>1. e.at \in Int
  BY Zenon DEF TimelineEntry
<1>2. postgresTime(e.at) \in Int
  BY <1>1, CutTime, Zenon
<1> QED
  BY <1>2, Zenon DEF TimelineEntry, CanonicalEntry

\* The cut of an acknowledgement changes its time only.
LEMMA CutAckFields ==
    ASSUME NEW a \in Acknowledgement
    PROVE  /\ CanonicalAcknowledgement(a) \in Acknowledgement /\ CanonicalAcknowledgement(a) # None
           /\ CanonicalAcknowledgement(a).actor = a.actor
           /\ CanonicalAcknowledgement(a).at = postgresTime(a.at)
<1>1. a # None /\ a.at \in Int
  BY OperatorAssumption, Zenon DEF Acknowledgement
<1>2. postgresTime(a.at) \in Int
  BY <1>1, CutTime, Zenon
<1>3. CanonicalAcknowledgement(a) = [a EXCEPT !.at = postgresTime(a.at)]
  BY <1>1, Zenon DEF CanonicalAcknowledgement, CanonicalEntry
<1>4. /\ CanonicalAcknowledgement(a) \in Acknowledgement
      /\ CanonicalAcknowledgement(a).actor = a.actor
      /\ CanonicalAcknowledgement(a).at = postgresTime(a.at)
  BY <1>2, <1>3, Zenon DEF Acknowledgement
<1> QED
  BY <1>4, OperatorAssumption, Zenon

\* The cut of an evidence reference changes the time it was collected at only.
LEMMA CutEvidenceFields ==
    ASSUME NEW e \in EvidenceReference
    PROVE  /\ CanonicalReference(e) \in EvidenceReference
           /\ CanonicalReference(e).id = e.id /\ CanonicalReference(e).meta = e.meta
           /\ CanonicalReference(e).collected = postgresTime(e.collected)
<1>1. e.collected \in Int
  BY Zenon DEF EvidenceReference
<1>2. postgresTime(e.collected) \in Int
  BY <1>1, CutTime, Zenon
<1> QED
  BY <1>2, Zenon DEF EvidenceReference, CanonicalReference

\* The cut of a timeline keeps its length and cuts entry by entry.
LEMMA CutTimelineFields ==
    ASSUME NEW t \in Seq(TimelineEntry)
    PROVE  /\ CanonicalTimeline(t) \in Seq(TimelineEntry)
           /\ Len(CanonicalTimeline(t)) = Len(t)
           /\ DOMAIN CanonicalTimeline(t) = DOMAIN t
           /\ \A k \in DOMAIN t : CanonicalTimeline(t)[k] = CanonicalEntry(t[k])
<1>1. \A k \in 1..Len(t) : CanonicalEntry(t[k]) \in TimelineEntry
  BY CutEntryFields
<1>2. DOMAIN t = 1..Len(t) /\ Len(t) \in Nat
  OBVIOUS
<1> DEFINE c == [k \in 1..Len(t) |-> CanonicalEntry(t[k])]
<1>3. CanonicalTimeline(t) = c
  BY <1>2, Zenon DEF CanonicalTimeline
<1>4. c \in Seq(TimelineEntry) /\ Len(c) = Len(t) /\ DOMAIN c = 1..Len(t)
  BY <1>1, <1>2
<1> QED
  BY <1>2, <1>3, <1>4, Zenon

\* canonicalizeIncidentTimes returns a document, and cuts its times only.
LEMMA CanonicalFields ==
    ASSUME NEW i \in IncidentDocument, NEW c, c = canonicalizeIncidentTimes(i)
    PROVE  /\ c \in IncidentDocument
           /\ c.status = i.status /\ c.generation = i.generation
           /\ c.version = i.version /\ c.runbook = i.runbook
           /\ c.startedAt = postgresTime(i.startedAt)
           /\ c.lastObservedAt = postgresTime(i.lastObservedAt)
           /\ c.updatedAt = postgresTime(i.updatedAt)
           /\ c.ack = CanonicalAcknowledgement(i.ack) /\ c.timeline = CanonicalTimeline(i.timeline)
           /\ c.evidence = CanonicalEvidence(i.evidence)
<1>1. /\ i.startedAt \in Int /\ i.lastObservedAt \in Int /\ i.updatedAt \in Int
      /\ i.ack \in Acknowledgement \cup {None} /\ i.timeline \in Seq(TimelineEntry)
      /\ i.evidence \in SUBSET EvidenceReference
  BY Zenon DEF IncidentDocument
<1> DEFINE started == postgresTime(i.startedAt)
           observed == postgresTime(i.lastObservedAt)
           updated == postgresTime(i.updatedAt)
           ack == CanonicalAcknowledgement(i.ack)
           timeline == CanonicalTimeline(i.timeline)
           evidence == CanonicalEvidence(i.evidence)
<1>2. started \in Int /\ observed \in Int /\ updated \in Int
  BY <1>1, CutTime, Zenon
<1>3. ack \in Acknowledgement \cup {None}
  BY <1>1, CutAckFields, Zenon DEF CanonicalAcknowledgement
<1>4. timeline \in Seq(TimelineEntry)
  BY <1>1, CutTimelineFields, Zenon
<1>5. evidence \in SUBSET EvidenceReference
  BY <1>1, CutEvidenceFields, Zenon DEF CanonicalEvidence
<1>6. c = [i EXCEPT !.startedAt = started, !.lastObservedAt = observed, !.updatedAt = updated,
                    !.ack = ack, !.timeline = timeline, !.evidence = evidence]
  BY Zenon DEF canonicalizeIncidentTimes
<1> HIDE DEF started, observed, updated, ack, timeline, evidence
<1>7. /\ c \in IncidentDocument
      /\ c.status = i.status /\ c.generation = i.generation
      /\ c.version = i.version /\ c.runbook = i.runbook
      /\ c.startedAt = started /\ c.lastObservedAt = observed /\ c.updatedAt = updated
      /\ c.ack = ack /\ c.timeline = timeline /\ c.evidence = evidence
  <2>1. /\ c.status = i.status /\ c.generation = i.generation
        /\ c.version = i.version /\ c.runbook = i.runbook
    BY <1>6, Zenon DEF IncidentDocument
  <2>2. c.startedAt = started /\ c.lastObservedAt = observed /\ c.updatedAt = updated
    BY <1>6, Zenon DEF IncidentDocument
  <2>3. c.ack = ack /\ c.timeline = timeline /\ c.evidence = evidence
    BY <1>6, Zenon DEF IncidentDocument
  <2>4. c \in IncidentDocument
    BY <1>2, <1>3, <1>4, <1>5, <1>6, Zenon DEF IncidentDocument
  <2> QED
    BY <2>1, <2>2, <2>3, <2>4, Zenon
<1> QED
  BY <1>7, Zenon DEF started, observed, updated, ack, timeline, evidence

\* Quotient and remainder of a time by the microsecond.
LEMMA DivisionOfTime ==
    ASSUME NEW t \in Int
    PROVE  /\ t % Microsecond \in 0..Microsecond - 1
           /\ t \div Microsecond \in Int
           /\ t = Microsecond * (t \div Microsecond) + (t % Microsecond)
<1>1. t % Microsecond \in 0..Microsecond - 1
  BY DocumentAssumption
<1>2. t \div Microsecond \in Int
  BY DocumentAssumption
<1>3. t = Microsecond * (t \div Microsecond) + (t % Microsecond)
  BY DocumentAssumption
<1> QED
  BY <1>1, <1>2, <1>3, Zenon

\* The cut is monotonic: times that were in order stay in order.
LEMMA CutKeepsOrder ==
    ASSUME NEW a \in Int, NEW b \in Int, a <= b
    PROVE  postgresTime(a) <= postgresTime(b)
<1> DEFINE q == a \div Microsecond  p == b \div Microsecond
<1>1. /\ q \in Int /\ p \in Int
      /\ postgresTime(a) = Microsecond * q /\ postgresTime(b) = Microsecond * p
      /\ b < Microsecond * p + Microsecond /\ Microsecond * q <= a
  BY DocumentAssumption, DivisionOfTime DEF postgresTime
<1> HIDE DEF q, p
<1>2. q <= p
  <2> SUFFICES ASSUME p + 1 <= q PROVE FALSE
    BY <1>1
  <2>1. Microsecond * (p + 1) <= Microsecond * q
    BY DocumentAssumption, <1>1
  <2>2. Microsecond * (p + 1) = Microsecond * p + Microsecond
    BY DocumentAssumption, <1>1
  <2>3. Microsecond * p \in Int /\ Microsecond * q \in Int /\ Microsecond \in Int
    BY DocumentAssumption, <1>1
  <2> QED
    BY <1>1, <2>1, <2>2, <2>3
<1> QED
  BY DocumentAssumption, <1>1, <1>2

\* A time that was cut is not cut again.
LEMMA CutTwice ==
    ASSUME NEW t \in Int
    PROVE  postgresTime(postgresTime(t)) = postgresTime(t)
<1> DEFINE q == t \div Microsecond  u == Microsecond * q  d == u \div Microsecond
<1>1. q \in Int /\ postgresTime(t) = u /\ u \in Int
  BY DocumentAssumption, DivisionOfTime DEF postgresTime
<1>2. /\ u % Microsecond \in 0..Microsecond - 1 /\ d \in Int
      /\ u = Microsecond * d + (u % Microsecond)
  BY <1>1, DivisionOfTime, Zenon
<1> HIDE DEF q, d
<1>3. Microsecond * (q - d) = u % Microsecond
  <2>1. Microsecond * (q - d) = Microsecond * q - Microsecond * d
    BY DocumentAssumption, <1>1, <1>2
  <2>2. Microsecond * q \in Int /\ Microsecond * d \in Int /\ u % Microsecond \in Int
    BY DocumentAssumption, <1>1, <1>2
  <2> QED
    BY <1>2, <2>1, <2>2
<1>4. q - d = 0
  <2>1. CASE q - d >= 1
    <3>1. Microsecond * (q - d) >= Microsecond * 1
      BY DocumentAssumption, <1>1, <1>2, <2>1
    <3> QED
      BY DocumentAssumption, <1>2, <1>3, <3>1
  <2>2. CASE q - d <= -1
    <3>1. Microsecond * (q - d) <= Microsecond * (-1)
      BY DocumentAssumption, <1>1, <1>2, <2>2
    <3> QED
      BY DocumentAssumption, <1>2, <1>3, <3>1
  <2> QED
    BY <1>1, <1>2, <2>1, <2>2
<1>5. u % Microsecond = 0
  BY DocumentAssumption, <1>3, <1>4
<1> QED
  BY <1>1, <1>5 DEF postgresTime

\* The cut of a finite set of references is finite and no larger.
LEMMA EvidenceStaysFinite ==
    ASSUME NEW refs, IsFiniteSet(refs)
    PROVE  /\ IsFiniteSet(CanonicalEvidence(refs))
           /\ Cardinality(CanonicalEvidence(refs)) <= Cardinality(refs)
<1> DEFINE f == [e \in refs |-> CanonicalReference(e)]
<1>1. f \in Surjection(refs, CanonicalEvidence(refs))
  BY Zenon DEF Surjection, CanonicalEvidence
<1> QED
  BY <1>1, FS_Surjection, Zenon

\* The cut of valid evidence is valid: identifiers are not changed
\* (validateEvidenceSet).
LEMMA EvidenceStaysValid ==
    ASSUME NEW refs \in SUBSET EvidenceReference, IsFiniteSet(refs),
           validateEvidenceSet(refs)
    PROVE  /\ IsFiniteSet(CanonicalEvidence(refs))
           /\ Cardinality(CanonicalEvidence(refs)) <= Cardinality(refs)
           /\ validateEvidenceSet(CanonicalEvidence(refs))
<1>2. /\ IsFiniteSet(CanonicalEvidence(refs))
      /\ Cardinality(CanonicalEvidence(refs)) <= Cardinality(refs)
  BY EvidenceStaysFinite, Zenon
<1>3. ASSUME NEW a \in CanonicalEvidence(refs), NEW b \in CanonicalEvidence(refs), a.id = b.id
      PROVE  a = b
  <2>1. PICK c \in refs : a = CanonicalReference(c)
    BY Zenon DEF CanonicalEvidence
  <2>2. PICK d \in refs : b = CanonicalReference(d)
    BY Zenon DEF CanonicalEvidence
  <2>3. c.id = d.id
    BY <1>3, <2>1, <2>2, CutEvidenceFields, Zenon
  <2> QED
    BY <2>1, <2>2, <2>3, Zenon DEF validateEvidenceSet
<1> QED
  BY <1>2, <1>3, Zenon DEF validateEvidenceSet

\* The cut of a document keeps its timeline valid: order, first and last entry
\* and the acknowledgement's place in it do not change (validateTimeline).
LEMMA TimelineStaysValid ==
    ASSUME NEW i \in IncidentDocument, validateTimeline(i), Len(i.timeline) >= 1,
           validateAcknowledgement(i),
           NEW c, c = canonicalizeIncidentTimes(i)
    PROVE  validateTimeline(c)
<1> DEFINE t == i.timeline  u == c.timeline
<1>1. /\ c.status = i.status /\ c.startedAt = postgresTime(i.startedAt)
      /\ c.updatedAt = postgresTime(i.updatedAt)
      /\ c.ack = CanonicalAcknowledgement(i.ack) /\ u = CanonicalTimeline(t)
  BY CanonicalFields, Zenon
<1>2. /\ t \in Seq(TimelineEntry) /\ i.startedAt \in Int /\ i.updatedAt \in Int
      /\ i.ack \in Acknowledgement \cup {None}
  BY Zenon DEF IncidentDocument
<1>3. /\ Len(u) = Len(t) /\ DOMAIN u = DOMAIN t
      /\ \A k \in DOMAIN t : u[k] = CanonicalEntry(t[k])
  BY <1>1, <1>2, CutTimelineFields, Zenon
<1>4. \A k \in DOMAIN t : /\ t[k] \in TimelineEntry /\ t[k].at \in Int
                          /\ u[k].kind = t[k].kind /\ u[k].actor = t[k].actor
                          /\ u[k].at = postgresTime(t[k].at)
  <2>1. \A k \in DOMAIN t : t[k] \in TimelineEntry
    BY <1>2
  <2>2. \A k \in DOMAIN t : t[k].at \in Int
    BY <2>1, Zenon DEF TimelineEntry
  <2> QED
    BY <1>3, <2>1, <2>2, CutEntryFields, Zenon
<1>5. DOMAIN t = 1..Len(t) /\ Len(t) \in Nat /\ 1 \in DOMAIN t /\ Len(t) \in DOMAIN t
  BY <1>2
<1>6. ASSUME NEW kind
      PROVE  {k \in DOMAIN u : u[k].kind = kind} = {k \in DOMAIN t : t[k].kind = kind}
  BY <1>3, <1>4, Zenon
<1>7. u[1].kind = t[1].kind /\ u[1].at = postgresTime(t[1].at)
      /\ u[Len(u)].kind = t[Len(t)].kind
  BY <1>3, <1>4, <1>5, Zenon
<1>8. ASSUME NEW k \in DOMAIN t
      PROVE  /\ u[k].at \in c.startedAt..c.updatedAt
             /\ k > 1 => u[k - 1].at <= u[k].at
             /\ u[k].kind = "acknowledged" =>
                   c.ack # None /\ c.ack.actor = u[k].actor /\ c.ack.at = u[k].at
             /\ (u[k].actor = None) <=> (u[k].kind \in SystemKinds)
  <2>1. /\ t[k].at \in i.startedAt..i.updatedAt
        /\ k > 1 => t[k - 1].at <= t[k].at
        /\ t[k].kind = "acknowledged" =>
              i.ack # None /\ i.ack.actor = t[k].actor /\ i.ack.at = t[k].at
        /\ (t[k].actor = None) <=> (t[k].kind \in SystemKinds)
    BY <1>8, Zenon DEF validateTimeline
  <2>2. u[k].at \in c.startedAt..c.updatedAt
    <3>1. /\ u[k].at = postgresTime(t[k].at) /\ t[k].at \in Int
          /\ i.startedAt <= t[k].at /\ t[k].at <= i.updatedAt
      BY <1>2, <1>4, <2>1
    <3>2. /\ c.startedAt <= u[k].at /\ u[k].at <= c.updatedAt
      BY <1>1, <1>2, <3>1, CutKeepsOrder, Zenon
    <3>3. /\ c.startedAt \in Int /\ u[k].at \in Int /\ c.updatedAt \in Int
      BY <1>1, <1>2, <3>1, CutTime, Zenon
    <3> QED
      BY <3>2, <3>3
  <2>3. k > 1 => u[k - 1].at <= u[k].at
    <3> SUFFICES ASSUME k > 1 PROVE u[k - 1].at <= u[k].at
      BY Zenon
    <3>1. k - 1 \in DOMAIN t
      BY <1>5
    <3>2. /\ u[k].at = postgresTime(t[k].at) /\ t[k].at \in Int
          /\ u[k - 1].at = postgresTime(t[k - 1].at) /\ t[k - 1].at \in Int
          /\ t[k - 1].at <= t[k].at
      BY <1>4, <2>1, <3>1, Zenon
    <3> QED
      BY <3>2, CutKeepsOrder, Zenon
  <2>4. u[k].kind = "acknowledged" =>
          c.ack # None /\ c.ack.actor = u[k].actor /\ c.ack.at = u[k].at
    <3> SUFFICES ASSUME t[k].kind = "acknowledged"
                 PROVE  c.ack # None /\ c.ack.actor = u[k].actor /\ c.ack.at = u[k].at
      BY <1>4, Zenon
    <3>1. /\ i.ack \in Acknowledgement
          /\ i.ack.actor = t[k].actor /\ i.ack.at = t[k].at
      BY <1>2, <2>1, Zenon
    <3>2. /\ c.ack # None /\ c.ack.actor = i.ack.actor
          /\ c.ack.at = postgresTime(i.ack.at)
      BY <1>1, <3>1, CutAckFields, Zenon
    <3>3. u[k].actor = t[k].actor /\ u[k].at = postgresTime(t[k].at)
      BY <1>4, Zenon
    <3> QED
      BY <3>1, <3>2, <3>3, Zenon
  <2>5. (u[k].actor = None) <=> (u[k].kind \in SystemKinds)
    BY <1>4, <2>1, Zenon
  <2> QED
    BY <2>2, <2>3, <2>4, <2>5, Zenon
<1>9. /\ t[1].kind = "opened" /\ t[1].at = i.startedAt
      /\ Cardinality({k \in DOMAIN t : t[k].kind = "acknowledged"})
            = IF i.status = "open" THEN 0 ELSE 1
      /\ Cardinality({k \in DOMAIN t : t[k].kind = "resolved"})
            = IF i.status = "resolved" THEN 1 ELSE 0
      /\ i.status = "resolved" => t[Len(t)].kind = "resolved"
  BY Zenon DEF validateTimeline
<1>10. /\ u[1].kind = "opened" /\ u[1].at = c.startedAt
       /\ c.status = "resolved" => u[Len(u)].kind = "resolved"
  BY <1>1, <1>7, <1>9, Zenon
<1>11. /\ Cardinality({k \in DOMAIN u : u[k].kind = "acknowledged"})
             = IF c.status = "open" THEN 0 ELSE 1
       /\ Cardinality({k \in DOMAIN u : u[k].kind = "resolved"})
             = IF c.status = "resolved" THEN 1 ELSE 0
  BY <1>1, <1>6, <1>9, Zenon
<1>12. \A k \in DOMAIN u :
             /\ u[k].at \in c.startedAt..c.updatedAt
             /\ k > 1 => u[k - 1].at <= u[k].at
             /\ u[k].kind = "acknowledged" =>
                   c.ack # None /\ c.ack.actor = u[k].actor /\ c.ack.at = u[k].at
             /\ (u[k].actor = None) <=> (u[k].kind \in SystemKinds)
  BY <1>3, <1>8, Zenon
<1> QED
  BY <1>10, <1>11, <1>12, Zenon DEF validateTimeline

\* A valid document stays valid when its times are cut: the second Validate,
\* in CommitIncidentMutation, never refuses what Prepare returned.
LEMMA CanonicalIsValid ==
    ASSUME NEW i \in IncidentDocument, Validate(i), IsFiniteSet(i.evidence),
           NEW c, c = canonicalizeIncidentTimes(i)
    PROVE  Validate(c) /\ IsFiniteSet(c.evidence)
<1>1. /\ i.generation > 0 /\ i.lastObservedAt \in i.startedAt..i.updatedAt
      /\ Len(i.timeline) \in 1..maxTimelineEntries
      /\ Cardinality(i.evidence) <= maxEvidenceRefs
      /\ validateEvidenceSet(i.evidence)
      /\ validateAcknowledgement(i) /\ validateTimeline(i)
  BY Zenon DEF Validate
<1>2. /\ i.startedAt \in Int /\ i.lastObservedAt \in Int /\ i.updatedAt \in Int
      /\ i.ack \in Acknowledgement \cup {None} /\ i.timeline \in Seq(TimelineEntry)
      /\ i.evidence \in SUBSET EvidenceReference
  BY Zenon DEF IncidentDocument
<1>3. /\ c.status = i.status /\ c.generation = i.generation
      /\ c.startedAt = postgresTime(i.startedAt)
      /\ c.lastObservedAt = postgresTime(i.lastObservedAt)
      /\ c.updatedAt = postgresTime(i.updatedAt)
      /\ c.ack = CanonicalAcknowledgement(i.ack)
      /\ c.timeline = CanonicalTimeline(i.timeline)
      /\ c.evidence = CanonicalEvidence(i.evidence)
  BY CanonicalFields, Zenon
<1>4. c.lastObservedAt \in c.startedAt..c.updatedAt
  <2>1. i.startedAt <= i.lastObservedAt /\ i.lastObservedAt <= i.updatedAt
    BY <1>1, <1>2
  <2>2. c.startedAt <= c.lastObservedAt /\ c.lastObservedAt <= c.updatedAt
    BY <1>2, <1>3, <2>1, CutKeepsOrder, Zenon
  <2>3. c.startedAt \in Int /\ c.lastObservedAt \in Int /\ c.updatedAt \in Int
    BY <1>2, <1>3, CutTime, Zenon
  <2> QED
    BY <2>2, <2>3
<1>5. Len(c.timeline) \in 1..maxTimelineEntries
  BY <1>1, <1>2, <1>3, CutTimelineFields, Zenon
<1>6. /\ IsFiniteSet(c.evidence) /\ validateEvidenceSet(c.evidence)
      /\ Cardinality(c.evidence) <= maxEvidenceRefs
  <2>1. /\ IsFiniteSet(c.evidence) /\ validateEvidenceSet(c.evidence)
        /\ Cardinality(c.evidence) <= Cardinality(i.evidence)
    BY <1>1, <1>2, <1>3, EvidenceStaysValid, Zenon
  <2>2. Cardinality(c.evidence) \in Nat /\ Cardinality(i.evidence) \in Nat
    BY <2>1, FS_CardinalityType, Zenon
  <2> QED
    BY <1>1, <2>1, <2>2, DocumentAssumption
<1>7. validateAcknowledgement(c)
  <2>1. CASE i.status = "open"
    BY <1>1, <1>3, <2>1, Zenon DEF validateAcknowledgement, CanonicalAcknowledgement
  <2>2. CASE i.status # "open"
    <3>1. i.ack \in Acknowledgement /\ i.ack.at \in i.startedAt..i.updatedAt
      BY <1>1, <1>2, <2>2, Zenon DEF validateAcknowledgement
    <3>2. c.ack # None /\ c.ack.at = postgresTime(i.ack.at)
      BY <1>3, <3>1, CutAckFields, Zenon
    <3>3. i.startedAt <= i.ack.at /\ i.ack.at <= i.updatedAt /\ i.ack.at \in Int
      BY <1>2, <3>1
    <3>4. c.startedAt <= c.ack.at /\ c.ack.at <= c.updatedAt
      BY <1>2, <1>3, <3>2, <3>3, CutKeepsOrder, Zenon
    <3>5. c.startedAt \in Int /\ c.ack.at \in Int /\ c.updatedAt \in Int
      BY <1>2, <1>3, <3>2, <3>3, CutTime, Zenon
    <3>6. c.ack.at \in c.startedAt..c.updatedAt
      BY <3>4, <3>5
    <3> QED
      BY <1>3, <2>2, <3>2, <3>6, Zenon DEF validateAcknowledgement
  <2> QED
    BY <2>1, <2>2, Zenon
<1>8. validateTimeline(c)
  BY <1>1, <1>2, TimelineStaysValid
<1> QED
  BY <1>1, <1>3, <1>4, <1>5, <1>6, <1>7, <1>8, Zenon DEF Validate

-----------------------------------------------------------------------------
(* What the Prepare functions return *)

\* The mutations of operators.
Ops == {"acknowledge", "resolve", "evidence"}

\* The timeline entry of each command.
MutationKind(op) ==
    CASE op = "acknowledge" -> "acknowledged"
      [] op = "resolve" -> "resolved"
      [] op = "evidence" -> "note"

\* A command as a handler sends it on.
Command(r, o) ==
    /\ r.op \in Ops /\ r.at \in Nat /\ r.actor = o
    /\ r.evidence \in SUBSET EvidenceReference /\ IsFiniteSet(r.evidence)
    /\ r.runbook \in Runbooks \cup {None}

\* The part all successors share: a new version and one more entry.
LEMMA SuccessorFields ==
    ASSUME NEW i \in IncidentDocument, NEW o \in Operators, NEW r, Command(r, o),
           NEW version \in Nat \X (Operators \cup {Ingester}),
           NEW kind \in TimelineKinds,
           NEW s, s = Successor(i, r, version, kind)
    PROVE  /\ s \in IncidentDocument /\ s.status = i.status /\ s.ack = i.ack
           /\ s.version = version /\ s.startedAt = i.startedAt /\ s.updatedAt = r.at
           /\ s.timeline = Append(i.timeline, Entry(kind, r.at, o))
           /\ s.evidence = i.evidence /\ s.runbook = i.runbook
<1> DEFINE generation == IF DesiredChanged(r) THEN i.generation + 1 ELSE i.generation
           at == r.at
           timeline == Append(i.timeline, Entry(kind, r.at, o))
<1>1. r.at \in Nat /\ r.actor = o
  BY Zenon DEF Command
<1>2. i.generation \in Nat /\ i.timeline \in Seq(TimelineEntry)
  BY Zenon DEF IncidentDocument
<1>3. generation \in Nat /\ at \in Int
  BY <1>1, <1>2
<1>4. Entry(kind, r.at, o) \in TimelineEntry
  BY <1>1 DEF Entry, TimelineEntry
<1>5. timeline \in Seq(TimelineEntry)
  BY <1>2, <1>4
<1>6. s = [i EXCEPT !.version = version, !.generation = generation, !.updatedAt = at,
                    !.timeline = timeline]
  BY <1>1, Zenon DEF Successor, IncidentDocument
<1> HIDE DEF generation, at, timeline
<1>7. /\ s \in IncidentDocument /\ s.status = i.status /\ s.ack = i.ack
      /\ s.version = version /\ s.startedAt = i.startedAt /\ s.updatedAt = at
      /\ s.timeline = timeline
      /\ s.evidence = i.evidence /\ s.runbook = i.runbook
  BY <1>3, <1>5, <1>6, Zenon DEF IncidentDocument
<1> QED
  BY <1>7, Zenon DEF at, timeline

\* What a Prepare function returns, unless it refuses.
Prepared(i, r, o, version, n) ==
    /\ n \in IncidentDocument /\ IsFiniteSet(n.evidence)
    /\ n.version = version /\ n.startedAt = i.startedAt /\ n.updatedAt = r.at
    /\ n.timeline = Append(i.timeline, Entry(MutationKind(r.op), r.at, o))
    /\ i.evidence \subseteq n.evidence
    /\ i.status # "resolved"
    /\ Validate(n) /\ ValidateSuccessor(i, n, DesiredChanged(r))

\* What PrepareAcknowledgement returns.
LEMMA AcknowledgementFields ==
    ASSUME NEW i \in IncidentDocument, IsFiniteSet(i.evidence),
           NEW o \in Operators, NEW r, Command(r, o), r.op = "acknowledge",
           NEW version \in Nat \X (Operators \cup {Ingester}),
           NEW n, n = PrepareAcknowledgement(i, r, version), n # None
    PROVE  Prepared(i, r, o, version, n)
<1> DEFINE s == Successor(i, r, version, "acknowledged")
           a == [actor |-> r.actor, at |-> r.at]
           m == [s EXCEPT !.status = "acknowledged", !.ack = a]
<1>1. /\ i.status = "open" /\ n = m
      /\ Validate(m) /\ ValidateSuccessor(i, m, DesiredChanged(r))
  BY Zenon DEF PrepareAcknowledgement, Checked
<1>2. "acknowledged" \in TimelineKinds /\ "acknowledged" \in Statuses
  BY Zenon DEF TimelineKinds, Statuses
<1>3. /\ s \in IncidentDocument
      /\ s.version = version /\ s.startedAt = i.startedAt /\ s.updatedAt = r.at
      /\ s.timeline = Append(i.timeline, Entry("acknowledged", r.at, o))
      /\ s.evidence = i.evidence
  BY <1>2, SuccessorFields
<1>4. a \in Acknowledgement
  BY DEF Command, Acknowledgement
<1> HIDE DEF s, a
<1>5. /\ m \in IncidentDocument
      /\ m.version = s.version /\ m.startedAt = s.startedAt /\ m.updatedAt = s.updatedAt
      /\ m.timeline = s.timeline /\ m.evidence = s.evidence
  BY <1>2, <1>3, <1>4, Zenon DEF IncidentDocument
<1> HIDE DEF m
<1>6. MutationKind(r.op) = "acknowledged"
  BY Zenon DEF MutationKind
<1>7. i.status # "resolved"
  BY <1>1, Zenon
<1> QED
  BY <1>1, <1>3, <1>5, <1>6, <1>7, Zenon DEF Prepared

\* What PrepareResolution returns.
LEMMA ResolutionFields ==
    ASSUME NEW i \in IncidentDocument, IsFiniteSet(i.evidence),
           NEW o \in Operators, NEW r, Command(r, o), r.op = "resolve",
           NEW version \in Nat \X (Operators \cup {Ingester}),
           NEW n, n = PrepareResolution(i, r, version), n # None
    PROVE  Prepared(i, r, o, version, n)
<1> DEFINE s == Successor(i, r, version, "resolved")
           m == [s EXCEPT !.status = "resolved"]
<1>1. /\ i.status = "acknowledged" /\ n = m
      /\ Validate(m) /\ ValidateSuccessor(i, m, DesiredChanged(r))
  BY Zenon DEF PrepareResolution, Checked
<1>2. "resolved" \in TimelineKinds /\ "resolved" \in Statuses
  BY Zenon DEF TimelineKinds, Statuses
<1>3. /\ s \in IncidentDocument
      /\ s.version = version /\ s.startedAt = i.startedAt /\ s.updatedAt = r.at
      /\ s.timeline = Append(i.timeline, Entry("resolved", r.at, o))
      /\ s.evidence = i.evidence
  BY <1>2, SuccessorFields
<1> HIDE DEF s
<1>5. /\ m \in IncidentDocument
      /\ m.version = s.version /\ m.startedAt = s.startedAt /\ m.updatedAt = s.updatedAt
      /\ m.timeline = s.timeline /\ m.evidence = s.evidence
  BY <1>2, <1>3, Zenon DEF IncidentDocument
<1> HIDE DEF m
<1>6. MutationKind(r.op) = "resolved"
  BY Zenon DEF MutationKind
<1>7. i.status # "resolved"
  BY <1>1, Zenon
<1> QED
  BY <1>1, <1>3, <1>5, <1>6, <1>7, Zenon DEF Prepared

\* What PrepareEvidenceUpdate returns: the merge keeps what is there.
LEMMA EvidenceUpdateFields ==
    ASSUME NEW i \in IncidentDocument, IsFiniteSet(i.evidence),
           NEW o \in Operators, NEW r, Command(r, o), r.op = "evidence",
           NEW version \in Nat \X (Operators \cup {Ingester}),
           NEW n, n = PrepareEvidenceUpdate(i, r, version), n # None
    PROVE  Prepared(i, r, o, version, n)
<1> DEFINE s == Successor(i, r, version, "note")
           merged == mergeEvidence(i.evidence, r.evidence)
           runbook == IF r.runbook = None THEN s.runbook ELSE r.runbook
           m == [s EXCEPT !.evidence = merged, !.runbook = runbook]
<1>1. "note" \in TimelineKinds
  BY Zenon DEF TimelineKinds
<1>2. /\ s \in IncidentDocument
      /\ s.version = version /\ s.startedAt = i.startedAt /\ s.updatedAt = r.at
      /\ s.timeline = Append(i.timeline, Entry("note", r.at, o))
      /\ s.runbook = i.runbook
  BY <1>1, SuccessorFields
<1>3. /\ i.status # "resolved" /\ merged # None
      /\ n = [s EXCEPT !.evidence = merged,
                       !.runbook = IF r.runbook = None THEN @ ELSE r.runbook]
      /\ Validate(n) /\ ValidateSuccessor(i, n, DesiredChanged(r))
  BY Zenon DEF PrepareEvidenceUpdate, Checked
<1>4. merged = i.evidence \cup r.evidence
  BY <1>3, Zenon DEF mergeEvidence
<1>5. i.evidence \in SUBSET EvidenceReference /\ i.runbook \in Runbooks \cup {None}
  BY Zenon DEF IncidentDocument
<1>6. merged \in SUBSET EvidenceReference
  BY <1>4, <1>5, Zenon DEF Command
<1>7. IsFiniteSet(merged)
  <2>1. IsFiniteSet(r.evidence)
    BY Zenon DEF Command
  <2>2. IsFiniteSet(i.evidence \cup r.evidence)
    BY <2>1, FS_Union, Zenon
  <2> QED
    BY <1>4, <2>2, Zenon
<1>8. runbook \in Runbooks \cup {None}
  BY <1>2, <1>5, Zenon DEF Command
<1> HIDE DEF s, merged
<1>9. n = m
  BY <1>2, <1>3, Zenon DEF IncidentDocument
<1> HIDE DEF runbook
<1>10. /\ m \in IncidentDocument
      /\ m.version = s.version /\ m.startedAt = s.startedAt /\ m.updatedAt = s.updatedAt
      /\ m.timeline = s.timeline /\ m.evidence = merged
  BY <1>2, <1>6, <1>8, Zenon DEF IncidentDocument
<1> HIDE DEF m
<1>11. MutationKind(r.op) = "note"
  BY Zenon DEF MutationKind
<1>12. i.evidence \subseteq merged
  BY <1>4, Zenon
<1> QED
  BY <1>2, <1>3, <1>7, <1>9, <1>10, <1>11, <1>12, Zenon DEF Prepared

\* What Prepare returns for any command it does not refuse.
LEMMA PreparedFields ==
    ASSUME NEW i \in IncidentDocument, IsFiniteSet(i.evidence),
           NEW o \in Operators, NEW r, Command(r, o),
           NEW version \in Nat \X (Operators \cup {Ingester}),
           NEW n, n = Prepare(i, r, version), n # None
    PROVE  Prepared(i, r, o, version, n) /\ validateMutationBase(i, r, version)
<1>1. validateMutationBase(i, r, version)
  BY Zenon DEF Prepare
<1>2. CASE r.op = "acknowledge"
  <2>1. n = PrepareAcknowledgement(i, r, version)
    BY <1>1, <1>2, Zenon DEF Prepare
  <2> QED
    BY <1>1, <1>2, <2>1, AcknowledgementFields, Zenon
<1>3. CASE r.op = "resolve"
  <2>1. n = PrepareResolution(i, r, version)
    BY <1>1, <1>3, Zenon DEF Prepare
  <2> QED
    BY <1>1, <1>3, <2>1, ResolutionFields, Zenon
<1>4. CASE r.op = "evidence"
  <2>1. n = PrepareEvidenceUpdate(i, r, version)
    BY <1>1, <1>4, Zenon DEF Prepare
  <2> QED
    BY <1>1, <1>4, <2>1, EvidenceUpdateFields, Zenon
<1> QED
  BY <1>2, <1>3, <1>4, Zenon DEF Command, Ops

-----------------------------------------------------------------------------
(* The locks and the chain of hashes *)

\* The audit events.
Event == [action : Ops \cup {Other}, actor : Operators \cup {None}, at : Int, previous : Nat]

\* What the chain rests on: a request in flight has a command and a time, a
\* lock belongs to the request that is past taking it, and the hash a
\* transaction has read stays the newest while it holds the chain.
ChainInv ==
    /\ audit \in Seq(Event)
    /\ clock \in Nat
    /\ pc \in [Operators -> {"idle", "arrived", "prepared", "written", "chained"}]
    /\ request = [o \in Operators |-> request[o]]
    /\ head \in [Operators -> Nat]
    /\ \A o \in Operators : pc[o] # "idle" => request[o].op \in Ops /\ request[o].at \in Nat
    /\ LocksAreHeldByRequests
    /\ \A o \in Operators : pc[o] = "chained" => head[o] = Hash(Len(audit))
    /\ AuditChainUnbroken

\* An empty log and idle operators satisfy the invariant.
LEMMA InitChain == Init => ChainInv
BY OperatorAssumption DEF Init, ChainInv, LocksAreHeldByRequests, AuditChainUnbroken

\* Appending an event that carries the newest hash keeps the chain unbroken
\* (appendAuditEventWithinTx, AuditLog.Append).
LEMMA AppendKeepsChain ==
    ASSUME ChainInv, NEW e \in Event, e.previous = Hash(Len(audit)), audit' = Append(audit, e)
    PROVE  audit' \in Seq(Event) /\ AuditChainUnbroken'
<1>1. audit \in Seq(Event) /\ AuditChainUnbroken
  BY Zenon DEF ChainInv
<1>2. audit' \in Seq(Event) /\ Len(audit') = Len(audit) + 1
  BY <1>1
<1>3. ASSUME NEW k \in DOMAIN audit' PROVE audit'[k].previous = Hash(k - 1)
  <2>1. CASE k = Len(audit) + 1
    BY <1>1, <2>1 DEF Hash
  <2>2. CASE k # Len(audit) + 1
    <3>1. k \in DOMAIN audit /\ audit'[k] = audit[k]
      BY <1>1, <1>2, <2>2
    <3> QED
      BY <1>1, <3>1, Zenon DEF AuditChainUnbroken
  <2> QED
    BY <2>1, <2>2, Zenon
<1> QED
  BY <1>2, <1>3, Zenon DEF AuditChainUnbroken, Hash

\* A step that touches neither the requests, nor the locks, nor the log
\* (Create, Replace, reads, the clock).
LEMMA ElsewhereChain ==
    ASSUME ChainInv, UNCHANGED <<audit, rowLock, auditLock, pc, request, head>>, clock' \in Nat
    PROVE  ChainInv'
BY DEF ChainInv, LocksAreHeldByRequests, AuditChainUnbroken

\* Commit and the deferred Rollback free what the request had locked, and nothing
\* that another request holds; whoever holds the chain saw the log as it is.
LEMMA EndedChain ==
    ASSUME ChainInv, NEW o \in Operators, Ended(o), clock' \in Nat,
           audit' \in Seq(Event), AuditChainUnbroken',
           audit' = audit \/ pc[o] = "chained"
    PROVE  ChainInv'
<1>1. /\ pc' \in [Operators -> {"idle", "arrived", "prepared", "written", "chained"}]
      /\ request' = [q \in Operators |-> request'[q]]
      /\ head' \in [Operators -> Nat]
      /\ pc'[o] = "idle"
      /\ \A q \in Operators \ {o} :
            pc'[q] = pc[q] /\ request'[q] = request[q] /\ head'[q] = head[q]
  BY Zenon DEF ChainInv, Ended
<1>2. \A q \in Operators :
         pc'[q] # "idle" => request'[q].op \in Ops /\ request'[q].at \in Nat
  BY <1>1, Zenon DEF ChainInv
<1>3. LocksAreHeldByRequests'
  BY <1>1, OperatorAssumption DEF ChainInv, Ended, LocksAreHeldByRequests
<1>4. ASSUME NEW q \in Operators, pc'[q] = "chained" PROVE head'[q] = Hash(Len(audit'))
  <2>1. q # o /\ pc[q] = "chained" /\ head'[q] = head[q]
    BY <1>1, <1>4, Zenon
  <2>2. pc[o] # "chained"
    BY <2>1, Zenon DEF ChainInv, LocksAreHeldByRequests
  <2> QED
    BY <2>1, <2>2, Zenon DEF ChainInv
<1> QED
  BY <1>1, <1>2, <1>3, <1>4, Zenon DEF ChainInv, Hash

\* A refused request changes nothing that is stored.
LEMMA RefuseChain ==
    ASSUME ChainInv, NEW o \in Operators, Refuse(o)
    PROVE  ChainInv'
BY EndedChain DEF Refuse, ChainInv, AuditChainUnbroken, Hash

\* A request advances to a point at which it holds no other lock than before.
LEMMA AdvanceChain ==
    ASSUME ChainInv, NEW o \in Operators, NEW point \in {"arrived", "prepared"},
           pc[o] \in {"idle", "arrived"},
           pc' = [pc EXCEPT ![o] = point],
           request' = [q \in Operators |-> request'[q]],
           \A q \in Operators \ {o} : request'[q] = request[q],
           request'[o].op \in Ops, request'[o].at \in Nat,
           UNCHANGED <<audit, rowLock, auditLock, head, clock>>
    PROVE  ChainInv'
BY Zenon DEF ChainInv, LocksAreHeldByRequests, AuditChainUnbroken, Hash

\* A handler sends its command on with the server's time.
LEMMA SendChain ==
    ASSUME ChainInv, NEW o \in Operators, Send(o)
    PROVE  ChainInv'
<1>1. PICK c \in Commands :
         request' = [request EXCEPT ![o] =
            [op |-> c.op, evidence |-> c.evidence, runbook |-> c.runbook, actor |-> o,
             at |-> clock, precondition |-> known[o]]]
  BY Zenon DEF Send
<1>2. c.op \in Ops
  BY Zenon DEF Commands, Ops
<1>3. request = [q \in Operators |-> request[q]] /\ clock \in Nat
  BY Zenon DEF ChainInv
<1>4. /\ request' = [q \in Operators |-> request'[q]]
      /\ \A q \in Operators \ {o} : request'[q] = request[q]
      /\ request'[o].op = c.op /\ request'[o].at = clock
  BY <1>1, <1>3, Zenon
<1> QED
  BY <1>2, <1>3, <1>4, AdvanceChain, Zenon DEF Send

\* commitMutation prepares or refuses.
LEMMA PrepareChain ==
    ASSUME ChainInv, NEW o \in Operators, PrepareMutation(o)
    PROVE  ChainInv'
<1>1. CASE Refuse(o)
  BY <1>1, RefuseChain, Zenon
<1>2. CASE /\ pc[o] = "arrived" /\ pc' = [pc EXCEPT ![o] = "prepared"]
           /\ UNCHANGED <<audit, rowLock, auditLock, request, head, clock>>
  <2>1. /\ request' = [q \in Operators |-> request'[q]]
        /\ request'[o].op \in Ops /\ request'[o].at \in Nat
    BY <1>2, Zenon DEF ChainInv
  <2> QED
    BY <1>2, <2>1, AdvanceChain, Zenon
<1> QED
  BY <1>1, <1>2, Zenon DEF PrepareMutation

\* Only a free row is locked, by the request that writes it.
LEMMA LockRowChain ==
    ASSUME ChainInv, NEW o \in Operators, LockRow(o)
    PROVE  ChainInv'
<1>1. CASE Refuse(o)
  BY <1>1, RefuseChain, Zenon
<1>2. CASE /\ pc[o] = "prepared" /\ rowLock = None /\ rowLock' = o
           /\ pc' = [pc EXCEPT ![o] = "written"]
           /\ UNCHANGED <<audit, auditLock, request, head, clock>>
  BY <1>2, OperatorAssumption, Zenon DEF ChainInv, LocksAreHeldByRequests, AuditChainUnbroken, Hash
<1> QED
  BY <1>1, <1>2, Zenon DEF LockRow

\* The hash is read under the chain's lock.
LEMMA LockChainChain ==
    ASSUME ChainInv, NEW o \in Operators, LockChain(o)
    PROVE  ChainInv'
<1>1. Hash(Len(audit)) \in Nat
  BY DEF ChainInv, Hash
<1>2. LocksAreHeldByRequests'
  BY OperatorAssumption, Zenon DEF ChainInv, LockChain, LocksAreHeldByRequests
<1>3. \A q \in Operators : pc'[q] = "chained" => head'[q] = Hash(Len(audit'))
  BY Zenon DEF ChainInv, LockChain, Hash
<1> QED
  BY <1>1, <1>2, <1>3, Zenon DEF ChainInv, LockChain, AuditChainUnbroken, Hash

\* COMMIT appends the event with the hash the transaction has read.
LEMMA CommitChain ==
    ASSUME ChainInv, NEW o \in Operators, Commit(o)
    PROVE  ChainInv'
<1> DEFINE e == [action |-> request[o].op, actor |-> o,
                 at |-> postgresTime(request[o].at), previous |-> head[o]]
<1>1. /\ pc[o] = "chained" /\ Ended(o) /\ clock' = clock /\ audit' = Append(audit, e)
  BY Zenon DEF Commit
<1>2. /\ request[o].op \in Ops /\ request[o].at \in Nat
      /\ head[o] = Hash(Len(audit)) /\ head[o] \in Nat /\ clock \in Nat
  BY <1>1, Zenon DEF ChainInv
<1>3. e \in Event /\ e.previous = Hash(Len(audit))
  <2>1. request[o].at \in Int
    BY <1>2
  <2>2. postgresTime(request[o].at) \in Int
    BY <2>1, CutTime, Zenon
  <2> QED
    BY <1>2, <2>2, Zenon DEF Event
<1> HIDE DEF e
<1> QED
  BY <1>1, <1>2, <1>3, AppendKeepsChain, EndedChain, Zenon

\* Another part of the system appends while nobody holds the chain.
LEMMA AppendOtherChain ==
    ASSUME ChainInv, AppendOther
    PROVE  ChainInv'
<1> DEFINE e == [action |-> Other, actor |-> None, at |-> postgresTime(clock),
                 previous |-> Hash(Len(audit))]
<1>1. audit' = Append(audit, e) /\ auditLock = None
  BY Zenon DEF AppendOther
<1>2. e \in Event /\ e.previous = Hash(Len(audit))
  BY CutTime DEF ChainInv, Event, Hash
<1> HIDE DEF e
<1>3. audit' \in Seq(Event) /\ AuditChainUnbroken'
  BY <1>1, <1>2, AppendKeepsChain, Zenon
<1>4. \A o \in Operators : pc[o] # "chained"
  BY <1>1, OperatorAssumption, Zenon DEF ChainInv, LocksAreHeldByRequests
<1> QED
  BY <1>3, <1>4, Zenon DEF AppendOther, ChainInv, LocksAreHeldByRequests, call

\* Every step preserves the invariant.
LEMMA NextChain == ChainInv /\ [Next]_vars => ChainInv'
<1> SUFFICES ASSUME ChainInv, [Next]_vars PROVE ChainInv'
  BY Zenon
<1>0. clock \in Nat
  BY Zenon DEF ChainInv
<1>1. CASE Ingests
  BY <1>0, <1>1, ElsewhereChain, Zenon DEF Ingests, call
<1>2. CASE Observe
  BY <1>0, <1>2, ElsewhereChain, Zenon DEF Observe, call
<1>3. CASE Tick
  BY <1>0, <1>3, ElsewhereChain DEF Tick, call
<1>4. CASE AppendOther
  BY <1>4, AppendOtherChain, Zenon
<1>5. ASSUME NEW o \in Operators, View(o) PROVE ChainInv'
  BY <1>0, <1>5, ElsewhereChain, Zenon DEF View, call
<1>6. ASSUME NEW o \in Operators, Send(o) PROVE ChainInv'
  BY <1>6, SendChain, Zenon
<1>7. ASSUME NEW o \in Operators, Handle(o) PROVE ChainInv'
  BY <1>7, PrepareChain, LockRowChain, LockChainChain, CommitChain, RefuseChain, Zenon DEF Handle, Fail
<1>8. CASE UNCHANGED vars
  BY <1>0, <1>8, ElsewhereChain, Zenon DEF vars, call
<1> QED
  BY <1>1, <1>2, <1>3, <1>4, <1>5, <1>6, <1>7, <1>8, Zenon DEF Next

-----------------------------------------------------------------------------

\* The invariant holds in every reachable state.
THEOREM ChainInvariant == Spec => []ChainInv
<1> QED
  BY InitChain, NextChain, PTL DEF Spec

\* The audit log is one chain of hashes, however many operators commit mutations
\* and other parts append at the same time (appendAuditEventWithinTx).
THEOREM ChainSafety == Spec => []AuditChainUnbroken
<1>1. ChainInv => AuditChainUnbroken
  BY Zenon DEF ChainInv
<1> QED
  BY <1>1, ChainInvariant, PTL

\* A lock is held exactly while a request is between taking it and its answer
\* (CommitIncidentMutation and its deferred Rollback).
THEOREM LockSafety == Spec => []LocksAreHeldByRequests
<1>1. ChainInv => LocksAreHeldByRequests
  BY Zenon DEF ChainInv
<1> QED
  BY <1>1, ChainInvariant, PTL

-----------------------------------------------------------------------------
(* The timeline and the audit trail *)

\* The operator entries of a timeline are the mutations of a log, in order.
Audited(t, log) ==
    LET entries == {k \in DOMAIN t : t[k].actor # None}
        events == {k \in DOMAIN log : log[k].action # Other}
    IN \E recorded \in [entries -> events] :
          /\ \A n \in events : \E k \in entries : recorded[k] = n
          /\ \A k, l \in entries : k < l => recorded[k] < recorded[l]
          /\ \A k \in entries : t[k] = EntryOf(log[recorded[k]])

\* What Append keeps and adds.
LEMMA AppendFacts ==
    ASSUME NEW S, NEW s \in Seq(S), NEW e \in S
    PROVE  /\ Append(s, e) \in Seq(S)
           /\ Len(Append(s, e)) = Len(s) + 1
           /\ DOMAIN s = 1..Len(s) /\ Len(s) \in Nat
           /\ DOMAIN Append(s, e) = 1..Len(s) + 1
           /\ \A k \in DOMAIN s : Append(s, e)[k] = s[k]
           /\ Append(s, e)[Len(s) + 1] = e
OBVIOUS

\* An entry of the system adds nothing that has to be audited.
LEMMA SystemEntryKeepsAudit ==
    ASSUME NEW t \in Seq(TimelineEntry), NEW log, Audited(t, log),
           NEW e \in TimelineEntry, e.actor = None
    PROVE  Audited(Append(t, e), log)
<1> DEFINE entries == {k \in DOMAIN t : t[k].actor # None}
           more == {k \in DOMAIN Append(t, e) : Append(t, e)[k].actor # None}
           events == {k \in DOMAIN log : log[k].action # Other}
<1>1. more = entries /\ \A k \in entries : Append(t, e)[k] = t[k]
  BY AppendFacts
<1>2. PICK f \in [entries -> events] :
         /\ \A n \in events : \E k \in entries : f[k] = n
         /\ \A k, l \in entries : k < l => f[k] < f[l]
         /\ \A k \in entries : t[k] = EntryOf(log[f[k]])
  BY Zenon DEF Audited
<1> HIDE DEF entries, more, events
<1>3. /\ f \in [more -> events]
      /\ \A n \in events : \E k \in more : f[k] = n
      /\ \A k, l \in more : k < l => f[k] < f[l]
      /\ \A k \in more : Append(t, e)[k] = EntryOf(log[f[k]])
  BY <1>1, <1>2, Zenon
<1> QED
  BY <1>3, Zenon DEF Audited, more, events

\* An audit event of another part of the system adds nothing to the incident.
LEMMA OtherEventKeepsAudit ==
    ASSUME NEW t, NEW log \in Seq(Event), Audited(t, log),
           NEW e \in Event, e.action = Other
    PROVE  Audited(t, Append(log, e))
<1> DEFINE entries == {k \in DOMAIN t : t[k].actor # None}
           events == {k \in DOMAIN log : log[k].action # Other}
           more == {k \in DOMAIN Append(log, e) : Append(log, e)[k].action # Other}
<1>1. more = events /\ \A k \in events : Append(log, e)[k] = log[k]
  BY AppendFacts
<1>2. PICK f \in [entries -> events] :
         /\ \A n \in events : \E k \in entries : f[k] = n
         /\ \A k, l \in entries : k < l => f[k] < f[l]
         /\ \A k \in entries : t[k] = EntryOf(log[f[k]])
  BY Zenon DEF Audited
<1> HIDE DEF entries, more, events
<1>3. /\ f \in [entries -> more]
      /\ \A n \in more : \E k \in entries : f[k] = n
      /\ \A k, l \in entries : k < l => f[k] < f[l]
      /\ \A k \in entries : t[k] = EntryOf(Append(log, e)[f[k]])
  <2>1. \A k \in entries : f[k] \in events
    BY <1>2, Zenon
  <2> QED
    BY <1>1, <1>2, <2>1, Zenon
<1> QED
  BY <1>3, Zenon DEF Audited, more, entries

\* A mutation adds one entry and its event, each the newest of its kind.
LEMMA MutationKeepsAudit ==
    ASSUME NEW t \in Seq(TimelineEntry), NEW log \in Seq(Event), Audited(t, log),
           NEW e \in TimelineEntry, NEW event \in Event,
           e.actor # None, event.action # Other, e = EntryOf(event)
    PROVE  Audited(Append(t, e), Append(log, event))
<1> DEFINE t2 == Append(t, e)  log2 == Append(log, event)
           entries == {k \in DOMAIN t : t[k].actor # None}
           entries2 == {k \in DOMAIN t2 : t2[k].actor # None}
           events == {k \in DOMAIN log : log[k].action # Other}
           events2 == {k \in DOMAIN log2 : log2[k].action # Other}
           last == Len(t) + 1  newest == Len(log) + 1
<1>1. PICK f \in [entries -> events] :
         /\ \A n \in events : \E k \in entries : f[k] = n
         /\ \A k, l \in entries : k < l => f[k] < f[l]
         /\ \A k \in entries : t[k] = EntryOf(log[f[k]])
  BY Zenon DEF Audited
<1>2. /\ entries2 = entries \cup {last} /\ last \notin entries
      /\ t2[last] = e /\ \A k \in entries : t2[k] = t[k] /\ k \in 1..Len(t)
      /\ Len(t) \in Nat
  BY AppendFacts
<1>3. /\ events2 = events \cup {newest} /\ newest \notin events
      /\ log2[newest] = event /\ \A n \in events : log2[n] = log[n] /\ n \in 1..Len(log)
      /\ Len(log) \in Nat
  BY AppendFacts
<1> HIDE DEF t2, log2, entries, entries2, events, events2
<1> DEFINE g == [k \in entries2 |-> IF k = last THEN newest ELSE f[k]]
<1>4. g \in [entries2 -> events2]
  BY <1>1, <1>2, <1>3, Zenon
<1>5. g[last] = newest /\ \A k \in entries : g[k] = f[k]
  BY <1>2, Zenon
<1> HIDE DEF g, last, newest
<1>6. \A n \in events2 : \E k \in entries2 : g[k] = n
  BY <1>1, <1>2, <1>3, <1>5
<1>7. ASSUME NEW k \in entries2, NEW l \in entries2, k < l PROVE g[k] < g[l]
  <2>1. k \in entries
    BY <1>2, <1>7 DEF last
  <2>2. CASE l = last
    BY <1>1, <1>2, <1>3, <1>5, <2>1, <2>2 DEF newest
  <2>3. CASE l # last
    BY <1>1, <1>2, <1>5, <1>7, <2>1, <2>3, Zenon
  <2> QED
    BY <2>2, <2>3, Zenon
<1>8. ASSUME NEW k \in entries2 PROVE t2[k] = EntryOf(log2[g[k]])
  <2>1. CASE k = last
    BY <1>2, <1>3, <1>5, <2>1, Zenon
  <2>2. CASE k # last
    BY <1>1, <1>2, <1>3, <1>5, <2>2
  <2> QED
    BY <2>1, <2>2, Zenon
<1> QED
  BY <1>4, <1>6, <1>7, <1>8, Zenon DEF Audited, t2, log2, entries2, events2

\* A timeline without operator entries agrees with a log without mutations.
LEMMA OpeningIsAudited ==
    ASSUME NEW t, \A k \in DOMAIN t : t[k].actor = None,
           NEW log, {k \in DOMAIN log : log[k].action # Other} = {}
    PROVE  Audited(t, log)
<1>1. {k \in DOMAIN t : t[k].actor # None} = {}
  BY Zenon
<1>2. [k \in {} |-> 0] \in [{} -> {}]
  BY Zenon
<1> QED
  BY <1>1, <1>2, Zenon DEF Audited

-----------------------------------------------------------------------------
(* Writes of the row *)

\* A document as PostgreSQL returns it.
Stored(i) ==
    /\ i \in IncidentDocument /\ IsFiniteSet(i.evidence)
    /\ postgresTime(i.startedAt) = i.startedAt /\ postgresTime(i.updatedAt) = i.updatedAt
    /\ CanonicalTimeline(i.timeline) = i.timeline
    /\ CanonicalEvidence(i.evidence) = i.evidence

\* A timeline that was cut is not changed by another cut.
LEMMA CanonicalTimelineTwice ==
    ASSUME NEW t \in Seq(TimelineEntry)
    PROVE  CanonicalTimeline(CanonicalTimeline(t)) = CanonicalTimeline(t)
<1> DEFINE u == CanonicalTimeline(t)
<1>1. \A e \in TimelineEntry : CanonicalEntry(CanonicalEntry(e)) = CanonicalEntry(e)
  <2> SUFFICES ASSUME NEW e \in TimelineEntry
               PROVE  CanonicalEntry(CanonicalEntry(e)) = CanonicalEntry(e)
    BY Zenon
  <2> DEFINE c == CanonicalEntry(e)
  <2>1. e.at \in Int
    BY Zenon DEF TimelineEntry
  <2>2. c \in TimelineEntry /\ c.at = postgresTime(e.at)
    BY CutEntryFields, Zenon
  <2>3. postgresTime(c.at) = c.at
    BY <2>1, <2>2, CutTwice, Zenon
  <2> HIDE DEF c
  <2>4. [c EXCEPT !.at = c.at] = c
    BY <2>2, Zenon DEF TimelineEntry
  <2>5. CanonicalEntry(c) = [c EXCEPT !.at = postgresTime(c.at)]
    BY Zenon DEF CanonicalEntry
  <2> QED
    BY <2>3, <2>4, <2>5, Zenon DEF c
<1>2. /\ u \in Seq(TimelineEntry) /\ DOMAIN u = DOMAIN t
      /\ \A k \in DOMAIN t : t[k] \in TimelineEntry /\ u[k] = CanonicalEntry(t[k])
  BY CutTimelineFields
<1>3. u = [k \in DOMAIN t |-> CanonicalEntry(t[k])]
  BY Zenon DEF CanonicalTimeline
<1> HIDE DEF u
<1>4. CanonicalTimeline(u) = [k \in DOMAIN t |-> CanonicalEntry(u[k])]
  BY <1>2, Zenon DEF CanonicalTimeline
<1>5. \A k \in DOMAIN t : CanonicalEntry(u[k]) = CanonicalEntry(t[k])
  BY <1>1, <1>2, Zenon
<1>6. CanonicalTimeline(u) = u
  BY <1>3, <1>4, <1>5, Zenon
<1> QED
  BY <1>6, Zenon DEF u

\* Evidence that was cut is not changed by another cut.
LEMMA CanonicalEvidenceTwice ==
    ASSUME NEW refs \in SUBSET EvidenceReference
    PROVE  CanonicalEvidence(CanonicalEvidence(refs)) = CanonicalEvidence(refs)
<1>1. ASSUME NEW e \in EvidenceReference
      PROVE  CanonicalReference(CanonicalReference(e)) = CanonicalReference(e)
  <2> DEFINE c == CanonicalReference(e)
  <2>1. e.collected \in Int
    BY Zenon DEF EvidenceReference
  <2>2. c \in EvidenceReference /\ c.collected = postgresTime(e.collected)
    BY CutEvidenceFields, Zenon
  <2>3. postgresTime(c.collected) = c.collected
    BY <2>1, <2>2, CutTwice, Zenon
  <2> HIDE DEF c
  <2>4. [c EXCEPT !.collected = c.collected] = c
    BY <2>2, Zenon DEF EvidenceReference
  <2>5. CanonicalReference(c) = [c EXCEPT !.collected = postgresTime(c.collected)]
    BY Zenon DEF CanonicalReference
  <2> QED
    BY <2>3, <2>4, <2>5, Zenon DEF c
<1>2. \A e \in refs : CanonicalReference(CanonicalReference(e)) = CanonicalReference(e)
  BY <1>1, Zenon
<1> QED
  BY <1>2, Zenon DEF CanonicalEvidence

\* What is written is what a later read returns.
LEMMA WrittenIsStored ==
    ASSUME NEW i \in IncidentDocument, IsFiniteSet(i.evidence),
           NEW c, c = canonicalizeIncidentTimes(i)
    PROVE  Stored(c)
<1>1. /\ i.startedAt \in Int /\ i.updatedAt \in Int /\ i.timeline \in Seq(TimelineEntry)
      /\ i.evidence \in SUBSET EvidenceReference
  BY Zenon DEF IncidentDocument
<1>2. /\ c \in IncidentDocument /\ c.startedAt = postgresTime(i.startedAt)
      /\ c.updatedAt = postgresTime(i.updatedAt)
      /\ c.timeline = CanonicalTimeline(i.timeline)
      /\ c.evidence = CanonicalEvidence(i.evidence)
  BY CanonicalFields, Zenon
<1>3. IsFiniteSet(c.evidence)
  BY <1>2, EvidenceStaysFinite, Zenon
<1>4. postgresTime(c.startedAt) = c.startedAt /\ postgresTime(c.updatedAt) = c.updatedAt
  BY <1>1, <1>2, CutTwice, Zenon
<1>5. CanonicalTimeline(c.timeline) = c.timeline
  BY <1>1, <1>2, CanonicalTimelineTwice, Zenon
<1>6. CanonicalEvidence(c.evidence) = c.evidence
  BY <1>1, <1>2, CanonicalEvidenceTwice, Zenon
<1> QED
  BY <1>2, <1>3, <1>4, <1>5, <1>6, Zenon DEF Stored

\* An entry appended to a stored timeline is all that the next cut changes.
LEMMA CanonicalAppend ==
    ASSUME NEW t \in Seq(TimelineEntry), CanonicalTimeline(t) = t,
           NEW e \in TimelineEntry
    PROVE  CanonicalTimeline(Append(t, e)) = Append(t, CanonicalEntry(e))
<1> DEFINE u == Append(t, e)  c == CanonicalEntry(e)  v == Append(t, c)
<1>1. c \in TimelineEntry
  BY CutEntryFields, Zenon
<1>2. /\ DOMAIN u = 1..Len(t) + 1 /\ u \in Seq(TimelineEntry)
      /\ \A k \in DOMAIN t : u[k] = t[k]
      /\ u[Len(t) + 1] = e /\ DOMAIN t = 1..Len(t) /\ Len(t) \in Nat
  BY AppendFacts
<1>3. /\ DOMAIN v = 1..Len(t) + 1 /\ v \in Seq(TimelineEntry)
      /\ \A k \in DOMAIN t : v[k] = t[k]
      /\ v[Len(t) + 1] = c
  BY <1>1, AppendFacts
<1>4. \A k \in DOMAIN t : CanonicalEntry(t[k]) = t[k]
  BY CutTimelineFields, Zenon
<1> HIDE DEF u, v
<1>5. \A k \in 1..Len(t) + 1 : CanonicalEntry(u[k]) = v[k]
  <2> SUFFICES ASSUME NEW k \in 1..Len(t) + 1 PROVE CanonicalEntry(u[k]) = v[k]
    BY Zenon
  <2>1. CASE k = Len(t) + 1
    BY <1>2, <1>3, <2>1, Zenon
  <2>2. CASE k # Len(t) + 1
    <3>1. k \in DOMAIN t
      BY <1>2, <2>2
    <3> QED
      BY <1>2, <1>3, <1>4, <3>1, Zenon
  <2> QED
    BY <2>1, <2>2, Zenon
<1>6. CanonicalTimeline(u) = [k \in 1..Len(t) + 1 |-> CanonicalEntry(u[k])]
  BY <1>2, Zenon DEF CanonicalTimeline
<1>7. v = [k \in 1..Len(t) + 1 |-> v[k]]
  BY <1>3
<1> QED
  BY <1>5, <1>6, <1>7, Zenon DEF u, v

\* A write of the row: c follows i with one more timeline entry.
Grown(i, c, e) ==
    /\ Stored(c) /\ c.version[1] = i.version[1] + 1
    /\ e \in TimelineEntry /\ c.timeline = Append(i.timeline, e)
    /\ i.evidence \subseteq c.evidence /\ validateEvidenceSet(c.evidence)
    /\ c.startedAt = i.startedAt /\ i.updatedAt <= c.updatedAt
    /\ i.status # "resolved"

\* A version drawn for a successor counts one write more than the row's.
LEMMA TokenFields ==
    ASSUME NEW i \in IncidentDocument, NEW who \in Operators \cup {Ingester}
    PROVE  /\ Token(i, who) \in Nat \X (Operators \cup {Ingester})
           /\ Token(i, who)[1] = i.version[1] + 1 /\ i.version[1] \in Nat
<1>1. i.version \in Nat \X (Operators \cup {Ingester})
  BY Zenon DEF IncidentDocument
<1>2. i.version[1] \in Nat
  BY <1>1, Zenon
<1> QED
  BY <1>2 DEF Token

\* The heart of the matter: a mutation prepared from the stored row passes
\* every check of CommitIncidentMutation against that row after its times were
\* cut, and what is written is the row with one more entry, by the operator at
\* the command's time.
LEMMA CommitGrows ==
    ASSUME NEW i, Stored(i), NEW o \in Operators, NEW r, Command(r, o),
           NEW n, n = Prepare(i, r, Token(i, o)), n # None,
           NEW c, c = canonicalizeIncidentTimes(n),
           NEW e, e = CanonicalEntry(Entry(MutationKind(r.op), r.at, o))
    PROVE  /\ Grown(i, c, e) /\ Validate(c)
           /\ ValidateSuccessor(i, c, DesiredChanged(r))
           /\ ValidateAgainst(r.precondition, i)
<1>1. /\ i \in IncidentDocument /\ IsFiniteSet(i.evidence)
      /\ postgresTime(i.startedAt) = i.startedAt /\ postgresTime(i.updatedAt) = i.updatedAt
      /\ CanonicalTimeline(i.timeline) = i.timeline
      /\ CanonicalEvidence(i.evidence) = i.evidence
  BY Zenon DEF Stored
<1>2. /\ Token(i, o) \in Nat \X (Operators \cup {Ingester})
      /\ Token(i, o)[1] = i.version[1] + 1
  BY <1>1, TokenFields, Zenon
<1>3. Prepared(i, r, o, Token(i, o), n) /\ validateMutationBase(i, r, Token(i, o))
  BY <1>1, <1>2, PreparedFields
<1>4. /\ n \in IncidentDocument /\ IsFiniteSet(n.evidence)
      /\ n.version = Token(i, o) /\ n.startedAt = i.startedAt
      /\ n.timeline = Append(i.timeline, Entry(MutationKind(r.op), r.at, o))
      /\ i.evidence \subseteq n.evidence /\ i.status # "resolved"
      /\ Validate(n) /\ ValidateSuccessor(i, n, DesiredChanged(r))
  BY <1>3, Zenon DEF Prepared
<1>5. /\ c.version = n.version /\ c.startedAt = postgresTime(n.startedAt)
      /\ c.generation = n.generation /\ c.updatedAt = postgresTime(n.updatedAt)
      /\ c.timeline = CanonicalTimeline(n.timeline)
      /\ c.evidence = CanonicalEvidence(n.evidence)
  BY <1>4, CanonicalFields, Zenon
<1>6. Stored(c) /\ Validate(c)
  BY <1>4, WrittenIsStored, CanonicalIsValid, Zenon
<1>7. /\ c.version = Token(i, o) /\ c.startedAt = i.startedAt
  BY <1>1, <1>4, <1>5, Zenon
<1>8. /\ e \in TimelineEntry /\ c.timeline = Append(i.timeline, e)
  <2>1. MutationKind(r.op) \in TimelineKinds /\ r.at \in Int
    <3>1. r.op \in Ops /\ r.at \in Nat
      BY Zenon DEF Command
    <3>2. MutationKind("acknowledge") = "acknowledged" /\ MutationKind("resolve") = "resolved"
          /\ MutationKind("evidence") = "note"
      BY Zenon DEF MutationKind
    <3>3. MutationKind(r.op) \in TimelineKinds
      BY <3>1, <3>2, Zenon DEF Ops, TimelineKinds
    <3> QED
      BY <3>1, <3>3
  <2>2. Entry(MutationKind(r.op), r.at, o) \in TimelineEntry
    BY <2>1, Zenon DEF Entry, TimelineEntry
  <2>3. i.timeline \in Seq(TimelineEntry)
    BY <1>1, Zenon DEF IncidentDocument
  <2>4. e \in TimelineEntry
    BY <2>2, CutEntryFields, Zenon
  <2>5. CanonicalTimeline(Append(i.timeline, Entry(MutationKind(r.op), r.at, o)))
          = Append(i.timeline, CanonicalEntry(Entry(MutationKind(r.op), r.at, o)))
    BY <1>1, <2>2, <2>3, CanonicalAppend, Zenon
  <2> QED
    BY <1>4, <1>5, <2>4, <2>5, Zenon
<1>9. i.evidence \subseteq c.evidence /\ validateEvidenceSet(c.evidence)
  <2>1. validateEvidenceSet(c.evidence)
    BY <1>6, Zenon DEF Validate
  <2>2. CanonicalEvidence(i.evidence) \subseteq CanonicalEvidence(n.evidence)
    BY <1>4, Zenon DEF CanonicalEvidence
  <2> QED
    BY <1>1, <1>5, <2>1, <2>2, Zenon
<1>10. i.updatedAt <= c.updatedAt /\ c.updatedAt \in Int /\ i.updatedAt \in Int
  <2>1. i.updatedAt \in Int /\ n.updatedAt \in Int
    BY <1>1, <1>4, Zenon DEF IncidentDocument
  <2>2. i.updatedAt <= n.updatedAt
    BY <1>4, <2>1, Zenon DEF ValidateSuccessor
  <2>3. postgresTime(i.updatedAt) <= postgresTime(n.updatedAt)
    BY <2>1, <2>2, CutKeepsOrder, Zenon
  <2> QED
    BY <1>1, <1>5, <2>1, <2>3, CutTime, Zenon
<1>11. ValidateSuccessor(i, c, DesiredChanged(r))
  <2>1. /\ n.version # i.version
        /\ n.generation = i.generation + (IF DesiredChanged(r) THEN 1 ELSE 0)
    BY <1>4, Zenon DEF ValidateSuccessor
  <2>2. c.updatedAt >= i.updatedAt
    BY <1>10, Zenon
  <2> QED
    BY <1>5, <2>1, <2>2, Zenon DEF ValidateSuccessor
<1>12. ValidateAgainst(r.precondition, i)
  BY <1>3, Zenon DEF validateMutationBase
<1>13. c.version[1] = i.version[1] + 1
  BY <1>2, <1>7, Zenon
<1>14. Grown(i, c, e)
  BY <1>4, <1>6, <1>7, <1>8, <1>9, <1>10, <1>13, Zenon DEF Grown
<1> QED
  BY <1>6, <1>11, <1>12, <1>14, Zenon

\* A signal that Replace accepts is written as one more entry of the system;
\* an incident that is resolved accepts none, for its last entry says so.
LEMMA ObserveGrows ==
    ASSUME Stored(row), NEW at \in Nat,
           Validate(Observed(at)), ValidateSuccessor(row, Observed(at), FALSE)
    PROVE  \E e : e.actor = None /\ Grown(row, Observed(at), e)
<1> DEFINE entry == Entry("signal-observed", at, None)
           t == Append(row.timeline, entry)
           v == Token(row, Ingester)
           n == [row EXCEPT !.version = v, !.lastObservedAt = at, !.updatedAt = at,
                            !.timeline = t]
           c == Observed(at)
           e == CanonicalEntry(entry)
<1>1. /\ row \in IncidentDocument /\ IsFiniteSet(row.evidence)
      /\ postgresTime(row.startedAt) = row.startedAt
      /\ CanonicalTimeline(row.timeline) = row.timeline
      /\ CanonicalEvidence(row.evidence) = row.evidence
  BY Zenon DEF Stored
<1>2. v \in Nat \X (Operators \cup {Ingester}) /\ v[1] = row.version[1] + 1
  BY <1>1, TokenFields, Zenon
<1>3. row.timeline \in Seq(TimelineEntry)
  BY <1>1, Zenon DEF IncidentDocument
<1>4. entry \in TimelineEntry /\ entry.actor = None /\ entry.kind = "signal-observed"
  BY DEF Entry, TimelineEntry, TimelineKinds, SystemKinds
<1>5. t \in Seq(TimelineEntry)
  BY <1>3, <1>4
<1>6. c = canonicalizeIncidentTimes(n)
  <2>1. n = [row EXCEPT !.version = Token(row, Ingester), !.lastObservedAt = at,
                        !.updatedAt = at,
                        !.timeline = Append(@, Entry("signal-observed", at, None))]
    BY <1>1, Zenon DEF IncidentDocument
  <2> QED
    BY <2>1, Zenon DEF Observed
<1>0. at \in Int
  OBVIOUS
<1> HIDE DEF v, t, entry
<1>7. /\ n \in IncidentDocument /\ n.evidence = row.evidence /\ n.startedAt = row.startedAt
      /\ n.version = v /\ n.timeline = t /\ n.status = row.status
  BY <1>0, <1>1, <1>2, <1>5, Zenon DEF IncidentDocument
<1> HIDE DEF n, c
<1>8. /\ c.version = n.version /\ c.startedAt = postgresTime(n.startedAt)
      /\ c.timeline = CanonicalTimeline(n.timeline) /\ c.status = n.status
      /\ c.evidence = CanonicalEvidence(n.evidence) /\ c \in IncidentDocument
      /\ c.updatedAt = postgresTime(n.updatedAt)
  BY <1>6, <1>7, CanonicalFields, Zenon
<1>9. /\ e \in TimelineEntry /\ e.actor = None /\ e.kind = "signal-observed"
      /\ c.timeline = Append(row.timeline, e)
  BY <1>1, <1>3, <1>4, <1>7, <1>8, CutEntryFields, CanonicalAppend, Zenon DEF t
<1>10. /\ c.version[1] = row.version[1] + 1 /\ c.startedAt = row.startedAt
       /\ c.evidence = row.evidence /\ c.status = row.status
  BY <1>1, <1>2, <1>7, <1>8, Zenon
<1>11. Validate(c) /\ ValidateSuccessor(row, c, FALSE)
  BY Zenon DEF c
<1>12. validateEvidenceSet(c.evidence) /\ validateTimeline(c)
  BY <1>11, Zenon DEF Validate
<1>13. row.updatedAt <= c.updatedAt
  <2>1. row.updatedAt \in Int /\ c.updatedAt \in Int
    BY <1>1, <1>8, Zenon DEF IncidentDocument
  <2>2. c.updatedAt >= row.updatedAt
    BY <1>11, Zenon DEF ValidateSuccessor
  <2> QED
    BY <2>1, <2>2, Zenon
<1>14. row.status # "resolved"
  <2>1. c.timeline[Len(c.timeline)] = e
    BY <1>3, <1>9, AppendFacts
  <2>2. c.status = "resolved" => c.timeline[Len(c.timeline)].kind = "resolved"
    BY <1>12, Zenon DEF validateTimeline
  <2> QED
    BY <1>9, <1>10, <2>1, <2>2, Zenon
<1>15. Stored(c)
  BY <1>1, <1>6, <1>7, WrittenIsStored, Zenon
<1>16. Grown(row, c, e)
  BY <1>9, <1>10, <1>12, <1>13, <1>14, <1>15, Zenon DEF Grown
<1> QED
  BY <1>9, <1>16, Zenon DEF c

-----------------------------------------------------------------------------
(* The inductive invariant of incident, requests and audit trail *)

\* What a mutation prepared from an earlier read still says about the row i.
Pending(i, r, o, b, n) ==
    /\ b.revision.version \in Nat \X (Operators \cup {Ingester})
    /\ b.revision.version[1] <= i.version[1]
    /\ r.precondition.version = b.revision.version
    /\ b.revision.version = i.version =>
          b = Recorded(i) /\ n # None /\ n = Prepare(i, r, Token(i, o))

\* What holds of a request of operator o at a point of its handler.
Underway(o, point, i, k, r, b, n) ==
    /\ k # None => i # None
    /\ point # "idle" => i # None /\ Command(r, o)
    /\ point \in {"prepared", "written", "chained"} => Pending(i, r, o, b, n)
    /\ point \in {"written", "chained"} => b.revision.version = i.version

\* What holds of the stored incident and the audit trail.
Durable(i, log) ==
    /\ i = None => {k \in DOMAIN log : log[k].action # Other} = {}
    /\ i # None => Stored(i) /\ Audited(i.timeline, log)

\* The request, its copies and the precondition of operator o do not change.
Idles(o) ==
    /\ pc'[o] = pc[o] /\ known'[o] = known[o] /\ request'[o] = request[o]
    /\ base'[o] = base[o] /\ next'[o] = next[o]

\* These are functions of the operators.
PerOperator ==
    /\ known = [o \in Operators |-> known[o]]
    /\ base = [o \in Operators |-> base[o]]
    /\ next = [o \in Operators |-> next[o]]

\* Underway for every operator.
AllUnderway ==
    \A o \in Operators : Underway(o, pc[o], row, known[o], request[o], base[o], next[o])

\* The inductive invariant.
IncidentInv == ChainInv /\ PerOperator /\ Durable(row, audit) /\ AllUnderway

\* Nothing is stored and nobody is at work at the start.
LEMMA InitInv == Init => IncidentInv
<1> SUFFICES ASSUME Init PROVE IncidentInv
  BY Zenon
<1>1. ChainInv
  BY InitChain, Zenon
<1>2. PerOperator
  BY Zenon DEF Init, PerOperator
<1>3. Durable(row, audit)
  BY DEF Init, Durable
<1>4. AllUnderway
  BY Zenon DEF Init, AllUnderway, Underway
<1> QED
  BY <1>1, <1>2, <1>3, <1>4, Zenon DEF IncidentInv

\* An update of a function of the operators at one of them.
LEMMA UpdateAt ==
    ASSUME NEW f, f = [q \in Operators |-> f[q]], NEW o \in Operators, NEW v,
           NEW g, g = [f EXCEPT ![o] = v]
    PROVE  /\ g = [q \in Operators |-> g[q]] /\ g[o] = v
           /\ \A q \in Operators \ {o} : g[q] = f[q]
OBVIOUS

\* One request moves and the row stays.
LEMMA OneMoves ==
    ASSUME AllUnderway, NEW o \in Operators, row' = row,
           \A q \in Operators \ {o} : Idles(q),
           Underway(o, pc'[o], row, known'[o], request'[o], base'[o], next'[o])
    PROVE  AllUnderway'
<1> SUFFICES ASSUME NEW q \in Operators
             PROVE  Underway(q, pc'[q], row', known'[q], request'[q], base'[q], next'[q])
  BY Zenon DEF AllUnderway
<1>1. CASE q = o
  BY <1>1, Zenon
<1>2. CASE q # o
  <2>1. Idles(q) /\ Underway(q, pc[q], row, known[q], request[q], base[q], next[q])
    BY <1>2, Zenon DEF AllUnderway
  <2> QED
    BY <2>1, Zenon DEF Idles
<1> QED
  BY <1>1, <1>2, Zenon

\* A stored incident does not disappear.
LEMMA NoneIsNoDocument ==
    ASSUME NEW i, Stored(i)
    PROVE  i # None /\ i \in IncidentDocument
BY OperatorAssumption, Zenon DEF Stored

\* A write leaves what was prepared before it behind.
LEMMA OutdatedIsPending ==
    ASSUME NEW i, Stored(i), NEW c, NEW e, Grown(i, c, e),
           NEW r, NEW o, NEW b, NEW n, Pending(i, r, o, b, n)
    PROVE  Pending(c, r, o, b, n)
<1>1. /\ Stored(c) /\ c.version[1] = i.version[1] + 1
  BY Zenon DEF Grown
<1>2. i \in IncidentDocument /\ c \in IncidentDocument
  BY <1>1, NoneIsNoDocument, Zenon
<1>3. i.version[1] \in Nat
  <2>1. i.version \in Nat \X (Operators \cup {Ingester})
    BY <1>2, Zenon DEF IncidentDocument
  <2> QED
    BY <2>1, Zenon
<1> DEFINE v == b.revision.version
<1>4. v \in Nat \X (Operators \cup {Ingester}) /\ v[1] <= i.version[1]
  BY Zenon DEF Pending
<1> HIDE DEF v
<1>5. v[1] <= c.version[1] /\ v # c.version
  BY <1>1, <1>3, <1>4
<1> QED
  BY <1>5, Zenon DEF v, Pending

\* The row is written and the others were not past the locks.
LEMMA OthersAfterWrite ==
    ASSUME AllUnderway, Stored(row), NEW e, Grown(row, row', e),
           NEW q \in Operators, Idles(q), pc[q] \notin {"written", "chained"}
    PROVE  Underway(q, pc'[q], row', known'[q], request'[q], base'[q], next'[q])
<1>1. Underway(q, pc[q], row, known[q], request[q], base[q], next[q])
  BY Zenon DEF AllUnderway
<1>2. row' # None
  BY NoneIsNoDocument, Zenon DEF Grown
<1>3. Underway(q, pc[q], row', known[q], request[q], base[q], next[q])
  <2>1. pc[q] # "idle" => Command(request[q], q)
    BY <1>1, Zenon DEF Underway
  <2>2. pc[q] \in {"prepared", "written", "chained"}
          => Pending(row', request[q], q, base[q], next[q])
    BY <1>1, OutdatedIsPending, Zenon DEF Underway
  <2> QED
    BY <1>2, <2>1, <2>2, Zenon DEF Underway
<1> QED
  BY <1>3, Zenon DEF Idles

\* A request that ends leaves nothing to hold of it.
LEMMA EndedIsIdle ==
    ASSUME IncidentInv, NEW o \in Operators, Ended(o), NEW k, known' = [known EXCEPT ![o] = k]
    PROVE  /\ PerOperator' /\ pc'[o] = "idle" /\ known'[o] = k
           /\ \A q \in Operators \ {o} : Idles(q)
<1>1. /\ pc = [q \in Operators |-> pc[q]] /\ request = [q \in Operators |-> request[q]]
      /\ known = [q \in Operators |-> known[q]] /\ base = [q \in Operators |-> base[q]]
      /\ next = [q \in Operators |-> next[q]]
  BY Zenon DEF IncidentInv, ChainInv, PerOperator
<1>2. /\ pc' = [pc EXCEPT ![o] = "idle"] /\ request' = [request EXCEPT ![o] = None]
      /\ base' = [base EXCEPT ![o] = None] /\ next' = [next EXCEPT ![o] = None]
  BY Zenon DEF Ended
<1>3. pc'[o] = "idle" /\ \A q \in Operators \ {o} : pc'[q] = pc[q]
  BY <1>1, <1>2, UpdateAt, Zenon
<1>4. \A q \in Operators \ {o} : request'[q] = request[q]
  BY <1>1, <1>2, UpdateAt, Zenon
<1>5. base' = [q \in Operators |-> base'[q]] /\ \A q \in Operators \ {o} : base'[q] = base[q]
  BY <1>1, <1>2, UpdateAt, Zenon
<1>6. next' = [q \in Operators |-> next'[q]] /\ \A q \in Operators \ {o} : next'[q] = next[q]
  BY <1>1, <1>2, UpdateAt, Zenon
<1>7. /\ known' = [q \in Operators |-> known'[q]] /\ known'[o] = k
      /\ \A q \in Operators \ {o} : known'[q] = known[q]
  BY <1>1, UpdateAt, Zenon
<1> QED
  BY <1>3, <1>4, <1>5, <1>6, <1>7, Zenon DEF PerOperator, Idles

\* A refused or failed request leaves incident and audit trail as they are.
LEMMA RefuseInv ==
    ASSUME IncidentInv, NEW o \in Operators, pc[o] # "idle", Refuse(o)
    PROVE  PerOperator' /\ Durable(row, audit)' /\ AllUnderway'
<1>1. /\ Ended(o) /\ known' = [known EXCEPT ![o] = request[o].precondition]
      /\ row' = row /\ audit' = audit
  BY Zenon DEF Refuse
<1>2. PerOperator' /\ pc'[o] = "idle" /\ \A q \in Operators \ {o} : Idles(q)
  BY <1>1, EndedIsIdle, Zenon
<1>3. row # None
  BY Zenon DEF IncidentInv, AllUnderway, Underway
<1>4. Underway(o, pc'[o], row, known'[o], request'[o], base'[o], next'[o])
  BY <1>2, <1>3, Zenon DEF Underway
<1>5. AllUnderway'
  BY <1>1, <1>2, <1>4, OneMoves, Zenon DEF IncidentInv
<1> QED
  BY <1>1, <1>2, <1>5, Zenon DEF IncidentInv

\* Create stores an incident whose only entry is the system's.
LEMMA IngestsInv ==
    ASSUME IncidentInv, Ingests
    PROVE  PerOperator' /\ Durable(row, audit)' /\ AllUnderway'
<1>1. PICK skew \in 0..MaxSkew :
         LET at == clock + skew
         IN row' = canonicalizeIncidentTimes(
            [status |-> "open", generation |-> 1, version |-> <<1, Ingester>>,
             startedAt |-> at, lastObservedAt |-> at, updatedAt |-> at, ack |-> None,
             timeline |-> <<Entry("opened", at, None)>>, evidence |-> {}, runbook |-> None])
  BY Zenon DEF Ingests
<1> DEFINE at == clock + skew
           entry == Entry("opened", at, None)
           t == <<entry>>
           v == <<1, Ingester>>
           new == [status |-> "open", generation |-> 1, version |-> v,
                   startedAt |-> at, lastObservedAt |-> at, updatedAt |-> at, ack |-> None,
                   timeline |-> t, evidence |-> {}, runbook |-> None]
<1>2. row' = canonicalizeIncidentTimes(new)
  BY <1>1, Zenon
<1>3. /\ row = None
      /\ UNCHANGED <<audit, pc, known, request, base, next>>
  BY Zenon DEF Ingests, call
<1>4. at \in Int
  BY OperatorAssumption DEF IncidentInv, ChainInv
<1>5. entry \in TimelineEntry /\ entry.actor = None
  BY <1>4, Zenon DEF Entry, TimelineEntry, TimelineKinds, SystemKinds
<1>6. v \in Nat \X (Operators \cup {Ingester})
  BY Zenon
<1> HIDE DEF at, entry, v
<1>7. t \in Seq(TimelineEntry) /\ \A k \in DOMAIN t : t[k].actor = None
  BY <1>5
<1> HIDE DEF t
<1>8. "open" \in Statuses
  BY Zenon DEF Statuses
<1>9. /\ new \in IncidentDocument /\ new.evidence = {} /\ new.timeline = t
  BY <1>4, <1>6, <1>7, <1>8, Zenon DEF IncidentDocument
<1> HIDE DEF new
<1>10. IsFiniteSet(new.evidence)
  BY <1>9, FS_EmptySet, Zenon
<1>11. Stored(row')
  BY <1>2, <1>9, <1>10, WrittenIsStored, Zenon
<1>12. row'.timeline = CanonicalTimeline(t)
  BY <1>2, <1>9, CanonicalFields, Zenon
<1>13. \A k \in DOMAIN row'.timeline : row'.timeline[k].actor = None
  <2> SUFFICES ASSUME NEW k \in DOMAIN CanonicalTimeline(t)
               PROVE  CanonicalTimeline(t)[k].actor = None
    BY <1>12, Zenon
  <2>1. /\ k \in DOMAIN t /\ t[k] \in TimelineEntry
        /\ CanonicalTimeline(t)[k] = CanonicalEntry(t[k])
    BY <1>7, CutTimelineFields
  <2>2. CanonicalEntry(t[k]).actor = t[k].actor
    BY <2>1, CutEntryFields, Zenon
  <2> QED
    BY <1>7, <2>1, <2>2, Zenon
<1>14. {k \in DOMAIN audit : audit[k].action # Other} = {}
  BY <1>3, Zenon DEF IncidentInv, Durable
<1>15. Audited(row'.timeline, audit)
  BY <1>13, <1>14, OpeningIsAudited, Zenon
<1>16. row' # None
  BY <1>11, NoneIsNoDocument, Zenon
<1>17. Durable(row', audit')
  BY <1>3, <1>11, <1>15, <1>16, Zenon DEF Durable
<1>18. \A q \in Operators : pc[q] = "idle"
  BY <1>3, Zenon DEF IncidentInv, AllUnderway, Underway
<1>19. AllUnderway'
  BY <1>3, <1>16, <1>18, Zenon DEF AllUnderway, Underway
<1>20. PerOperator'
  BY <1>3, Zenon DEF IncidentInv, PerOperator
<1> QED
  BY <1>17, <1>19, <1>20, Zenon

\* Replace finds the row unlocked and lets it grow by an entry of the system.
LEMMA ObserveInv ==
    ASSUME IncidentInv, Observe
    PROVE  /\ PerOperator' /\ Durable(row, audit)' /\ AllUnderway'
           /\ \E e : Grown(row, row', e)
<1>1. PICK skew \in 0..MaxSkew :
         /\ row # None /\ rowLock = None
         /\ Validate(Observed(clock + skew))
         /\ ValidateSuccessor(row, Observed(clock + skew), FALSE)
         /\ row' = Observed(clock + skew)
  BY Zenon DEF Observe
<1>2. UNCHANGED <<audit, pc, known, request, base, next>>
  BY Zenon DEF Observe, call
<1>3. clock + skew \in Nat
  BY OperatorAssumption DEF IncidentInv, ChainInv
<1>4. Stored(row) /\ Audited(row.timeline, audit)
  BY <1>1, Zenon DEF IncidentInv, Durable
<1>5. PICK e : e.actor = None /\ Grown(row, row', e)
  BY <1>1, <1>3, <1>4, ObserveGrows, Zenon
<1>6. /\ Stored(row') /\ e \in TimelineEntry /\ row'.timeline = Append(row.timeline, e)
  BY <1>5, Zenon DEF Grown
<1>7. row.timeline \in Seq(TimelineEntry)
  BY <1>4, Zenon DEF Stored, IncidentDocument
<1>8. Audited(row'.timeline, audit)
  BY <1>4, <1>5, <1>6, <1>7, SystemEntryKeepsAudit, Zenon
<1>9. row' # None
  BY <1>6, NoneIsNoDocument, Zenon
<1>10. Durable(row', audit')
  BY <1>2, <1>6, <1>8, <1>9, Zenon DEF Durable
<1>11. \A q \in Operators : Idles(q) /\ pc[q] \notin {"written", "chained"}
  <2>1. \A q \in Operators : rowLock # q
    BY <1>1, OperatorAssumption, Zenon
  <2> QED
    BY <1>2, <2>1, Zenon DEF Idles, IncidentInv, ChainInv, LocksAreHeldByRequests
<1>12. AllUnderway
  BY Zenon DEF IncidentInv
<1>13. \A q \in Operators : Underway(q, pc'[q], row', known'[q], request'[q], base'[q], next'[q])
  BY <1>4, <1>5, <1>11, <1>12, OthersAfterWrite, Zenon
<1>14. AllUnderway'
  BY <1>13, Zenon DEF AllUnderway
<1>15. PerOperator'
  BY <1>2, Zenon DEF IncidentInv, PerOperator
<1> QED
  BY <1>5, <1>10, <1>14, <1>15, Zenon

\* A read changes what its operator knows.
LEMMA ViewInv ==
    ASSUME IncidentInv, NEW o \in Operators, View(o)
    PROVE  PerOperator' /\ Durable(row, audit)' /\ AllUnderway'
<1>1. /\ pc[o] = "idle" /\ row # None /\ known' = [known EXCEPT ![o] = Revision(row)]
      /\ UNCHANGED <<row, audit, pc, request, base, next>>
  BY Zenon DEF View, call
<1>2. PerOperator
  BY Zenon DEF IncidentInv
<1>3. /\ known' = [q \in Operators |-> known'[q]]
      /\ \A q \in Operators \ {o} : known'[q] = known[q]
  BY <1>1, <1>2, UpdateAt, Zenon DEF PerOperator
<1>4. PerOperator' /\ \A q \in Operators \ {o} : Idles(q)
  BY <1>1, <1>2, <1>3, Zenon DEF PerOperator, Idles
<1>5. Underway(o, pc'[o], row, known'[o], request'[o], base'[o], next'[o])
  BY <1>1, Zenon DEF Underway
<1>6. AllUnderway'
  BY <1>1, <1>4, <1>5, OneMoves, Zenon DEF IncidentInv
<1> QED
  BY <1>1, <1>4, <1>6, Zenon DEF IncidentInv

\* A command of one of the three handlers is well formed.
LEMMA SendInv ==
    ASSUME IncidentInv, NEW o \in Operators, Send(o)
    PROVE  PerOperator' /\ Durable(row, audit)' /\ AllUnderway'
<1>1. PICK c \in Commands :
         request' = [request EXCEPT ![o] =
            [op |-> c.op, evidence |-> c.evidence, runbook |-> c.runbook, actor |-> o,
             at |-> clock, precondition |-> known[o]]]
  BY Zenon DEF Send
<1>2. /\ pc[o] = "idle" /\ known[o] # None /\ pc' = [pc EXCEPT ![o] = "arrived"]
      /\ known' = [known EXCEPT ![o] = None] /\ UNCHANGED <<row, audit, base, next>>
  BY Zenon DEF Send
<1>3. /\ PerOperator /\ ChainInv /\ row # None
  BY <1>2, Zenon DEF IncidentInv, AllUnderway, Underway
<1> DEFINE r == [op |-> c.op, evidence |-> c.evidence, runbook |-> c.runbook, actor |-> o,
                 at |-> clock, precondition |-> known[o]]
<1>4. /\ c.op \in Ops /\ c.runbook \in Runbooks \cup {None}
      /\ (c.evidence = {} \/ \E e \in EvidenceRefs : c.evidence = {e})
  BY Zenon DEF Commands, Ops
<1>5. c.evidence \in SUBSET EvidenceReference /\ IsFiniteSet(c.evidence)
  <2>1. CASE c.evidence = {}
    BY <2>1, FS_EmptySet, Zenon
  <2>2. CASE \E e \in EvidenceRefs : c.evidence = {e}
    <3>1. PICK e \in EvidenceRefs : c.evidence = {e}
      BY <2>2, Zenon
    <3>2. IsFiniteSet({e})
      BY FS_Singleton, Zenon
    <3> QED
      BY <3>1, <3>2, OperatorAssumption, Zenon
  <2> QED
    BY <1>4, <2>1, <2>2, Zenon
<1>6. Command(r, o)
  <2>1. clock \in Nat
    BY <1>3, Zenon DEF ChainInv
  <2> QED
    BY <1>4, <1>5, <2>1, Zenon DEF Command
<1> HIDE DEF r
<1>7. /\ pc = [q \in Operators |-> pc[q]] /\ request = [q \in Operators |-> request[q]]
      /\ known = [q \in Operators |-> known[q]]
  BY <1>3, Zenon DEF ChainInv, PerOperator
<1>8. request'[o] = r /\ \A q \in Operators \ {o} : request'[q] = request[q]
  BY <1>1, <1>7, UpdateAt, Zenon DEF r
<1>9. pc'[o] = "arrived" /\ \A q \in Operators \ {o} : pc'[q] = pc[q]
  BY <1>2, <1>7, UpdateAt, Zenon
<1>10. /\ known' = [q \in Operators |-> known'[q]]
       /\ \A q \in Operators \ {o} : known'[q] = known[q]
  BY <1>2, <1>7, UpdateAt, Zenon
<1>11. PerOperator' /\ \A q \in Operators \ {o} : Idles(q)
  BY <1>2, <1>3, <1>8, <1>9, <1>10, Zenon DEF PerOperator, Idles
<1>12. Underway(o, pc'[o], row, known'[o], request'[o], base'[o], next'[o])
  BY <1>3, <1>6, <1>8, <1>9, Zenon DEF Underway
<1>13. AllUnderway'
  BY <1>2, <1>11, <1>12, OneMoves, Zenon DEF IncidentInv
<1> QED
  BY <1>2, <1>11, <1>13, Zenon DEF IncidentInv

\* What commitMutation prepares is Pending for the row it was made from.
LEMMA PrepareInv ==
    ASSUME IncidentInv, NEW o \in Operators, PrepareMutation(o)
    PROVE  PerOperator' /\ Durable(row, audit)' /\ AllUnderway'
<1> DEFINE n == Prepare(row, request[o], Token(row, o))
<1>1. CASE n = None /\ Refuse(o)
  <2>1. pc[o] # "idle"
    BY Zenon DEF PrepareMutation
  <2> QED
    BY <1>1, <2>1, RefuseInv, Zenon
<1>2. CASE /\ n # None
           /\ pc' = [pc EXCEPT ![o] = "prepared"]
           /\ base' = [base EXCEPT ![o] = Recorded(row)]
           /\ next' = [next EXCEPT ![o] = n]
           /\ UNCHANGED <<row, audit, rowLock, auditLock, request, head, known, clock, annotated>>
  <2>1. /\ PerOperator /\ ChainInv /\ Durable(row, audit) /\ AllUnderway
    BY Zenon DEF IncidentInv
  <2>2. pc[o] # "idle" /\ row # None /\ Command(request[o], o)
    <3>1. pc[o] # "idle"
      BY Zenon DEF PrepareMutation
    <3> QED
      BY <2>1, <3>1, Zenon DEF AllUnderway, Underway
  <2>3. Stored(row)
    BY <2>1, <2>2, Zenon DEF Durable
  <2>4. ValidateAgainst(request[o].precondition, row)
    BY <1>2, <2>2, <2>3, CommitGrows, Zenon
  <2>5. request[o].precondition.version = row.version
    BY <2>4, Zenon DEF ValidateAgainst
  <2>6. row.version \in Nat \X (Operators \cup {Ingester})
    BY <2>3, Zenon DEF Stored, IncidentDocument
  <2>7. row.version[1] <= row.version[1]
    BY <2>6
  <2> HIDE DEF n
  <2>8. Recorded(row).revision.version = row.version
    BY Zenon DEF Recorded, Revision
  <2>9. Pending(row, request[o], o, Recorded(row), n)
    BY <1>2, <2>5, <2>6, <2>7, <2>8, Zenon DEF Pending, n
  <2>10. /\ pc = [q \in Operators |-> pc[q]] /\ base = [q \in Operators |-> base[q]]
         /\ next = [q \in Operators |-> next[q]]
    BY <2>1, Zenon DEF ChainInv, PerOperator
  <2>11. pc'[o] = "prepared" /\ \A q \in Operators \ {o} : pc'[q] = pc[q]
    BY <1>2, <2>10, UpdateAt, Zenon
  <2>12. /\ base' = [q \in Operators |-> base'[q]] /\ base'[o] = Recorded(row)
         /\ \A q \in Operators \ {o} : base'[q] = base[q]
    BY <1>2, <2>10, UpdateAt, Zenon
  <2>13. /\ next' = [q \in Operators |-> next'[q]] /\ next'[o] = n
         /\ \A q \in Operators \ {o} : next'[q] = next[q]
    BY <1>2, <2>10, UpdateAt, Zenon
  <2>14. PerOperator' /\ \A q \in Operators \ {o} : Idles(q)
    BY <1>2, <2>1, <2>11, <2>12, <2>13, Zenon DEF PerOperator, Idles
  <2>15. Underway(o, pc'[o], row, known'[o], request'[o], base'[o], next'[o])
    BY <1>2, <2>2, <2>9, <2>11, <2>12, <2>13, Zenon DEF Underway
  <2>16. AllUnderway'
    BY <1>2, <2>1, <2>14, <2>15, OneMoves, Zenon
  <2> QED
    BY <1>2, <2>1, <2>14, <2>16, Zenon
<1> QED
  BY <1>1, <1>2, Zenon DEF PrepareMutation

\* pc alone moves on.
LEMMA StepInv ==
    ASSUME IncidentInv, NEW o \in Operators, NEW point, pc' = [pc EXCEPT ![o] = point],
           pc[o] # "idle", UNCHANGED <<row, audit, known, request, base, next>>,
           point # "idle", Pending(row, request[o], o, base[o], next[o]),
           base[o].revision.version = row.version
    PROVE  PerOperator' /\ Durable(row, audit)' /\ AllUnderway'
<1>1. PerOperator /\ ChainInv /\ Durable(row, audit) /\ AllUnderway
  BY Zenon DEF IncidentInv
<1>2. pc = [q \in Operators |-> pc[q]]
  BY <1>1, Zenon DEF ChainInv
<1>3. pc'[o] = point /\ \A q \in Operators \ {o} : pc'[q] = pc[q]
  BY <1>2, UpdateAt, Zenon
<1>4. PerOperator' /\ \A q \in Operators \ {o} : Idles(q)
  BY <1>1, <1>3, Zenon DEF PerOperator, Idles
<1>5. row # None /\ Command(request[o], o)
  BY <1>1, Zenon DEF AllUnderway, Underway
<1>6. Underway(o, pc'[o], row, known'[o], request'[o], base'[o], next'[o])
  BY <1>3, <1>5, Zenon DEF Underway
<1>7. AllUnderway'
  BY <1>1, <1>4, <1>6, OneMoves, Zenon
<1> QED
  BY <1>1, <1>4, <1>7, Zenon

\* The row is locked with the mutation bound to it by the audit record.
LEMMA LockRowInv ==
    ASSUME IncidentInv, NEW o \in Operators, LockRow(o)
    PROVE  PerOperator' /\ Durable(row, audit)' /\ AllUnderway'
<1>1. pc[o] = "prepared"
  BY Zenon DEF LockRow
<1>2. CASE Refuse(o)
  BY <1>1, <1>2, RefuseInv, Zenon
<1>3. CASE /\ Committable(o) /\ pc' = [pc EXCEPT ![o] = "written"]
           /\ UNCHANGED <<row, audit, known, request, base, next>>
  <2>1. Pending(row, request[o], o, base[o], next[o])
    BY <1>1, Zenon DEF IncidentInv, AllUnderway, Underway
  <2>2. base[o].revision.version = row.version
    BY <1>3 DEF Committable, AuditBinding, Recorded, Revision
  <2> QED
    BY <1>1, <1>3, <2>1, <2>2, StepInv, Zenon
<1> QED
  BY <1>2, <1>3, Zenon DEF LockRow

\* Taking the chain's lock changes nothing about the mutation.
LEMMA LockChainInv ==
    ASSUME IncidentInv, NEW o \in Operators, LockChain(o)
    PROVE  PerOperator' /\ Durable(row, audit)' /\ AllUnderway'
<1>1. /\ pc[o] = "written" /\ pc' = [pc EXCEPT ![o] = "chained"]
      /\ UNCHANGED <<row, audit, known, request, base, next>>
  BY Zenon DEF LockChain
<1>2. /\ Pending(row, request[o], o, base[o], next[o])
      /\ base[o].revision.version = row.version
  BY <1>1, Zenon DEF IncidentInv, AllUnderway, Underway
<1> QED
  BY <1>1, <1>2, StepInv, Zenon

\* Of a request that holds the row: its mutation was prepared from this very row.
LEMMA HolderIsCurrent ==
    ASSUME IncidentInv, NEW o \in Operators, pc[o] \in {"written", "chained"}
    PROVE  /\ Stored(row) /\ Audited(row.timeline, audit) /\ Command(request[o], o)
           /\ next[o] # None /\ next[o] = Prepare(row, request[o], Token(row, o))
<1>1. Underway(o, pc[o], row, known[o], request[o], base[o], next[o])
  BY Zenon DEF IncidentInv, AllUnderway
<1>2. /\ row # None /\ Command(request[o], o) /\ Pending(row, request[o], o, base[o], next[o])
      /\ base[o].revision.version = row.version
  BY <1>1, Zenon DEF Underway
<1>3. Stored(row) /\ Audited(row.timeline, audit)
  BY <1>2, Zenon DEF IncidentInv, Durable
<1> QED
  BY <1>2, <1>3, Zenon DEF Pending

\* The audit event of a mutation names the entry it adds: actor, kind and the
\* time as PostgreSQL returns it.
LEMMA EventEntry ==
    ASSUME NEW op \in Ops, NEW o \in Operators, NEW at \in Int, NEW previous
    PROVE  EntryOf([action |-> op, actor |-> o, at |-> postgresTime(at), previous |-> previous])
              = CanonicalEntry(Entry(MutationKind(op), at, o))
<1> DEFINE kind == MutationKind(op)  cut == postgresTime(at)
           event == [action |-> op, actor |-> o, at |-> cut, previous |-> previous]
<1>1. EntryOf(event) = Entry(kind, cut, o)
  <2>1. CASE op = "acknowledge"
    BY <2>1, Zenon DEF EntryOf, MutationKind
  <2>2. CASE op = "resolve"
    BY <2>2, Zenon DEF EntryOf, MutationKind
  <2>3. CASE op = "evidence"
    BY <2>3, Zenon DEF EntryOf, MutationKind
  <2> QED
    BY <2>1, <2>2, <2>3, Zenon DEF Ops
<1> HIDE DEF kind
<1>2. Entry(kind, at, o).at = at
  BY Zenon DEF Entry
<1>3. CanonicalEntry(Entry(kind, at, o)) = [Entry(kind, at, o) EXCEPT !.at = cut]
  BY <1>2, Zenon DEF CanonicalEntry
<1> HIDE DEF cut
<1>4. [Entry(kind, at, o) EXCEPT !.at = cut] = Entry(kind, cut, o)
  BY DEF Entry
<1> QED
  BY <1>1, <1>3, <1>4, Zenon DEF kind, cut

\* COMMIT writes the row and the event together, from a mutation that was
\* prepared from this very row.
LEMMA CommitInv ==
    ASSUME IncidentInv, NEW o \in Operators, Commit(o)
    PROVE  /\ PerOperator' /\ Durable(row, audit)' /\ AllUnderway'
           /\ \E e : Grown(row, row', e)
<1> DEFINE event == [action |-> request[o].op, actor |-> o,
                     at |-> postgresTime(request[o].at), previous |-> head[o]]
           e == CanonicalEntry(Entry(MutationKind(request[o].op), request[o].at, o))
<1>1. /\ pc[o] = "chained" /\ row' = canonicalizeIncidentTimes(next[o])
      /\ audit' = Append(audit, event) /\ Ended(o)
      /\ \E k : known' = [known EXCEPT ![o] = k]
  BY Zenon DEF Commit, Canonical
<1>2. /\ Stored(row) /\ Audited(row.timeline, audit) /\ Command(request[o], o)
      /\ next[o] # None /\ next[o] = Prepare(row, request[o], Token(row, o))
  BY <1>1, HolderIsCurrent, Zenon
<1>3. Grown(row, row', e)
  BY <1>1, <1>2, CommitGrows, Zenon
<1>4. /\ request[o].op \in Ops /\ request[o].at \in Int
  BY <1>2 DEF Command
<1>5. EntryOf(event) = e
  BY <1>4, EventEntry, Zenon
<1>6. e.actor # None /\ e \in TimelineEntry
  <2>1. Entry(MutationKind(request[o].op), request[o].at, o).actor = o
    BY Zenon DEF Entry
  <2>2. e.actor = o
    BY <2>1, Zenon DEF CanonicalEntry, Entry
  <2>3. e \in TimelineEntry
    BY <1>3, Zenon DEF Grown
  <2> QED
    BY <2>2, <2>3, OperatorAssumption, Zenon
<1>7. event \in Event /\ event.action # Other
  <2>1. head[o] \in Nat
    BY Zenon DEF IncidentInv, ChainInv
  <2>2. postgresTime(request[o].at) \in Int
    BY <1>4, CutTime, Zenon
  <2>3. event \in Event
    BY <1>4, <2>1, <2>2, Zenon DEF Event
  <2>4. event.action # Other
    BY <1>4, Zenon DEF Ops, Other
  <2> QED
    BY <2>3, <2>4, Zenon
<1> HIDE DEF e, event
<1>8. row.timeline \in Seq(TimelineEntry) /\ audit \in Seq(Event)
  BY <1>2, Zenon DEF Stored, IncidentDocument, IncidentInv, ChainInv
<1>9. Stored(row') /\ row'.timeline = Append(row.timeline, e)
  BY <1>3, Zenon DEF Grown
<1>10. Audited(row'.timeline, audit')
  BY <1>1, <1>2, <1>5, <1>6, <1>7, <1>8, <1>9, MutationKeepsAudit, Zenon
<1>11. row' # None
  BY <1>9, NoneIsNoDocument, Zenon
<1>12. Durable(row', audit')
  BY <1>9, <1>10, <1>11, Zenon DEF Durable
<1>13. PerOperator' /\ pc'[o] = "idle" /\ \A q \in Operators \ {o} : Idles(q)
  BY <1>1, EndedIsIdle, Zenon
<1>14. \A q \in Operators \ {o} : pc[q] \notin {"written", "chained"}
  BY <1>1, Zenon DEF IncidentInv, ChainInv, LocksAreHeldByRequests
<1>15. AllUnderway
  BY Zenon DEF IncidentInv
<1>16. \A q \in Operators \ {o} :
          Underway(q, pc'[q], row', known'[q], request'[q], base'[q], next'[q])
  BY <1>2, <1>3, <1>13, <1>14, <1>15, OthersAfterWrite, Zenon
<1>17. Underway(o, pc'[o], row', known'[o], request'[o], base'[o], next'[o])
  BY <1>11, <1>13, Zenon DEF Underway
<1>18. AllUnderway'
  BY <1>16, <1>17, Zenon DEF AllUnderway
<1> QED
  BY <1>3, <1>12, <1>13, <1>18, Zenon

\* Other parts of the system append events that are no mutations.
LEMMA AppendOtherInv ==
    ASSUME IncidentInv, AppendOther
    PROVE  PerOperator' /\ Durable(row, audit)' /\ AllUnderway'
<1> DEFINE event == [action |-> Other, actor |-> None, at |-> postgresTime(clock),
                     previous |-> Hash(Len(audit))]
<1>1. /\ audit' = Append(audit, event) /\ UNCHANGED <<row, pc, known, request, base, next>>
  BY Zenon DEF AppendOther, call
<1>2. PerOperator /\ ChainInv /\ Durable(row, audit) /\ AllUnderway
  BY Zenon DEF IncidentInv
<1>3. audit \in Seq(Event) /\ clock \in Int
  BY <1>2 DEF ChainInv
<1>4. event \in Event /\ event.action = Other
  <2>1. postgresTime(clock) \in Int /\ Hash(Len(audit)) \in Nat
    BY <1>3, CutTime DEF Hash
  <2> QED
    BY <2>1, Zenon DEF Event
<1> HIDE DEF event
<1>5. row # None => Audited(row.timeline, audit')
  BY <1>1, <1>2, <1>3, <1>4, OtherEventKeepsAudit, Zenon DEF Durable
<1>6. {k \in DOMAIN audit : audit[k].action # Other} = {}
        => {k \in DOMAIN audit' : audit'[k].action # Other} = {}
  BY <1>1, <1>3, <1>4, AppendFacts
<1>7. Durable(row', audit')
  BY <1>1, <1>2, <1>5, <1>6, Zenon DEF Durable
<1>8. PerOperator' /\ AllUnderway'
  BY <1>1, <1>2, Zenon DEF PerOperator, AllUnderway
<1> QED
  BY <1>7, <1>8, Zenon

\* A step writes the row only to create it or to let it grow.
LEMMA NextInv ==
    ASSUME IncidentInv, [Next]_vars
    PROVE  IncidentInv' /\ (row' = row \/ row = None \/ \E e : Grown(row, row', e))
<1> DEFINE Writes == row' = row \/ row = None \/ \E e : Grown(row, row', e)
<1>1. ChainInv'
  BY NextChain, Zenon DEF IncidentInv
<1> SUFFICES PerOperator' /\ Durable(row, audit)' /\ AllUnderway' /\ Writes
  BY <1>1, Zenon DEF IncidentInv
<1>2. CASE Ingests
  BY <1>2, IngestsInv, Zenon DEF Ingests
<1>3. CASE Observe
  BY <1>3, ObserveInv, Zenon
<1>4. CASE UNCHANGED <<row, audit, pc, known, request, base, next>>
  BY <1>4, Zenon DEF IncidentInv, PerOperator, AllUnderway
<1>5. CASE AppendOther
  BY <1>5, AppendOtherInv, Zenon DEF AppendOther
<1>6. ASSUME NEW o \in Operators, View(o)
      PROVE  PerOperator' /\ Durable(row, audit)' /\ AllUnderway' /\ Writes
  BY <1>6, ViewInv, Zenon DEF View
<1>7. ASSUME NEW o \in Operators, Send(o)
      PROVE  PerOperator' /\ Durable(row, audit)' /\ AllUnderway' /\ Writes
  BY <1>7, SendInv, Zenon DEF Send
<1>8. ASSUME NEW o \in Operators, Handle(o)
      PROVE  PerOperator' /\ Durable(row, audit)' /\ AllUnderway' /\ Writes
  <2>1. CASE PrepareMutation(o)
    BY <2>1, PrepareInv, Zenon DEF PrepareMutation, Refuse
  <2>2. CASE LockRow(o)
    BY <2>2, LockRowInv, Zenon DEF LockRow, Refuse
  <2>3. CASE LockChain(o)
    BY <2>3, LockChainInv, Zenon DEF LockChain
  <2>4. CASE Commit(o)
    BY <2>4, CommitInv, Zenon
  <2>5. CASE Fail(o)
    BY <2>5, RefuseInv, Zenon DEF Fail, Refuse
  <2> QED
    BY <1>8, <2>1, <2>2, <2>3, <2>4, <2>5, Zenon DEF Handle
<1>9. CASE Tick
  BY <1>4, <1>9, Zenon DEF Tick, call
<1>10. CASE UNCHANGED vars
  BY <1>4, <1>10, Zenon DEF vars, call
<1> QED
  BY <1>2, <1>3, <1>5, <1>6, <1>7, <1>8, <1>9, <1>10, Zenon DEF Next

-----------------------------------------------------------------------------
(* What follows *)

\* The invariant holds in every state: whatever is stored is what a read
\* returns, timeline and audit trail agree, and what a handler has prepared is
\* current or bound to an older version, in whatever order handlers, signals,
\* other audited parts, failures and lost answers come.
THEOREM IncidentInvariant == Spec => []IncidentInv
<1>1. IncidentInv /\ [Next]_vars => IncidentInv'
  BY NextInv, Zenon
<1> QED
  BY <1>1, InitInv, PTL DEF Spec

\* For any operators, evidence and clocks the transaction of a mutation is
\* whole (TransactionsAreWhole; CommitIncidentMutation,
\* appendAuditEventWithinTx): the operator entries of the timeline are the
\* audited mutations in order, the chain has no gap and no lock outlives its
\* request.
THEOREM TransactionSafety == Spec => []TransactionsAreWhole
<1>1. IncidentInv => TransactionsAreWhole
  <2> SUFFICES ASSUME IncidentInv PROVE TransactionsAreWhole
    BY Zenon
  <2>1. TimelineIsAudited
    BY Zenon DEF IncidentInv, Durable, Audited, TimelineIsAudited
  <2>2. AuditChainUnbroken /\ LocksAreHeldByRequests
    BY Zenon DEF IncidentInv, ChainInv
  <2> QED
    BY <2>1, <2>2, Zenon DEF TransactionsAreWhole
<1> QED
  BY <1>1, IncidentInvariant, PTL

\* For any interleaving a prepared mutation whose precondition still names the
\* stored revision is accepted (MatchingCommitIsAccepted): neither the cut to
\* microseconds nor anything read before the locks makes
\* CommitIncidentMutation refuse it.
THEOREM MatchingCommits == Spec => []MatchingCommitIsAccepted
<1>1. IncidentInv => MatchingCommitIsAccepted
  <2> SUFFICES ASSUME IncidentInv, NEW o \in Operators, pc[o] = "prepared",
                      ValidateAgainst(request[o].precondition, row)
               PROVE  Validate(Canonical(o)) /\ Committable(o)
    BY Zenon DEF MatchingCommitIsAccepted
  <2>1. /\ row # None /\ Command(request[o], o)
        /\ Pending(row, request[o], o, base[o], next[o])
    BY Zenon DEF IncidentInv, AllUnderway, Underway
  <2>2. Stored(row)
    BY <2>1, Zenon DEF IncidentInv, Durable
  <2>3. /\ base[o] = Recorded(row) /\ next[o] # None
        /\ next[o] = Prepare(row, request[o], Token(row, o))
    BY <2>1, Zenon DEF Pending, ValidateAgainst
  <2>4. /\ Validate(Canonical(o))
        /\ ValidateSuccessor(row, Canonical(o), DesiredChanged(request[o]))
    BY <2>1, <2>2, <2>3, CommitGrows, Zenon DEF Canonical
  <2> QED
    BY <2>3, <2>4, Zenon DEF Committable, AuditBinding
<1> QED
  BY <1>1, IncidentInvariant, PTL

\* A sequence with one more element continues the sequence.
LEMMA AppendContinues ==
    ASSUME NEW t \in Seq(TimelineEntry), NEW e \in TimelineEntry
    PROVE  Continues(Append(t, e), t)
BY DEF Continues

\* For any interleaving the stored incident only grows (HistoryOnlyGrows;
\* CommitIncidentMutation, Replace): no write loses an entry or an evidence
\* reference, moves time back or touches a resolved incident.
THEOREM HistoryGrows == Spec => HistoryOnlyGrows
<1> DEFINE Growth ==
        row # None =>
          /\ Continues(row'.timeline, row.timeline)
          /\ row.evidence \subseteq row'.evidence
          /\ validateEvidenceSet(row'.evidence)
          /\ row.startedAt = row'.startedAt /\ row.updatedAt <= row'.updatedAt
          /\ row.status # "resolved"
<1>1. IncidentInv /\ [Next]_vars => [Growth]_row
  <2> SUFFICES ASSUME IncidentInv, [Next]_vars, row' # row, row # None PROVE Growth
    BY Zenon
  <2>1. PICK e : Grown(row, row', e)
    BY NextInv, Zenon
  <2>2. Stored(row)
    BY Zenon DEF IncidentInv, Durable
  <2>3. row.timeline \in Seq(TimelineEntry)
    BY <2>2, Zenon DEF Stored, IncidentDocument
  <2>4. Continues(row'.timeline, row.timeline)
    BY <2>1, <2>3, AppendContinues, Zenon DEF Grown
  <2> QED
    BY <2>1, <2>4, Zenon DEF Grown
<1> QED
  BY <1>1, IncidentInvariant, PTL DEF Spec, HistoryOnlyGrows
=============================================================================
