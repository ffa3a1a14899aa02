-------------------------- MODULE IncidentOperator --------------------------
(***************************************************************************)
(* Operators at work on one incident: the HTTP handlers and OperatorService*)
(* (incidents/httpapi, incidents/operator.go) above the PostgreSQL         *)
(* committer (postgres/incidents_operator.go), next to the two other       *)
(* writers of the same tables: whoever feeds signals in through Create and *)
(* Replace (postgres/incidents.go; the caller is not part of the           *)
(* repository) and everything else that is audited (postgres/audit.go).    *)
(*                                                                         *)
(* A request reads the incident, prepares its successor from that copy and *)
(* commits in one transaction, whose two locks (the row, the audit chain)  *)
(* are steps of their own. Any database call may fail, and the answer to a *)
(* commit may be lost; the operator may then send the same request again.  *)
(*                                                                         *)
(* A resource version is 16 random bytes: it is named by the number of     *)
(* writes it follows and by who drew it. Access checks either let a        *)
(* request through unchanged or end it like any refusal.                   *)
(***************************************************************************)
EXTENDS Incident

CONSTANTS
    Operators,
    Ingester,      \* writes signals
    EvidenceRefs,  \* references an operator may attach
    Runbooks,
    MaxSkew,       \* bound: how far the ingester's clock may be ahead
    MaxOther,      \* bound: audit events of other parts of the system
    MaxClock       \* bound: last clock value explored

\* The documents and their parts.
EvidenceReference ==
    [id : {e.id : e \in EvidenceRefs}, meta : {e.meta : e \in EvidenceRefs}, collected : Int]
Acknowledgement == [actor : Operators, at : Int]
TimelineEntry == [kind : TimelineKinds, at : Int, actor : Operators \cup {None}]
IncidentDocument ==
    [status : Statuses, generation : Nat, version : Nat \X (Operators \cup {Ingester}),
     startedAt : Int, lastObservedAt : Int, updatedAt : Int,
     ack : Acknowledgement \cup {None}, timeline : Seq(TimelineEntry),
     evidence : SUBSET EvidenceReference, runbook : Runbooks \cup {None}]

ASSUME OperatorAssumption ==
    /\ Ingester \notin Operators /\ None \notin Operators
    /\ None \notin Acknowledgement /\ None \notin IncidentDocument
    /\ EvidenceRefs \subseteq EvidenceReference
    /\ MaxSkew \in Nat /\ MaxOther \in Nat /\ MaxClock \in Nat

VARIABLES
    row,        \* cc_incident_read_models: the incident, None before Create
    audit,      \* cc_audit_events, in the order of sequence_id
    rowLock,    \* the operator whose transaction holds the row, or None
    auditLock,  \* the operator whose transaction holds the chain's advisory lock
    pc,         \* how far the operator's request is
    known,      \* precondition from the last answer an idle operator got, or None
    request,    \* the command being handled
    base,       \* the revision the service has read, as its audit record has it
    next,       \* PreparedMutation.Next
    head,       \* hash of the newest audit event, as the transaction has read it
    clock,
    annotated   \* history: evidence as it was sent in updates that committed

call == <<pc, request, base, next, head>>
vars == <<row, audit, rowLock, auditLock, call, known, clock, annotated>>

\* Of the n-th audit event; 0 is the empty hash before the first.
Hash(n) == n

Token(current, who) == <<current.version[1] + 1, who>>

Init ==
    /\ row = None /\ audit = <<>>
    /\ rowLock = None /\ auditLock = None
    /\ pc = [o \in Operators |-> "idle"]
    /\ known = [o \in Operators |-> None]
    /\ request = [o \in Operators |-> None]
    /\ base = [o \in Operators |-> None]
    /\ next = [o \in Operators |-> None]
    /\ head = [o \in Operators |-> 0]
    /\ clock = 0
    /\ annotated = {}

-----------------------------------------------------------------------------
(* The ingester *)

Ingests == \E skew \in 0..MaxSkew :
    LET at == clock + skew
        created == canonicalizeIncidentTimes(
            [status |-> "open", generation |-> 1, version |-> <<1, Ingester>>,
             startedAt |-> at, lastObservedAt |-> at, updatedAt |-> at, ack |-> None,
             timeline |-> <<Entry("opened", at, None)>>, evidence |-> {}, runbook |-> None])
    IN /\ row = None
       /\ Validate(created)
       /\ row' = created
       /\ UNCHANGED <<audit, rowLock, auditLock, call, known, clock, annotated>>

Observed(at) ==
    canonicalizeIncidentTimes(
        [row EXCEPT !.version = Token(row, Ingester), !.lastObservedAt = at, !.updatedAt = at,
                    !.timeline = Append(@, Entry("signal-observed", at, None))])

\* Replace of the row it has just read. One that changed meanwhile is refused.
Observe == \E skew \in 0..MaxSkew :
    /\ row # None /\ rowLock = None
    /\ Validate(Observed(clock + skew))
    /\ ValidateSuccessor(row, Observed(clock + skew), FALSE)
    /\ row' = Observed(clock + skew)
    /\ UNCHANGED <<audit, rowLock, auditLock, call, known, clock, annotated>>

-----------------------------------------------------------------------------
(* A request *)

Revision(i) == [version |-> i.version, generation |-> i.generation]
Recorded(i) == [status |-> i.status, revision |-> Revision(i)]

\* handleGet, handleList: the operator learns the current revision.
View(o) ==
    /\ pc[o] = "idle" /\ row # None
    /\ known' = [known EXCEPT ![o] = Revision(row)]
    /\ UNCHANGED <<row, audit, rowLock, auditLock, call, clock, annotated>>

Commands ==
    [op : {"acknowledge"}, evidence : {{}}, runbook : {None}]
    \cup [op : {"resolve"}, evidence : {{}}, runbook : {None}]
    \cup [op : {"evidence"}, evidence : {{e} : e \in EvidenceRefs}, runbook : {None}]
    \cup [op : {"evidence"}, evidence : {{}}, runbook : Runbooks]

\* handleAcknowledge, handleResolve, handleEvidence: the server's time is taken
\* before the incident is read.
Send(o) ==
    /\ pc[o] = "idle" /\ known[o] # None
    /\ pc' = [pc EXCEPT ![o] = "arrived"]
    /\ known' = [known EXCEPT ![o] = None]
    /\ \E c \in Commands :
          request' = [request EXCEPT ![o] =
             [op |-> c.op, evidence |-> c.evidence, runbook |-> c.runbook, actor |-> o,
              at |-> clock, precondition |-> known[o]]]
    /\ UNCHANGED <<row, audit, rowLock, auditLock, base, next, head, clock, annotated>>

\* Mutant of Ended: the transaction is left open.
EndedUnreleased(o) ==
    /\ pc' = [pc EXCEPT ![o] = "idle"]
    /\ request' = [request EXCEPT ![o] = None]
    /\ base' = [base EXCEPT ![o] = None]
    /\ next' = [next EXCEPT ![o] = None]
    /\ head' = [head EXCEPT ![o] = 0]
    /\ UNCHANGED <<rowLock, auditLock>>

\* The handler answers; commit or the deferred Rollback frees what was locked.
Ended(o) ==
    /\ pc' = [pc EXCEPT ![o] = "idle"]
    /\ request' = [request EXCEPT ![o] = None]
    /\ base' = [base EXCEPT ![o] = None]
    /\ next' = [next EXCEPT ![o] = None]
    /\ head' = [head EXCEPT ![o] = 0]
    /\ rowLock' = IF rowLock = o THEN None ELSE rowLock
    /\ auditLock' = IF auditLock = o THEN None ELSE auditLock

\* The operator has learnt nothing new and may send the request again.
Refuse(o) ==
    /\ Ended(o)
    /\ known' = [known EXCEPT ![o] = request[o].precondition]
    /\ UNCHANGED <<row, audit, clock, annotated>>

\* commitMutation up to the committer: read, authorize, draw a version, prepare.
PrepareMutation(o) ==
    LET prepared == Prepare(row, request[o], Token(row, o))
    IN /\ pc[o] = "arrived"
       /\ \/ prepared = None /\ Refuse(o)
          \/ /\ prepared # None
             /\ pc' = [pc EXCEPT ![o] = "prepared"]
             /\ base' = [base EXCEPT ![o] = Recorded(row)]
             /\ next' = [next EXCEPT ![o] = prepared]
             /\ UNCHANGED <<row, audit, rowLock, auditLock, request, head, known, clock, annotated>>

-----------------------------------------------------------------------------
(* CommitIncidentMutation *)

Canonical(o) == canonicalizeIncidentTimes(next[o])

\* incidentOperatorAuditEvent: the record was made from base[o] and next[o].
AuditBinding(o) == base[o] = Recorded(row)

\* Mutant of Committable: the row is not compared with the copy.
CommittableOverAny(o) ==
    ValidateSuccessor([row EXCEPT !.generation = base[o].revision.generation], Canonical(o),
                      DesiredChanged(request[o]))

\* What the transaction asks of the row it has locked.
Committable(o) ==
    /\ ValidateAgainst(request[o].precondition, row)
    /\ ValidateSuccessor(row, Canonical(o), DesiredChanged(request[o]))
    /\ AuditBinding(o)

\* SELECT ... FOR UPDATE waits for the row; the UPDATE follows the checks.
LockRow(o) ==
    /\ pc[o] = "prepared"
    /\ \/ /\ Validate(Canonical(o)) => rowLock = None /\ ~Committable(o)
          /\ Refuse(o)
       \/ /\ Validate(Canonical(o)) /\ rowLock = None /\ Committable(o)
          /\ rowLock' = o
          /\ pc' = [pc EXCEPT ![o] = "written"]
          /\ UNCHANGED <<row, audit, auditLock, request, base, next, head, known, clock, annotated>>

\* Mutant of LockChain: the newest hash is read without the advisory lock.
ReadChain(o) ==
    /\ pc[o] = "written"
    /\ head' = [head EXCEPT ![o] = Hash(Len(audit))]
    /\ pc' = [pc EXCEPT ![o] = "chained"]
    /\ UNCHANGED <<row, audit, rowLock, auditLock, request, base, next, known, clock, annotated>>

\* appendAuditEventWithinTx: pg_advisory_xact_lock, then the newest hash.
LockChain(o) ==
    /\ pc[o] = "written" /\ auditLock = None
    /\ auditLock' = o
    /\ head' = [head EXCEPT ![o] = Hash(Len(audit))]
    /\ pc' = [pc EXCEPT ![o] = "chained"]
    /\ UNCHANGED <<row, audit, rowLock, request, base, next, known, clock, annotated>>

\* INSERT and COMMIT; the answer carries the new revision unless it is lost.
Commit(o) == \E answered \in BOOLEAN :
    /\ pc[o] = "chained"
    /\ row' = Canonical(o)
    /\ audit' = Append(audit, [action |-> request[o].op, actor |-> o,
                               at |-> postgresTime(request[o].at), previous |-> head[o]])
    /\ known' = [known EXCEPT ![o] = IF answered THEN Revision(next[o]) ELSE request[o].precondition]
    /\ annotated' = IF request[o].op = "evidence" THEN annotated \cup request[o].evidence
                    ELSE annotated
    /\ Ended(o)
    /\ UNCHANGED clock

\* A database call fails, or the request's context ends: nothing is written.
Fail(o) == pc[o] # "idle" /\ Refuse(o)

-----------------------------------------------------------------------------
(* Everything else *)

Other == "other"

OtherEvents == SelectSeq(audit, LAMBDA e : e.action = Other)

\* AuditLog.Append for an event of another part of the system.
AppendOther ==
    /\ auditLock = None /\ Len(OtherEvents) < MaxOther
    /\ audit' = Append(audit, [action |-> Other, actor |-> None, at |-> postgresTime(clock),
                               previous |-> Hash(Len(audit))])
    /\ UNCHANGED <<row, rowLock, auditLock, call, known, clock, annotated>>

Tick ==
    /\ clock < MaxClock
    /\ clock' = clock + 1
    /\ UNCHANGED <<row, audit, rowLock, auditLock, call, known, annotated>>

Handle(o) == PrepareMutation(o) \/ LockRow(o) \/ LockChain(o) \/ Commit(o) \/ Fail(o)

Next ==
    \/ Ingests \/ Observe \/ AppendOther \/ Tick
    \/ \E o \in Operators : View(o) \/ Send(o) \/ Handle(o)

Spec == Init /\ [][Next]_vars

-----------------------------------------------------------------------------
(* Properties *)

\* What was read before the locks decides nothing: a prepared mutation whose
\* precondition still names the stored revision is never refused, although its
\* times are cut to microseconds between Prepare and CommitIncidentMutation.
MatchingCommitIsAccepted ==
    \A o \in Operators :
        pc[o] = "prepared" /\ ValidateAgainst(request[o].precondition, row) =>
            Validate(Canonical(o)) /\ Committable(o)

Continues(t, s) == Len(s) <= Len(t) /\ SubSeq(t, 1, Len(s)) = s

\* The stored incident only grows: whatever interleaves, no write loses a
\* timeline entry or an evidence reference of another one, rebinds evidence,
\* moves time back, or touches a resolved incident.
HistoryOnlyGrows ==
    [][row # None =>
          /\ Continues(row'.timeline, row.timeline)
          /\ row.evidence \subseteq row'.evidence
          /\ validateEvidenceSet(row'.evidence)
          /\ row.startedAt = row'.startedAt /\ row.updatedAt <= row'.updatedAt
          /\ row.status # "resolved"]_row

EntryOf(event) ==
    Entry(CASE event.action = "acknowledge" -> "acknowledged"
            [] event.action = "resolve" -> "resolved"
            [] event.action = "evidence" -> "note", event.at, event.actor)

\* The operator entries of the incident's timeline are the audited mutations, one
\* for one, in order, by the same actor at the same time: neither a lost answer
\* nor a repeated request nor a failed transaction separates the two records.
TimelineIsAudited ==
    row # None =>
        LET entries == {k \in DOMAIN row.timeline : row.timeline[k].actor # None}
            events == {k \in DOMAIN audit : audit[k].action # Other}
        IN \E recorded \in [entries -> events] :
              /\ \A n \in events : \E k \in entries : recorded[k] = n
              /\ \A k, l \in entries : k < l => recorded[k] < recorded[l]
              /\ \A k \in entries : row.timeline[k] = EntryOf(audit[recorded[k]])

\* Every audit event carries the hash of the one before it, although incident
\* transactions and other parts of the system append concurrently.
AuditChainUnbroken ==
    \A k \in DOMAIN audit : audit[k].previous = Hash(k - 1)

\* Nobody waits for a lock that is never freed: each lock is held exactly by the
\* request that is between taking it and its answer, whichever way it ends.
LocksAreHeldByRequests ==
    \A o \in Operators :
        /\ rowLock = o <=> pc[o] \in {"written", "chained"}
        /\ auditLock = o <=> pc[o] = "chained"

\* The transaction of a mutation is whole: incident and audit trail tell the same
\* story, the chain has no gap, and no lock outlives its request
\* (CommitIncidentMutation and appendAuditEventWithinTx).
TransactionsAreWhole == TimelineIsAudited /\ AuditChainUnbroken /\ LocksAreHeldByRequests

\* Evidence that was attached may be sent again as it was sent before: the
\* repeat is recognised and never a conflict.
ExactRepeatsAreIgnored ==
    row # None => \A e \in annotated : ~EvidenceConflict(row.evidence, {e})
=============================================================================
