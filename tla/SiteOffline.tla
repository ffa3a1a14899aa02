---------------------------- MODULE SiteOffline -----------------------------
(***************************************************************************)
(* Work admitted by a Site Controller that has lost the Global Controller, *)
(* and what becomes of it after the reconnect (src/internal/siteoffline     *)
(* and the records of src/internal/sitesync).                              *)
(*                                                                         *)
(* The contracts only decide.  The policy authority, the object's other     *)
(* writers, the site's copies of both and the approved Change that carries *)
(* out an intent are the environment: the Change asks for the revision     *)
(* that the reconciliation decision observed.  The policy reaches the site  *)
(* as a desired-state record of sitesync: delayed, repeated, out of order,  *)
(* and after a restore of the authority perhaps a second one of the same    *)
(* generation.  A request is decided some time after it was made, and       *)
(* observed some time after it was decided.  Digests, versions and contract *)
(* names are compared, never computed; a version is a number, 0 the absent  *)
(* one, and the syntax of the other identifiers is reduced to being present. *)
(***************************************************************************)
EXTENDS Integers, Sequences, FiniteSets

CONSTANTS Intents, Actions,
          PolicyLifetime,
          MaxTime, MaxPolicies, MaxVersion, MaxRequests  \* bounds

ASSUME OfflineAssumption == PolicyLifetime \in Nat

VARIABLES wan,        \* ConnectivityState, as it really is
          time,
          policies,   \* the policy records issued
          trusted,    \* the record of the site's PolicySnapshot
          object,     \* the global object: revision and last applied intent
          base,       \* the revision of the object known at the site
          request,    \* a request that waits for its decision
          made,       \* how many requests were made
          queue,      \* the reconciliation entries
          decisions,  \* entry -> its last ReconciliationDecision
          applied     \* the entries carried out, with what they replaced

offlineVars == <<wan, time, policies, trusted, object, base, request, made,
                 queue, decisions, applied>>

-----------------------------------------------------------------------------
(* sitesync/state.go: desired state goes down, actual state up, and a copy is
   replaced by newer generations only. *)

Authorities == [desired |-> "global", actual |-> "site"]

Validate(r) ==
  /\ r.generation > 0 /\ r.version > 0
  /\ r.kind \in DOMAIN Authorities
  /\ r.authority = Authorities[r.kind]

\* Where a valid record may travel.
Direction(r) ==
  IF r.kind = "desired" THEN "global-to-site" ELSE "site-to-global"

SameIdentity(current, incoming) ==
  <<current.site, current.resource, current.kind, current.authority>>
    = <<incoming.site, incoming.resource, incoming.kind, incoming.authority>>

ReconcileNewest(current, incoming) ==
  IF /\ Validate(current) /\ Validate(incoming)
     /\ SameIdentity(current, incoming)
     /\ incoming.version > current.version
  THEN incoming ELSE current

\* The record to keep.  An older generation is stale, the same generation with
\* another version or payload a conflict: both are errors, and nothing changes.
Reconcile(current, incoming) ==
  IF /\ Validate(current) /\ Validate(incoming)
     /\ SameIdentity(current, incoming)
     /\ incoming.generation > current.generation
  THEN incoming ELSE current

-----------------------------------------------------------------------------

NoRequest == [id |-> 0]

Revision(o) == [generation |-> o.generation, version |-> o.version]

OperationClasses == {"ui", "job", "market"}

Delegations == [scope : {"s1"}, class : {"job"}, action : Actions]

\* A PolicySnapshot as the payload of its record.
Policy(generation, version, delegations) ==
  [site |-> "site1", resource |-> "policy", kind |-> "desired",
   authority |-> "global", generation |-> generation, version |-> version,
   scope |-> "s1", from |-> time, until |-> time + PolicyLifetime,
   delegations |-> delegations]

OfflineInit ==
  /\ wan = "wan_available"
  /\ time = 1
  /\ trusted = Policy(1, 1, Delegations)
  /\ policies = {trusted}
  /\ object = [generation |-> 1, version |-> 1, intent |-> "none"]
  /\ base = Revision(object)
  /\ request = NoRequest
  /\ made = 0
  /\ queue = {}
  /\ decisions = [e \in {} |-> e]
  /\ applied = <<>>

-----------------------------------------------------------------------------
(* admission.go *)

validateAdmissionRequest(r) ==
  /\ r.connectivity \in {"wan_available", "wan_unavailable"}
  /\ r.class \in OperationClasses
  /\ r.base.generation > 0 /\ r.base.version > 0
  /\ r.id > 0
  /\ r.policyGeneration > 0 /\ r.policyVersion > 0
  /\ r.requestedAt > 0

validatePolicy(p) ==
  /\ p.generation > 0 /\ p.version > 0
  /\ 0 < p.from /\ p.from < p.until
  /\ \A d \in p.delegations : d.scope = p.scope /\ d.class \in OperationClasses

hasExactDelegation(delegations, scope, class, action) ==
  [scope |-> scope, class |-> class, action |-> action] \in delegations

\* The first reason to deny, in the order of the code.
Reason(r, p) ==
  IF r.connectivity /= "wan_unavailable" THEN "offline_admission_not_applicable"
  ELSE IF r.site /= p.site               THEN "site_mismatch"
  ELSE IF r.scope /= p.scope             THEN "cross_scope_operation"
  ELSE IF r.requestedAt < p.from         THEN "policy_not_yet_valid"
  ELSE IF r.requestedAt >= p.until       THEN "policy_expired"
  ELSE IF r.policyGeneration /= p.generation THEN "policy_generation_mismatch"
  ELSE IF r.policyVersion /= p.version   THEN "policy_resource_version_mismatch"
  ELSE IF ~ hasExactDelegation(p.delegations, r.scope, r.class, r.action)
       THEN "operation_not_delegated"
  ELSE "explicit_delegation_matched"

buildQueueEntry(r, p) ==
  [sequence |-> r.id, site |-> r.site, scope |-> r.scope, class |-> r.class,
   action |-> r.action, intent |-> r.intent, base |-> r.base,
   policyGeneration |-> p.generation, policyVersion |-> p.version,
   queuedAt |-> r.requestedAt]

\* The AdmissionRequest: what was known when it was made, and what it asks for.
AdmissionRequest(asked) ==
  [id |-> request.id, connectivity |-> request.connectivity, base |-> request.base,
   requestedAt |-> request.requestedAt, policyGeneration |-> request.policyGeneration,
   policyVersion |-> request.policyVersion, site |-> asked.site, scope |-> asked.scope,
   class |-> asked.class, action |-> asked.action, intent |-> asked.intent]

\* BuildAdmissionDecision: an allowed request becomes an entry of the queue.
Decide(asked) ==
  LET p == trusted
      r == AdmissionRequest(asked)
  IN  /\ request /= NoRequest
      /\ request' = NoRequest
      /\ queue' = IF /\ validateAdmissionRequest(r) /\ validatePolicy(p)
                     /\ Reason(r, p) = "explicit_delegation_matched"
                  THEN queue \cup {buildQueueEntry(r, p)}
                  ELSE queue
      /\ UNCHANGED <<wan, time, policies, trusted, object, base, made,
                     decisions, applied>>

-----------------------------------------------------------------------------
(* reconnect.go *)

validateQueueEntry(e) ==
  /\ e.sequence > 0 /\ e.base.generation > 0 /\ e.policyGeneration > 0
  /\ e.queuedAt > 0
  /\ e.class \in OperationClasses
  /\ e.base.version > 0 /\ e.policyVersion > 0

validateReconnectState(current) == current.generation > 0 /\ current.version > 0

Decision(status, current) == [status |-> status, observed |-> Revision(current)]

ClassifyByGeneration(e, current) ==
  CASE current.intent = e.intent -> Decision("already_reflected", current)
    [] current.intent /= e.intent /\ current.generation = e.base.generation ->
         Decision("ready_for_approved_change", current)
    [] OTHER -> Decision("conflict", current)

\* Of one object: that an entry names another one than the state it is held
\* against does not occur.
ClassifyReconnect(e, current) ==
  CASE current.intent = e.intent -> Decision("already_reflected", current)
    [] current.intent /= e.intent /\ Revision(current) = e.base ->
         Decision("ready_for_approved_change", current)
    [] OTHER -> Decision("conflict", current)

\* The site is back: an entry is held against the object as it is now.
Observe(e) ==
  /\ wan = "wan_available"
  /\ validateQueueEntry(e) /\ validateReconnectState(object)
  /\ decisions' = [x \in DOMAIN decisions \cup {e} |->
                     IF x = e THEN ClassifyReconnect(e, object) ELSE decisions[x]]
  /\ decisions' /= decisions
  /\ UNCHANGED <<wan, time, policies, trusted, object, base, request, made,
                 queue, applied>>

-----------------------------------------------------------------------------
(* The environment *)

Connectivity ==
  /\ wan' \in {"wan_available", "wan_unavailable"} \ {wan}
  /\ UNCHANGED <<time, policies, trusted, object, base, request, made, queue,
                 decisions, applied>>

Tick ==
  /\ time < MaxTime
  /\ time' = time + 1
  /\ UNCHANGED <<wan, policies, trusted, object, base, request, made, queue,
                 decisions, applied>>

\* A new generation, or after a restore the generation of the site once more.
IssuePolicy(generation, delegations) ==
  /\ Cardinality(policies) < MaxPolicies
  /\ policies' = policies \cup
       {Policy(generation, Cardinality(policies) + 1, delegations)}
  /\ UNCHANGED <<wan, time, trusted, object, base, request, made, queue,
                 decisions, applied>>

\* A record arrives, whether or not it is the next one.
Deliver(record) ==
  /\ wan = "wan_available"
  /\ Direction(record) = "global-to-site"
  /\ trusted' = Reconcile(trusted, record)
  /\ trusted' /= trusted
  /\ UNCHANGED <<wan, time, policies, object, base, request, made, queue,
                 decisions, applied>>

Fetch ==
  /\ wan = "wan_available"
  /\ base' = Revision(object)
  /\ base' /= base
  /\ UNCHANGED <<wan, time, policies, trusted, object, request, made, queue,
                 decisions, applied>>

\* A request for the object is made: what the site knows of the object and of
\* the policy goes into it.  What it asks for matters when it is decided.
Ask ==
  /\ request = NoRequest /\ made < MaxRequests
  /\ made' = made + 1
  /\ request' = [id |-> made + 1, connectivity |-> wan, base |-> base,
                 requestedAt |-> time,
                 policyGeneration |-> trusted.generation,
                 policyVersion |-> trusted.version]
  /\ UNCHANGED <<wan, time, policies, trusted, object, base, queue, decisions,
                 applied>>

\* Somebody else writes the object: its desired state, or only its status.
WriteElsewhere(desired) ==
  /\ object.version < MaxVersion
  /\ object' = [object EXCEPT !.version = @ + 1,
                              !.generation = IF desired THEN @ + 1 ELSE @,
                              !.intent = IF desired THEN "none" ELSE @]
  /\ UNCHANGED <<wan, time, policies, trusted, base, request, made, queue,
                 decisions, applied>>

\* The approved Change of an entry, on the revision the decision observed.
CarryOut(e) ==
  /\ e \in DOMAIN decisions
  /\ decisions[e].status = "ready_for_approved_change"
  /\ decisions[e].observed = Revision(object)
  /\ object.version < MaxVersion
  /\ object' = [generation |-> object.generation + 1,
                version |-> object.version + 1, intent |-> e.intent]
  /\ applied' = Append(applied, [entry |-> e, replaced |-> Revision(object)])
  /\ UNCHANGED <<wan, time, policies, trusted, base, request, made, queue,
                 decisions>>

OfflineNext ==
  \/ Connectivity
  \/ Tick
  \/ \E ds \in SUBSET Delegations, p \in policies, next \in {0, 1} :
       IssuePolicy(p.generation + next, ds)
  \/ \E p \in policies : Deliver(p)
  \/ Fetch
  \/ Ask
  \/ \E asked \in [site : {"site1", "site2"}, scope : {"s1", "s2"},
                   class : {"job", "ui"}, action : Actions, intent : Intents] :
       Decide(asked)
  \/ \E e \in queue : Observe(e) \/ CarryOut(e)
  \/ \E desired \in BOOLEAN : WriteElsewhere(desired)

OfflineSpec == OfflineInit /\ [][OfflineNext]_offlineVars

-----------------------------------------------------------------------------
(* Properties *)

\* Work is queued only under a policy that was issued for the site, in force
\* when the request was made and delegating exactly this action; a delegation
\* withdrawn meanwhile is used no longer than the policy that granted it lasts.
\* The site never goes back to an older policy nor, within one generation, from
\* one to another (BuildAdmissionDecision, Reconcile).
AdmittedWithinPolicy ==
  /\ \A e \in queue :
       \E p \in policies :
         /\ p.generation = e.policyGeneration /\ p.version = e.policyVersion
         /\ p.from <= e.queuedAt /\ e.queuedAt < p.from + PolicyLifetime
         /\ e.site = p.site
         /\ [scope |-> e.scope, class |-> e.class, action |-> e.action]
              \in p.delegations
  /\ \A e, f \in queue :
       e.sequence < f.sequence =>
         \/ e.policyGeneration < f.policyGeneration
         \/ <<e.policyGeneration, e.policyVersion>>
              = <<f.policyGeneration, f.policyVersion>>

\* An intent from the time without a connection replaces nothing but the
\* revision its author had seen, status included, and is carried out at most
\* once, however often and however late it is observed (ClassifyReconnect).
OfflineIntentKeepsItsBase ==
  /\ \A i \in 1 .. Len(applied) : applied[i].replaced = applied[i].entry.base
  /\ \A i, j \in 1 .. Len(applied) :
       applied[i].entry = applied[j].entry => i = j
=============================================================================
