------------------------------- MODULE Agents -------------------------------
(***************************************************************************)
(* The bootstrap of a node and the registry of its heartbeats              *)
(* (src/internal/agent: bootstrap.go, admission.go, state.go, lease.go,    *)
(* heartbeat.go).                                                          *)
(*                                                                         *)
(* The two share nothing but the clock, so a behavior is about one of      *)
(* them.  A caller of Consume reads its clock before it waits for the lock *)
(* of the registry, so the time it presents may be past.  Heartbeats carry *)
(* the agent's own time, arrive in any order and more than once, and an     *)
(* agent's clock may run ahead of the server's.  A digest stands for the   *)
(* secret of its token; nothing but the token knows it before Reveal.      *)
(***************************************************************************)
EXTENDS AgentEnrollment

CONSTANTS TokenIDs, Callers, Nodes,
          minimumBootstrapTTL, maximumBootstrapTTL,
          delayedAfter, offlineAfter, leaseTTL, leaseGrace,
          TokenRequests,     \* what Issue is asked for
          ReportsAt(_),      \* the reports an agent may have collected by then
          Assignments,       \* the sets of role assignments proposed
          AdmissionSnapshot, \* the core objects of the deployment
          MaxClock,          \* bound: last instant of the clock, by subject
          MaxSkew            \* bound: how far an agent's clock runs ahead

ASSUME AgentsAssumption ==
  /\ MaxClock \in [{"bootstrap", "registry"} -> Nat]
  /\ {MaxSkew, delayedAfter, offlineAfter, leaseGrace} \subseteq Nat
  /\ leaseTTL \in Nat \ {0}
  /\ delayedAfter <= offlineAfter
  /\ \A t \in 1 .. MaxClock["bootstrap"] :
       \A report \in ReportsAt(t) : report.collectedAt \in Nat

VARIABLES subject,   \* "bootstrap" or "registry"
          now,       \* the server's clock
          tokens,    \* MemoryBootstrapTokens.tokens
          issued,    \* token id -> whether the issued token still has a secret
          revealed,  \* the secrets that left an issued token
          calls,     \* caller -> the Consume it is about to make
          grants,    \* what Consume returned, and to whom
          plan,      \* an admission plan with what it was built from
          nodes,     \* MemoryRegistry.nodes
          beats      \* the heartbeats sent: node and the agent's time

bootstrapVars == <<tokens, issued, revealed, calls, grants, plan>>
registryVars  == <<nodes, beats>>
agentVars     == <<subject, now, bootstrapVars, registryVars>>

NoCall == [token |-> NoID]
NotAdmitted == [grant |-> NoCall]
EmptyFunction == [x \in {} |-> x]

AgentsInit ==
  /\ subject \in {"bootstrap", "registry"}
  /\ now = 1
  /\ tokens = EmptyFunction /\ issued = EmptyFunction /\ revealed = {}
  /\ calls = [c \in Callers |-> NoCall]
  /\ grants = {}
  /\ plan = NotAdmitted
  /\ nodes = EmptyFunction
  /\ beats = {}

Tick ==
  /\ now < MaxClock[subject]
  /\ plan = NotAdmitted
  /\ now' = now + 1
  /\ UNCHANGED <<subject, bootstrapVars, registryVars>>

-----------------------------------------------------------------------------
(* bootstrap.go *)

\* An identifier that is taken already fails the call.
Issue(id, request) ==
  /\ validateIdentifier(request.node) /\ validateIdentifier(request.scope)
  /\ request.transport \in Transports
  /\ request.ttl \in minimumBootstrapTTL .. maximumBootstrapTTL
  /\ id \notin DOMAIN tokens
  /\ tokens' = [x \in DOMAIN tokens \cup {id} |->
                  IF x = id THEN [receipt  |-> request, expires |-> now + request.ttl,
                                  digest   |-> id, consumed |-> FALSE]
                            ELSE tokens[x]]
  /\ issued' = [x \in DOMAIN tokens' |-> IF x = id THEN TRUE ELSE issued[x]]
  /\ UNCHANGED <<revealed, calls, grants, plan>>

\* The secret is returned once.
Reveal(id) ==
  /\ issued[id]
  /\ issued' = [issued EXCEPT ![id] = FALSE]
  /\ revealed' = revealed \cup {id}
  /\ UNCHANGED <<tokens, calls, grants, plan>>

\* A caller makes up its mind and reads its clock.
Present(c, id, secret) ==
  /\ calls[c] = NoCall
  /\ calls' = [calls EXCEPT ![c] = [token |-> id, secret |-> secret, at |-> now]]
  /\ UNCHANGED <<tokens, issued, revealed, grants, plan>>

AcceptableAtExpiry(call) ==
  /\ call.token \in DOMAIN tokens
  /\ ~tokens[call.token].consumed
  /\ call.at <= tokens[call.token].expires
  /\ call.secret = tokens[call.token].digest

Acceptable(call) ==
  /\ call.token \in DOMAIN tokens
  /\ ~tokens[call.token].consumed
  /\ call.at < tokens[call.token].expires
  /\ call.secret = tokens[call.token].digest

Consume(c) ==
  LET id == calls[c].token
  IN  /\ calls[c] /= NoCall
      /\ calls' = [calls EXCEPT ![c] = NoCall]
      /\ IF Acceptable(calls[c])
         THEN /\ tokens' = [tokens EXCEPT ![id].consumed = TRUE, ![id].digest = NoID]
              /\ grants' = grants \cup
                   {[token |-> id, node |-> tokens[id].receipt.node,
                     scope |-> tokens[id].receipt.scope,
                     transport |-> tokens[id].receipt.transport,
                     consumedAt |-> calls[c].at, to |-> c]}
         ELSE UNCHANGED <<tokens, grants>>
      /\ UNCHANGED <<issued, revealed, plan>>

\* The reports of which a plan can come: those that are accepted and ready.
ReadyReports ==
  {r \in UNION {ReportsAt(t) : t \in 1 .. MaxClock["bootstrap"]} :
     NormalizeEnrollment(r) /\ evaluateNormalizedEnrollmentPreconditions(r)}

AdmissionTopology == TopologyOf(AdmissionSnapshot)

\* The report was collected in the past, whenever the token was used.
BuildPlan(grant, report, assignments) ==
  /\ BuildEnrollmentAdmissionPlan(grant, report, assignments, AdmissionTopology)
  /\ plan' = [grant |-> grant, report |-> report, assignments |-> assignments]
  /\ UNCHANGED <<tokens, issued, revealed, calls, grants>>
-----------------------------------------------------------------------------
(* state.go *)

\* Enrolling again replaces the enrollment and keeps the last heartbeat.
Enroll(request) ==
  /\ NormalizeEnrollment(request)
  /\ request.contract /= EnrollmentContractV2
  /\ LET last == IF request.node \in DOMAIN nodes
                 THEN nodes[request.node].last ELSE NoTime
         with == Range(request.capabilities) \ {NoID}
     IN  nodes' = [n \in DOMAIN nodes \cup {request.node} |->
                     IF n = request.node
                     THEN [capabilities |-> with, last |-> last] ELSE nodes[n]]
  /\ UNCHANGED beats

Send(n, skew) ==
  /\ beats' = beats \cup {[node |-> n, seenAt |-> now + skew]}
  /\ UNCHANGED nodes

NotZero(beat) == beat.seenAt /= NoTime

NotEarlier(beat) ==
  /\ beat.seenAt /= NoTime
  /\ nodes[beat.node].last /= NoTime => beat.seenAt >= nodes[beat.node].last

\* A heartbeat that arrives; the message may arrive again.
Heartbeat(beat) ==
  /\ beat.node \in DOMAIN nodes
  /\ NotEarlier(beat)
  /\ nodes' = [nodes EXCEPT ![beat.node].last = beat.seenAt]
  /\ UNCHANGED beats

-----------------------------------------------------------------------------
(* lease.go, heartbeat.go *)

EvaluateNodeLease(last, at) ==
  IF last = NoTime \/ at < last THEN "refused"
  ELSE CASE at - last <= leaseTTL -> "active"
         [] at - last \in leaseTTL + 1 .. leaseTTL + leaseGrace -> "grace"
         [] OTHER -> "expired"

EvaluateHeartbeat(last, at) ==
  CASE at < last                 -> "online"
    [] at - last >= offlineAfter -> "offline"
    [] at - last \in delayedAfter .. offlineAfter - 1 -> "delayed"
    [] OTHER                     -> "online"

-----------------------------------------------------------------------------
BootstrapStep ==
  \/ \E id \in TokenIDs, request \in TokenRequests : Issue(id, request)
  \/ \E id \in DOMAIN tokens : Reveal(id)
  \/ \E c \in Callers, id \in TokenIDs, secret \in revealed : Present(c, id, secret)
  \/ \E c \in Callers : Consume(c)
  \/ \E grant \in grants, report \in ReadyReports, assignments \in Assignments :
       report.collectedAt <= now /\ BuildPlan(grant, report, assignments)

RegistryStep ==
  \/ \E request \in ReportsAt(now) : Enroll(request)
  \/ \E n \in Nodes, skew \in 0 .. MaxSkew : Send(n, skew)
  \/ \E beat \in beats : Heartbeat(beat)

\* A behavior of the bootstrap ends with its first plan.
AgentsNext ==
  \/ Tick
  \/ /\ subject = "bootstrap" /\ plan = NotAdmitted /\ BootstrapStep
     /\ UNCHANGED <<subject, now, registryVars>>
  \/ /\ subject = "registry" /\ RegistryStep
     /\ UNCHANGED <<subject, now, bootstrapVars>>

AgentsSpec == AgentsInit /\ [][AgentsNext]_agentVars

-----------------------------------------------------------------------------
\* A bootstrap token is worth one grant, whoever presents its secret and in
\* whatever order the calls get the registry's lock, and none from the
\* instant it expires on (Consume, Reveal).
TokenGrantsOnce ==
  /\ \A g, h \in grants : g.token = h.token => g = h
  /\ \A g \in grants :
       /\ tokens[g.token].consumed
       /\ g.consumedAt < tokens[g.token].expires
       /\ g.token \in revealed

\* Nothing an admission rests on was observed after the token was used: not
\* the report and none of its measurements, of which the normalization of the
\* report alone lets some lie after its collection.  The plan is for the node
\* and the scope the token was issued for (BuildEnrollmentAdmissionPlan).
EvidencePrecedesConsumption ==
  plan /= NotAdmitted =>
    LET token == tokens[plan.grant.token]
    IN  /\ token.consumed
        /\ \A a \in plan.assignments :
             /\ a.doc.node = token.receipt.node
             /\ a.scope = token.receipt.scope
        /\ plan.report.node = token.receipt.node
        /\ \A o \in Range(plan.report.observations) :
             o.observedAt <= plan.grant.consumedAt

\* An enrolment is earned: by one use of a token in its lifetime and by evidence
\* from before that use (Consume and BuildEnrollmentAdmissionPlan).
EnrollmentIsEarned == TokenGrantsOnce /\ EvidencePrecedesConsumption

LeaseRank ==
  [refused |-> 0, active |-> 1, grace |-> 2, expired |-> 3]

HeartbeatRank == [online |-> 1, delayed |-> 2, offline |-> 3]

\* How old a registered node's last heartbeat looks to the two evaluations.
Age(n, last, at) ==
  <<LeaseRank[EvaluateNodeLease(last, at)],
    HeartbeatRank[EvaluateHeartbeat(last, at)]>>

\* A node that has sent a heartbeat looks fresher only after a newer one and
\* older only because time passed: heartbeats out of order, repeated or from
\* a clock that runs ahead, and enrolling again, make no difference (Heartbeat,
\* Enroll, EvaluateNodeLease, EvaluateHeartbeat).
SilenceOnlyAges ==
  [][\A n \in DOMAIN nodes :
       nodes[n].last /= NoTime =>
         LET before == Age(n, nodes[n].last, now)
             after  == Age(n, nodes'[n].last, now')
         IN  /\ (\E i \in 1 .. 2 : after[i] < before[i]) =>
                   nodes'[n].last > nodes[n].last
             /\ (\E i \in 1 .. 2 : after[i] > before[i]) => now' > now]_agentVars
=============================================================================
