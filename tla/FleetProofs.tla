---------------------------- MODULE FleetProofs -----------------------------
(***************************************************************************)
(* Proofs about Agents for any tokens, callers, nodes, reports and any     *)
(* bounds of the clocks: an enrolment is earned, and a silent node only    *)
(* ages.  And about NodeLifecycle for any planners, placements and clock   *)
(* bound: a node is worked on only after a complete drain, and plans are   *)
(* honoured.                                                               *)
(*                                                                         *)
(* The argument for the bootstrap: a token that was not consumed still has *)
(* its own secret as its digest, and only then can a call match it         *)
(* (TokensInv, CallsInv). The consumption removes the digest in the same   *)
(* step that makes the grant, so a second call, however late it gets the   *)
(* registry's lock, finds nothing to match (GrantsInv). A plan is the      *)
(* answer of BuildEnrollmentAdmissionPlan to a grant that exists           *)
(* (AdmissionInv).                                                         *)
(*                                                                         *)
(* The argument for the registry: both evaluations of a heartbeat are      *)
(* monotonic in the age of it, and neither the clock nor the last          *)
(* heartbeat of a node ever moves back.                                    *)
(*                                                                         *)
(* The argument for the lifecycle: the transition rules let work begin     *)
(* only at draining, and only with every drain check (NoWorkWithoutDrain,  *)
(* DrainRule). Every accepted plan is bound to a version of the node. A    *)
(* plan whose version is the node's own was admitted for the node as it is *)
(* (PlanInv); every write takes a new version, so a plan made for an       *)
(* earlier one is refused, and nothing has to be known about it. The steps *)
(* left of a multi-step plan are a suffix of what the builder returned,    *)
(* and the state each suffix expects is the one its previous lifecycle     *)
(* step wrote (RunbookInv).                                                *)
(***************************************************************************)
EXTENDS Agents, NodeLifecycle, Integers, TLAPS

-----------------------------------------------------------------------------
(* Agents *)

\* The bootstrap registry: a token that was not consumed has the digest of its
\* own secret, and a secret is known only of an issued token.
TokensInv ==
  /\ tokens = [id \in DOMAIN tokens |-> tokens[id]]
  /\ \A id \in DOMAIN tokens :
       /\ tokens[id] \in [receipt : TokenRequests, expires : Int,
                          digest : TokenIDs \cup {NoID}, consumed : BOOLEAN]
       /\ id \in TokenIDs
       /\ ~tokens[id].consumed => tokens[id].digest = id
  /\ DOMAIN issued = DOMAIN tokens
  /\ revealed \subseteq DOMAIN tokens

\* A call under way carries a secret that was revealed and the time it was
\* made at.
CallsInv ==
  /\ calls = [c \in Callers |-> calls[c]]
  /\ \A c \in Callers :
       calls[c] /= NoCall => calls[c].secret \in revealed /\ calls[c].at \in Nat

\* A grant is of a consumed token, for the node and scope of its receipt.
GrantsInv ==
  /\ TokenGrantsOnce
  /\ \A g \in grants :
       /\ g.token \in DOMAIN tokens
       /\ g.consumedAt \in Int
       /\ g.node = tokens[g.token].receipt.node
       /\ g.scope = tokens[g.token].receipt.scope

\* The admission plan is what BuildEnrollmentAdmissionPlan accepted.
AdmissionInv ==
  plan /= NotAdmitted =>
    /\ plan.grant \in grants
    /\ plan.report \in ReadyReports
    /\ BuildEnrollmentAdmissionPlan(plan.grant, plan.report, plan.assignments,
                                    AdmissionTopology)

\* The agent registry: every node has a last heartbeat, or none (0).
RegistryInv ==
  /\ nodes = [n \in DOMAIN nodes |-> nodes[n]]
  /\ \A n \in DOMAIN nodes :
       /\ nodes[n] = [capabilities |-> nodes[n].capabilities, last |-> nodes[n].last]
       /\ nodes[n].last \in Nat
  /\ \A beat \in beats : beat.seenAt \in Nat

\* The inductive invariant.
AgentsInv ==
  /\ now \in Nat
  /\ TokensInv /\ CallsInv /\ GrantsInv /\ AdmissionInv /\ RegistryInv

-----------------------------------------------------------------------------
\* Both registries start empty.
LEMMA AgentsInitially == AgentsInit => AgentsInv
  BY DEF AgentsInit, AgentsInv, TokensInv, CallsInv, GrantsInv, AdmissionInv,
         RegistryInv, EmptyFunction, TokenGrantsOnce

\* Issue of a new token touches no other token (MemoryBootstrapTokens.Issue).
LEMMA IssueKeeps ==
  ASSUME AgentsInv, NEW id \in TokenIDs, NEW request \in TokenRequests,
         Issue(id, request)
  PROVE  TokensInv' /\ CallsInv' /\ GrantsInv'
  <1> DEFINE t == [receipt  |-> request, expires |-> now + request.ttl,
                   digest   |-> id, consumed |-> FALSE]
  <1>1. /\ tokens' = [x \in DOMAIN tokens \cup {id} |->
                        IF x = id THEN t ELSE tokens[x]]
        /\ issued' = [x \in DOMAIN tokens' |-> IF x = id THEN TRUE ELSE issued[x]]
        /\ id \notin DOMAIN tokens
        /\ UNCHANGED <<revealed, calls, grants, plan>>
    BY Zenon DEF Issue
  <1>2. t \in [receipt : TokenRequests, expires : Int,
               digest : TokenIDs \cup {NoID}, consumed : BOOLEAN]
        /\ t.digest = id
    BY DEF Issue, AgentsInv
  <1> HIDE DEF t
  <1>3. TokensInv'
    BY <1>1, <1>2 DEF AgentsInv, TokensInv
  <1>4. CallsInv'
    BY Zenon, <1>1 DEF AgentsInv, CallsInv
  <1>5. \A x \in DOMAIN tokens : x \in DOMAIN tokens' /\ tokens'[x] = tokens[x]
    BY Zenon, <1>1
  <1>6. GrantsInv'
    BY Zenon, <1>1, <1>5 DEF AgentsInv, GrantsInv, TokenGrantsOnce
  <1> QED BY Zenon, <1>3, <1>4, <1>6

\* Revealing a secret changes only who knows it (Reveal).
LEMMA RevealKeeps ==
  ASSUME AgentsInv, NEW id \in DOMAIN tokens, Reveal(id)
  PROVE  TokensInv' /\ CallsInv' /\ GrantsInv'
  BY DEF Reveal, AgentsInv, TokensInv, CallsInv, GrantsInv, TokenGrantsOnce

\* A call that starts holds the secret it was made with and its time.
LEMMA PresentKeeps ==
  ASSUME AgentsInv, NEW c \in Callers, NEW id \in TokenIDs,
         NEW secret \in revealed, Present(c, id, secret)
  PROVE  TokensInv' /\ CallsInv' /\ GrantsInv'
  <1> DEFINE call == [token |-> id, secret |-> secret, at |-> now]
  <1>1. call.secret \in revealed /\ call.at \in Nat
    BY Zenon DEF AgentsInv
  <1>2. /\ calls' = [calls EXCEPT ![c] = call]
        /\ UNCHANGED <<tokens, issued, revealed, grants>>
    BY Zenon DEF Present
  <1> HIDE DEF call
  <1>3. CallsInv'
    BY Zenon, <1>1, <1>2 DEF AgentsInv, CallsInv
  <1> QED BY <1>2, <1>3 DEF AgentsInv, TokensInv, GrantsInv, TokenGrantsOnce

\* The fields of a token that Consume leaves and the ones it sets.
LEMMA UsedToken ==
  ASSUME NEW R, NEW D, NEW b \in BOOLEAN, NEW d \in D,
         NEW t \in [receipt : R, expires : Int, digest : D, consumed : BOOLEAN]
  PROVE  /\ [t EXCEPT !.consumed = b, !.digest = d]
              \in [receipt : R, expires : Int, digest : D, consumed : BOOLEAN]
         /\ [t EXCEPT !.consumed = b, !.digest = d].consumed = b
         /\ [t EXCEPT !.consumed = b, !.digest = d].expires = t.expires
         /\ [t EXCEPT !.consumed = b, !.digest = d].receipt = t.receipt
  BY Zenon

\* Consume: a refused call changes no token; an accepted one makes the only
\* grant of its token, for no other grant is of a token still unused.
LEMMA ConsumeKeeps ==
  ASSUME AgentsInv, NEW c \in Callers, Consume(c)
  PROVE  TokensInv' /\ CallsInv' /\ GrantsInv'
  <1> DEFINE id == calls[c].token
             g  == [token |-> id, node |-> tokens[id].receipt.node,
                    scope |-> tokens[id].receipt.scope,
                    transport |-> tokens[id].receipt.transport,
                    consumedAt |-> calls[c].at, to |-> c]
             t  == [tokens[id] EXCEPT !.consumed = TRUE, !.digest = NoID]
  <1>1. CallsInv'
    BY Zenon DEF Consume, AgentsInv, CallsInv
  <1>2. CASE ~ Acceptable(calls[c])
    BY <1>1, <1>2 DEF Consume, AgentsInv, TokensInv, GrantsInv, TokenGrantsOnce
  <1>3. CASE Acceptable(calls[c])
    <2>1. /\ id \in DOMAIN tokens
          /\ ~tokens[id].consumed
          /\ calls[c].at < tokens[id].expires
          /\ calls[c].secret = tokens[id].digest
          /\ calls[c].secret \in revealed
          /\ calls[c].at \in Nat
      BY Zenon, <1>3 DEF Acceptable, Consume, AgentsInv, CallsInv
    <2>2. id \in revealed
      BY Zenon, <2>1 DEF AgentsInv, TokensInv
    <2>3. /\ tokens' = [tokens EXCEPT ![id] = t]
          /\ grants' = grants \cup {g}
          /\ UNCHANGED <<issued, revealed, plan>>
      BY Zenon, <1>3 DEF Consume
    <2>4. /\ t \in [receipt : TokenRequests, expires : Int,
                    digest : TokenIDs \cup {NoID}, consumed : BOOLEAN]
          /\ t.consumed /\ t.expires = tokens[id].expires
          /\ t.receipt = tokens[id].receipt
      <3>1. tokens[id] \in [receipt : TokenRequests, expires : Int,
                            digest : TokenIDs \cup {NoID}, consumed : BOOLEAN]
        BY Zenon, <2>1 DEF AgentsInv, TokensInv
      <3>2. TRUE \in BOOLEAN /\ NoID \in TokenIDs \cup {NoID}
        BY Zenon
      <3>3. t.consumed = TRUE
        BY <3>1, <3>2, UsedToken, Zenon
      <3> QED BY <3>1, <3>2, <3>3, UsedToken, Zenon
    <2>5. /\ g.token = id /\ g.consumedAt = calls[c].at
          /\ g.node = tokens[id].receipt.node
          /\ g.scope = tokens[id].receipt.scope
      BY Zenon
    <2> HIDE DEF t, g, id
    <2>6. TokensInv'
      BY Zenon, <2>1, <2>3, <2>4 DEF AgentsInv, TokensInv
    <2>7. /\ DOMAIN tokens' = DOMAIN tokens
          /\ tokens'[id] = t
          /\ \A x \in DOMAIN tokens \ {id} : tokens'[x] = tokens[x]
      BY Zenon, <2>1, <2>3
    <2>8. \A h \in grants : h.token /= id
      BY Zenon, <2>1 DEF AgentsInv, GrantsInv, TokenGrantsOnce
    <2>9. GrantsInv'
      BY <2>1, <2>2, <2>3, <2>4, <2>5, <2>7, <2>8
         DEF AgentsInv, GrantsInv, TokenGrantsOnce
    <2> QED BY Zenon, <1>1, <2>6, <2>9
  <1> QED BY Zenon, <1>2, <1>3

\* While nothing is admitted there is no plan to keep.
LEMMA AdmissionKeeps ==
  ASSUME AgentsInv, plan = NotAdmitted, UNCHANGED plan
  PROVE  AdmissionInv'
  BY Zenon DEF AdmissionInv

\* A plan that is built is one BuildEnrollmentAdmissionPlan accepted.
LEMMA BuildPlanKeeps ==
  ASSUME AgentsInv, NEW grant \in grants, NEW report \in ReadyReports,
         NEW assignments, BuildPlan(grant, report, assignments)
  PROVE  TokensInv' /\ CallsInv' /\ GrantsInv' /\ AdmissionInv'
  <1>1. UNCHANGED <<tokens, issued, revealed, calls, grants>>
    BY Zenon DEF BuildPlan
  <1>2. /\ plan'.grant = grant /\ plan'.report = report
        /\ plan'.assignments = assignments
    BY Zenon DEF BuildPlan
  <1>3. AdmissionInv'
    BY Zenon, <1>1, <1>2 DEF BuildPlan, AdmissionInv
  <1> QED BY <1>1, <1>3 DEF AgentsInv, TokensInv, CallsInv, GrantsInv, TokenGrantsOnce

\* Every step of the bootstrap keeps the invariant.
LEMMA BootstrapKeeps ==
  ASSUME AgentsInv, plan = NotAdmitted, BootstrapStep,
         UNCHANGED <<subject, now, registryVars>>
  PROVE  AgentsInv'
  <1>1. now' \in Nat /\ RegistryInv'
    BY Zenon DEF AgentsInv, RegistryInv, registryVars
  <1>2. TokensInv' /\ CallsInv' /\ GrantsInv' /\ AdmissionInv'
    <2>1. ASSUME NEW id \in TokenIDs, NEW request \in TokenRequests,
                 Issue(id, request)
          PROVE  TokensInv' /\ CallsInv' /\ GrantsInv' /\ AdmissionInv'
      BY Zenon, <2>1, IssueKeeps, AdmissionKeeps DEF Issue
    <2>2. ASSUME NEW id \in DOMAIN tokens, Reveal(id)
          PROVE  TokensInv' /\ CallsInv' /\ GrantsInv' /\ AdmissionInv'
      BY Zenon, <2>2, RevealKeeps, AdmissionKeeps DEF Reveal
    <2>3. ASSUME NEW c \in Callers, NEW id \in TokenIDs, NEW secret \in revealed,
                 Present(c, id, secret)
          PROVE  TokensInv' /\ CallsInv' /\ GrantsInv' /\ AdmissionInv'
      BY Zenon, <2>3, PresentKeeps, AdmissionKeeps DEF Present
    <2>4. ASSUME NEW c \in Callers, Consume(c)
          PROVE  TokensInv' /\ CallsInv' /\ GrantsInv' /\ AdmissionInv'
      BY Zenon, <2>4, ConsumeKeeps, AdmissionKeeps DEF Consume
    <2>5. ASSUME NEW grant \in grants, NEW report \in ReadyReports,
                 NEW assignments \in Assignments,
                 BuildPlan(grant, report, assignments)
          PROVE  TokensInv' /\ CallsInv' /\ GrantsInv' /\ AdmissionInv'
      BY Zenon, <2>5, BuildPlanKeeps
    <2> QED BY Zenon, <2>1, <2>2, <2>3, <2>4, <2>5 DEF BootstrapStep
  <1> QED BY Zenon, <1>1, <1>2 DEF AgentsInv

\* Enrolling a node again keeps the heartbeat it has (Enroll).
LEMMA EnrollKeeps ==
  ASSUME AgentsInv, NEW request, Enroll(request)
  PROVE  RegistryInv'
  <1> DEFINE last == IF request.node \in DOMAIN nodes
                     THEN nodes[request.node].last ELSE NoTime
             row  == [capabilities |-> Range(request.capabilities) \ {NoID},
                      last |-> last]
  <1>1. /\ nodes' = [n \in DOMAIN nodes \cup {request.node} |->
                       IF n = request.node THEN row ELSE nodes[n]]
        /\ UNCHANGED beats
    BY Zenon DEF Enroll
  <1>2. /\ row = [capabilities |-> row.capabilities, last |-> row.last]
        /\ row.last \in Nat
    BY Zenon DEF AgentsInv, RegistryInv, NoTime
  <1> HIDE DEF row
  <1> QED BY Zenon, <1>1, <1>2 DEF AgentsInv, RegistryInv

\* Every step of the agent registry keeps the invariant: Enroll, Heartbeat and
\* the sending of a heartbeat.
LEMMA RegistryKeeps ==
  ASSUME AgentsInv, RegistryStep, UNCHANGED <<subject, now, bootstrapVars>>
  PROVE  AgentsInv'
  <1>1. ASSUME NEW n \in Nodes, NEW skew \in 0 .. MaxSkew, Send(n, skew)
        PROVE  RegistryInv'
    BY <1>1, AgentsAssumption DEF Send, AgentsInv, RegistryInv
  <1>2. ASSUME NEW beat \in beats, Heartbeat(beat)
        PROVE  RegistryInv'
    <2> DEFINE row == [nodes[beat.node] EXCEPT !.last = beat.seenAt]
    <2>1. /\ beat.node \in DOMAIN nodes
          /\ nodes' = [nodes EXCEPT ![beat.node] = row]
          /\ UNCHANGED beats
      BY Zenon, <1>2 DEF Heartbeat
    <2>2. /\ row = [capabilities |-> row.capabilities, last |-> row.last]
          /\ row.last \in Nat
      BY <2>1 DEF AgentsInv, RegistryInv
    <2> HIDE DEF row
    <2> QED BY Zenon, <2>1, <2>2 DEF AgentsInv, RegistryInv
  <1>3. RegistryInv'
    BY Zenon, <1>1, <1>2, EnrollKeeps DEF RegistryStep
  <1> QED
    BY <1>3 DEF AgentsInv, TokensInv, CallsInv, GrantsInv, TokenGrantsOnce,
                AdmissionInv, bootstrapVars

\* The invariant holds in every state: a token that was not used has its
\* secret, a grant belongs to a used token, and a plan to a grant, in whatever
\* order Issue, Reveal, Consume, BuildEnrollmentAdmissionPlan, Enroll and
\* Heartbeat come.
THEOREM AgentsInvariant == AgentsSpec => []AgentsInv
  <1>1. AgentsInv /\ [AgentsNext]_agentVars => AgentsInv'
    <2> SUFFICES ASSUME AgentsInv, [AgentsNext]_agentVars PROVE AgentsInv'
      BY Zenon
    <2>1. CASE Tick
      BY <2>1 DEF Tick, AgentsInv, TokensInv, CallsInv, GrantsInv,
         TokenGrantsOnce, AdmissionInv, RegistryInv, bootstrapVars, registryVars
    <2>2. CASE UNCHANGED agentVars
      BY <2>2 DEF agentVars, AgentsInv, TokensInv, CallsInv, GrantsInv,
         TokenGrantsOnce, AdmissionInv, RegistryInv, bootstrapVars, registryVars
    <2> QED BY Zenon, <2>1, <2>2, BootstrapKeeps, RegistryKeeps DEF AgentsNext
  <1> QED BY AgentsInitially, <1>1, PTL DEF AgentsSpec

\* The plan's evidence is older than the use of its token: the freshness check
\* of BuildEnrollmentAdmissionPlan bounds each measurement by the report's
\* collection, and the report by the consumption.
LEMMA EvidenceIsOlder ==
  ASSUME AgentsInv
  PROVE  EvidencePrecedesConsumption
  <1> SUFFICES ASSUME plan /= NotAdmitted
               PROVE  EvidencePrecedesConsumption
    BY Zenon DEF EvidencePrecedesConsumption
  <1> DEFINE token == tokens[plan.grant.token]
  <1>1. /\ plan.grant \in grants
        /\ BuildEnrollmentAdmissionPlan(plan.grant, plan.report, plan.assignments,
                                        AdmissionTopology)
    BY Zenon DEF AgentsInv, AdmissionInv
  <1>2. /\ token.consumed
        /\ plan.grant.consumedAt \in Int
        /\ plan.grant.node = token.receipt.node
        /\ plan.grant.scope = token.receipt.scope
    BY Zenon, <1>1 DEF AgentsInv, GrantsInv, TokenGrantsOnce
  <1>3. /\ plan.report.node = token.receipt.node
        /\ \A a \in plan.assignments :
             a.doc.node = token.receipt.node /\ a.scope = token.receipt.scope
    BY Zenon, <1>1, <1>2 DEF BuildEnrollmentAdmissionPlan
  <1>4. plan.report.collectedAt \in Nat
    BY Zenon, AgentsAssumption DEF AgentsInv, AdmissionInv, ReadyReports
  <1>5. /\ plan.report.collectedAt <= plan.grant.consumedAt
        /\ Fresh(plan.report)
        /\ normalizeCapacityObservations(plan.report)
    BY Zenon, <1>1 DEF BuildEnrollmentAdmissionPlan, NormalizeEnrollment,
       normalizeEnrollmentV2, evaluateNormalizedEnrollmentPreconditions,
       EnrollmentContractV1, EnrollmentContractV2
  <1>6. ASSUME NEW o \in Range(plan.report.observations)
        PROVE  o.observedAt <= plan.grant.consumedAt
    <2>1. o.observedAt \in 1 .. plan.report.collectedAt + observationSkew
      BY <1>5, Zenon DEF normalizeCapacityObservations
    <2>2. o.observedAt <= plan.report.collectedAt
      BY Zenon, <1>5 DEF Fresh
    <2> QED BY <1>2, <1>4, <1>5, <2>1, <2>2
  <1> QED BY Zenon, <1>2, <1>3, <1>6 DEF EvidencePrecedesConsumption

\* For any tokens, callers and reports an enrolment is earned: by one use of a
\* token in its lifetime, made with its revealed secret, and by evidence from
\* before that use (EnrollmentIsEarned; Consume and
\* BuildEnrollmentAdmissionPlan).
THEOREM Earned == AgentsSpec => []EnrollmentIsEarned
  <1>1. AgentsInv => EnrollmentIsEarned
    BY Zenon, EvidenceIsOlder DEF AgentsInv, GrantsInv, EnrollmentIsEarned
  <1> QED BY AgentsInvariant, <1>1, PTL

-----------------------------------------------------------------------------
\* EvaluateNodeLease as the rank of its answer.
LEMMA LeaseRanks ==
  ASSUME NEW last \in Nat \ {0}, NEW at \in Nat
  PROVE  LeaseRank[EvaluateNodeLease(last, at)] =
           IF at < last THEN 0 ELSE IF at - last <= leaseTTL THEN 1
           ELSE IF at - last <= leaseTTL + leaseGrace THEN 2 ELSE 3
  <1>1. leaseTTL \in Nat /\ leaseGrace \in Nat
    BY Zenon, AgentsAssumption
  <1>2. EvaluateNodeLease(last, at) =
          IF at < last THEN "refused" ELSE IF at - last <= leaseTTL THEN "active"
          ELSE IF at - last <= leaseTTL + leaseGrace THEN "grace" ELSE "expired"
    <2>1. CASE at < last
      BY Zenon, <2>1 DEF EvaluateNodeLease
    <2>2. CASE ~(at < last) /\ at - last <= leaseTTL
      BY <1>1, <2>2 DEF EvaluateNodeLease, NoTime
    <2>3. CASE ~(at < last) /\ ~(at - last <= leaseTTL)
      <3>1. at - last \in leaseTTL + 1 .. leaseTTL + leaseGrace
              <=> at - last <= leaseTTL + leaseGrace
        BY <1>1, <2>3
      <3> QED BY Zenon, <2>3, <3>1 DEF EvaluateNodeLease, NoTime
    <2> QED BY Zenon, <2>1, <2>2, <2>3
  <1> QED BY <1>2 DEF LeaseRank

\* EvaluateHeartbeat as the rank of its answer, for thresholds in order.
LEMMA HeartbeatRanks ==
  ASSUME NEW last \in Nat \ {0}, NEW at \in Nat
  PROVE  HeartbeatRank[EvaluateHeartbeat(last, at)] =
           IF at < last \/ at - last < delayedAfter THEN 1
           ELSE IF at - last < offlineAfter THEN 2 ELSE 3
  <1>1. delayedAfter \in Nat /\ offlineAfter \in Nat /\ delayedAfter <= offlineAfter
    BY Zenon, AgentsAssumption
  <1>2. EvaluateHeartbeat(last, at) =
          IF at < last \/ at - last < delayedAfter THEN "online"
          ELSE IF at - last < offlineAfter THEN "delayed" ELSE "offline"
    BY <1>1 DEF EvaluateHeartbeat
  <1> QED BY <1>2 DEF HeartbeatRank

\* A node looks no older after a later heartbeat or at an earlier time.
LEMMA AgeIsMonotonic ==
  ASSUME NEW last \in Nat \ {0}, NEW at \in Nat,
         NEW newer \in Nat, NEW later \in Nat, last <= newer, at <= later,
         NEW n
  PROVE  \A i \in 1 .. 2 :
           /\ Age(n, newer, at)[i] <= Age(n, last, at)[i]
           /\ Age(n, last, at)[i] <= Age(n, last, later)[i]
  <1>1. /\ newer \in Nat \ {0}
        /\ {leaseTTL, leaseGrace, delayedAfter, offlineAfter} \subseteq Nat
    BY AgentsAssumption
  <1>2. /\ LeaseRank[EvaluateNodeLease(newer, at)]
             <= LeaseRank[EvaluateNodeLease(last, at)]
        /\ LeaseRank[EvaluateNodeLease(last, at)]
             <= LeaseRank[EvaluateNodeLease(last, later)]
    <2>1. LeaseRank[EvaluateNodeLease(last, at)] =
             IF at < last THEN 0 ELSE IF at - last <= leaseTTL THEN 1
               ELSE IF at - last <= leaseTTL + leaseGrace THEN 2 ELSE 3
      BY Zenon, <1>1, LeaseRanks
    <2>2. LeaseRank[EvaluateNodeLease(newer, at)] =
             IF at < newer THEN 0 ELSE IF at - newer <= leaseTTL THEN 1
               ELSE IF at - newer <= leaseTTL + leaseGrace THEN 2 ELSE 3
      BY Zenon, <1>1, LeaseRanks
    <2>3. LeaseRank[EvaluateNodeLease(last, later)] =
             IF later < last THEN 0 ELSE IF later - last <= leaseTTL THEN 1
               ELSE IF later - last <= leaseTTL + leaseGrace THEN 2 ELSE 3
      BY Zenon, <1>1, LeaseRanks
    <2> QED BY <1>1, <2>1, <2>2, <2>3
  <1>3. /\ HeartbeatRank[EvaluateHeartbeat(newer, at)]
             <= HeartbeatRank[EvaluateHeartbeat(last, at)]
        /\ HeartbeatRank[EvaluateHeartbeat(last, at)]
             <= HeartbeatRank[EvaluateHeartbeat(last, later)]
    <2>1. HeartbeatRank[EvaluateHeartbeat(last, at)] =
             IF at < last \/ at - last < delayedAfter THEN 1
               ELSE IF at - last < offlineAfter THEN 2 ELSE 3
      BY Zenon, <1>1, HeartbeatRanks
    <2>2. HeartbeatRank[EvaluateHeartbeat(newer, at)] =
             IF at < newer \/ at - newer < delayedAfter THEN 1
               ELSE IF at - newer < offlineAfter THEN 2 ELSE 3
      BY Zenon, <1>1, HeartbeatRanks
    <2>3. HeartbeatRank[EvaluateHeartbeat(last, later)] =
             IF later < last \/ later - last < delayedAfter THEN 1
               ELSE IF later - last < offlineAfter THEN 2 ELSE 3
      BY Zenon, <1>1, HeartbeatRanks
    <2> QED BY <1>1, <2>1, <2>2, <2>3
  <1> QED BY <1>2, <1>3 DEF Age

\* The ages of a node that has sent a heartbeat can be compared.
LEMMA AgeIsANumber ==
  ASSUME NEW last \in Nat \ {0}, NEW at \in Nat, NEW n
  PROVE  \A i \in 1 .. 2 : Age(n, last, at)[i] \in Int
  <1>1. /\ LeaseRank[EvaluateNodeLease(last, at)] \in Int
        /\ HeartbeatRank[EvaluateHeartbeat(last, at)] \in Int
    BY LeaseRanks, HeartbeatRanks
  <1> QED BY <1>1 DEF Age

\* No step takes the clock or the last heartbeat of a node back: Heartbeat
\* refuses an earlier one and Enroll keeps what it finds.
LEMMA TimeMovesOn ==
  ASSUME AgentsInv, AgentsInv', [AgentsNext]_agentVars, NEW n \in DOMAIN nodes
  PROVE  /\ now \in Nat /\ now' \in Nat /\ now <= now'
         /\ nodes[n].last \in Nat /\ nodes'[n].last \in Nat
         /\ nodes[n].last <= nodes'[n].last
  <1>1. now \in Nat /\ now' \in Nat /\ nodes[n].last \in Nat
    BY Zenon DEF AgentsInv, RegistryInv
  <1>2. now <= now'
    BY <1>1 DEF AgentsNext, Tick, agentVars
  <1>3. CASE UNCHANGED nodes
    BY <1>1, <1>2, <1>3
  <1>4. ASSUME NEW request, Enroll(request)
        PROVE  nodes'[n].last = nodes[n].last
    BY Zenon, <1>4 DEF Enroll
  <1>5. ASSUME NEW beat \in beats, Heartbeat(beat)
        PROVE  /\ nodes'[n].last \in Nat
               /\ nodes[n].last <= nodes'[n].last
    <2>1. beat.seenAt \in Nat /\ nodes[beat.node].last \in Nat
      BY Zenon, <1>5 DEF AgentsInv, RegistryInv, Heartbeat
    <2>2. nodes[beat.node].last <= beat.seenAt
      BY <1>5, <2>1 DEF Heartbeat, NotEarlier, NoTime
    <2>3. nodes'[n].last = IF n = beat.node THEN beat.seenAt ELSE nodes[n].last
      BY <1>5 DEF Heartbeat, AgentsInv, RegistryInv
    <2> QED BY <1>1, <2>1, <2>2, <2>3
  <1>6. CASE RegistryStep
    BY <1>1, <1>2, <1>3, <1>4, <1>5, <1>6 DEF RegistryStep, Send
  <1> QED
    BY Zenon, <1>3, <1>6 DEF AgentsNext, Tick, agentVars, registryVars

\* For any nodes, clock skews and thresholds a node looks fresher only after a
\* newer heartbeat and older only because time passed (SilenceOnlyAges;
\* Heartbeat, Enroll, EvaluateNodeLease, EvaluateHeartbeat).
THEOREM SilenceAges == AgentsSpec => SilenceOnlyAges
  <1>1. AgentsInv /\ AgentsInv' /\ [AgentsNext]_agentVars =>
          [\A n \in DOMAIN nodes :
             nodes[n].last /= NoTime =>
               LET before == Age(n, nodes[n].last, now)
                   after  == Age(n, nodes'[n].last, now')
               IN  /\ (\E i \in 1 .. 2 : after[i] < before[i]) =>
                         nodes'[n].last > nodes[n].last
                   /\ (\E i \in 1 .. 2 : after[i] > before[i]) =>
                         now' > now]_agentVars
    <2> SUFFICES ASSUME AgentsInv, AgentsInv', [AgentsNext]_agentVars,
                        NEW n \in DOMAIN nodes, nodes[n].last /= NoTime,
                        NEW i \in 1 .. 2
                 PROVE  /\ Age(n, nodes'[n].last, now')[i]
                              < Age(n, nodes[n].last, now)[i] =>
                              nodes'[n].last > nodes[n].last
                        /\ Age(n, nodes'[n].last, now')[i]
                              > Age(n, nodes[n].last, now)[i] => now' > now
      BY Zenon
    <2> DEFINE last == nodes[n].last  newer == nodes'[n].last
    <2>1. /\ last \in Nat \ {0} /\ newer \in Nat \ {0} /\ last <= newer
          /\ now \in Nat /\ now' \in Nat /\ now <= now'
      BY TimeMovesOn DEF NoTime
    <2>2. /\ Age(n, last, now)[i] \in Int
          /\ Age(n, newer, now')[i] \in Int
      BY Zenon, <2>1, AgeIsANumber
    <2>3. newer = last => Age(n, last, now)[i] <= Age(n, newer, now')[i]
      BY Zenon, <2>1, AgeIsMonotonic
    <2>4. now' = now => Age(n, newer, now')[i] <= Age(n, last, now)[i]
      BY Zenon, <2>1, AgeIsMonotonic
    <2> QED BY <2>1, <2>2, <2>3, <2>4
  <1> QED BY AgentsInvariant, <1>1, PTL DEF AgentsSpec, SilenceOnlyAges

-----------------------------------------------------------------------------
(* NodeLifecycle *)

\* The states in which a node is worked on.
Working == DrainPath \ {"draining"}

\* The transition rules lead from a state outside the drain path to none of
\* the states of work.
LEMMA NoWorkWithoutDrain ==
  ASSUME NEW from \in States \ (Working \cup {"draining"})
  PROVE  DOMAIN transitionRules[from] \cap Working = {}
  BY DEF States, transitionRules, Working, DrainPath, HealthRules

\* From draining the rules lead to one state of work, maintenance, and ask for
\* every drain check.
LEMMA DrainRule ==
  /\ DOMAIN transitionRules["draining"] \cap Working = {"maintenance"}
  /\ transitionRules["draining"]["maintenance"] = Observed(drainChecks)
  BY Zenon DEF transitionRules, Working, DrainPath, HealthRules

\* What the rule of the first drain step asks.
LEMMA EnterDrainRule ==
  ASSUME NEW from \in {"ready", "degraded"}
  PROVE  /\ "draining" \in DOMAIN transitionRules[from]
         /\ transitionRules[from]["draining"] =
              Desired({"maintenance-preflight-passed", "scheduling-disabled"})
  <1>1. CASE from = "ready"
    BY Zenon, <1>1 DEF transitionRules, HealthRules
  <1>2. CASE from = "degraded"
    BY Zenon, <1>2 DEF transitionRules, HealthRules
  <1> QED BY Zenon, <1>1, <1>2

\* What the rules ask of a node in maintenance to be replaced or removed.
LEMMA EnterWorkRules ==
  /\ {"replacing", "removing"} \subseteq DOMAIN transitionRules["maintenance"]
  /\ transitionRules["maintenance"]["replacing"] =
       Desired({"operation-approved", "replacement-node-ready", "state-synchronized"})
  /\ transitionRules["maintenance"]["removing"] =
       Desired({"operation-approved", "removal-approved"} \cup drainChecks)
  BY Zenon DEF transitionRules, HealthRules

\* What the rules ask of a replaced or removed node to retire.
LEMMA RetireRules ==
  /\ "retired" \in DOMAIN transitionRules["replacing"]
  /\ "retired" \in DOMAIN transitionRules["removing"]
  /\ transitionRules["replacing"]["retired"] =
       Observed({"replacement-node-ready", "state-synchronized",
                 "switchover-verified", "replacement-health-verified"})
  /\ transitionRules["removing"]["retired"] =
       Observed({"removal-verified", "retirement-approved"})
  BY Zenon DEF transitionRules, HealthRules

\* The rules lead to lifecycle states only.
LEMMA StatesAreKept ==
  ASSUME NEW from \in States
  PROVE  DOMAIN transitionRules[from] \subseteq States
  BY DEF States, transitionRules, HealthRules

-----------------------------------------------------------------------------
(* The node and the transitions admitted on it. *)

\* The fields of a node's record.
NodeRecord ==
  [id : {"node"}, scope : {"site"}, owner : {"site"}, generation : Nat \ {0},
   version : Nat \ {0}, created : Nat \ {0}, updated : Nat \ {0}, state : States,
   changed : Nat \ {0}, reason : BOOLEAN]

\* A record as the store holds it: last changed when last written, with a
\* reason where its state needs one.
Sound(n) ==
  /\ n \in NodeRecord
  /\ n.created <= n.updated /\ n.changed = n.updated
  /\ validateReason(n.state, n.reason)

\* What ValidateTransition asks of a request, besides the time.
Admitted(n, request) ==
  /\ validateReason(request.to, request.reason)
  /\ ValidateAgainst(request.precondition, n)
  /\ request.to \in DOMAIN transitionRules[n.state]
  /\ request.type = transitionRules[n.state][request.to].type
  /\ transitionRules[n.state][request.to].checks \subseteq request.evidence

\* The fields of the record a transition writes.
LEMMA SuccessorFields ==
  ASSUME NEW n \in NodeRecord, NEW request, NEW at, NEW version
  PROVE  /\ Successor(n, request, at, version).id = n.id
         /\ Successor(n, request, at, version).scope = n.scope
         /\ Successor(n, request, at, version).owner = n.owner
         /\ Successor(n, request, at, version).created = n.created
         /\ Successor(n, request, at, version).state = request.to
         /\ Successor(n, request, at, version).reason = request.reason
         /\ Successor(n, request, at, version).updated = at
         /\ Successor(n, request, at, version).changed = at
         /\ Successor(n, request, at, version).version = version
         /\ Successor(n, request, at, version).generation =
              n.generation + (IF request.type = "desired" THEN 1 ELSE 0)
  BY Zenon DEF Successor, NodeRecord

\* A desired transition takes a new generation, an observation none.
LEMMA SuccessorGeneration ==
  ASSUME NEW n \in NodeRecord, NEW request, NEW at, NEW version
  PROVE  Successor(n, request, at, version).generation =
           n.generation + (IF request.type = "desired" THEN 1 ELSE 0)
  BY SuccessorFields

\* The record a transition writes is a record of a node.
LEMMA SuccessorIsARecord ==
  ASSUME NEW n \in NodeRecord, NEW request, request.to \in States,
         request.reason \in BOOLEAN, NEW at \in Nat \ {0},
         NEW version \in Nat \ {0}
  PROVE  Successor(n, request, at, version) \in NodeRecord
  <1> DEFINE g == n.generation + (IF request.type = "desired" THEN 1 ELSE 0)
  <1>1. ASSUME NEW to \in States, NEW reason \in BOOLEAN, NEW gen \in Nat \ {0}
        PROVE  [n EXCEPT !.state = to, !.reason = reason, !.updated = at,
                         !.changed = at, !.version = version, !.generation = gen]
                 \in NodeRecord
    BY Zenon DEF NodeRecord
  <1>2. g \in Nat \ {0}
    <2>1. n.generation \in Nat \ {0}
      BY Zenon DEF NodeRecord
    <2> QED BY <2>1
  <1>3. Successor(n, request, at, version) =
          [n EXCEPT !.state = request.to, !.reason = request.reason,
                    !.updated = at, !.changed = at, !.version = version,
                    !.generation = g]
    BY Zenon DEF Successor
  <1> HIDE DEF g
  <1>4. [n EXCEPT !.state = request.to, !.reason = request.reason, !.updated = at,
                  !.changed = at, !.version = version, !.generation = g]
          \in NodeRecord
    BY Zenon, <1>1, <1>2
  <1> QED BY <1>3, <1>4, Zenon

\* A record the store holds passes Validate and the metadata's checks.
LEMMA SoundIsValid ==
  ASSUME NEW n, Sound(n)
  PROVE  Validate(n) /\ ValidateMetadata(n)
  <1>1. /\ n.id = "node" /\ n.scope = "site" /\ n.owner = "site"
        /\ {n.generation, n.version, n.created, n.updated, n.changed}
             \subseteq Nat \ {0}
        /\ n.state \in States
        /\ n.created <= n.updated /\ n.changed = n.updated
        /\ validateReason(n.state, n.reason)
    BY Zenon DEF Sound, NodeRecord
  <1> QED
    BY <1>1 DEF Validate, ValidateMetadata, validateIdentifier,
                validateOpaqueVersion, NoID

\* ValidateTransition accepts nothing the rules did not admit, whatever
\* version the record will have.
LEMMA PassingIsAdmitted ==
  ASSUME NEW n, Sound(n), NEW request, NEW at \in Nat, NEW version \in Nat,
         ValidateTransition(n, Successor(n, request, at, version), request)
  PROVE  Admitted(n, request) /\ at > n.updated
  <1>1. n \in NodeRecord /\ n.changed = n.updated
    BY Zenon DEF Sound
  <1>2. /\ Successor(n, request, at, version).state = request.to
        /\ Successor(n, request, at, version).reason = request.reason
        /\ Successor(n, request, at, version).changed = at
    BY <1>1, SuccessorFields
  <1> QED BY Zenon, <1>1, <1>2 DEF ValidateTransition, Validate, Admitted

\* What the rules admit, written later than the record it replaces and with
\* the next version, ValidateTransition accepts; the result is sound again.
LEMMA AdmittedPasses ==
  ASSUME NEW n, Sound(n), NEW request, request.to \in States,
         request.reason \in BOOLEAN,
         NEW at \in Nat, Admitted(n, request), at > n.updated
  PROVE  /\ ValidateTransition(n, Successor(n, request, at, n.version + 1), request)
         /\ Sound(Successor(n, request, at, n.version + 1))
  <1> DEFINE next == Successor(n, request, at, n.version + 1)
  <1>1. /\ n \in NodeRecord /\ n.changed = n.updated /\ n.created <= n.updated
        /\ n.created \in Nat /\ n.updated \in Nat /\ n.version \in Nat
        /\ n.generation \in Nat /\ n.updated > 0
    BY DEF Sound, NodeRecord
  <1>2. /\ next.id = n.id /\ next.scope = n.scope /\ next.owner = n.owner
        /\ next.created = n.created /\ next.state = request.to
        /\ next.reason = request.reason /\ next.updated = at /\ next.changed = at
        /\ next.version = n.version + 1
        /\ next.generation =
             n.generation + (IF request.type = "desired" THEN 1 ELSE 0)
    BY <1>1, SuccessorFields
  <1>3. next \in NodeRecord
    BY <1>1, SuccessorIsARecord
  <1> HIDE DEF next
  <1>4. Sound(next)
    BY <1>1, <1>2, <1>3 DEF Sound, Admitted
  <1>5. Validate(n) /\ ValidateMetadata(n) /\ Validate(next) /\ ValidateMetadata(next)
    BY Zenon, <1>4, SoundIsValid
  <1>6. ValidateSuccessor(n, next, request.type = "desired")
    BY <1>1, <1>2, <1>5 DEF ValidateSuccessor
  <1>7. ValidateTransition(n, next, request)
    BY Zenon, <1>1, <1>2, <1>5, <1>6 DEF ValidateTransition, Admitted
  <1> QED BY Zenon, <1>4, <1>7 DEF next

-----------------------------------------------------------------------------
(* The multi-step plans. *)

\* The operations a multi-step plan is built for.
Kinds == {"drain", "replace", "remove"}

\* What BuildOperationPlan and BuildDecommissionPlan list for each.
StepsOf(kind) ==
  IF kind = "drain" THEN drainSteps
  ELSE IF kind = "replace" THEN replaceSteps ELSE removalSteps

\* The place of the next lifecycle step, from the k-th step on.
NextWrite(kind, k) ==
  IF kind = "drain" THEN IF k <= 2 THEN 2 ELSE 4
  ELSE IF k <= 3 THEN 3 ELSE IF kind = "replace" THEN 6 ELSE 5

\* The states of the node in which the k-th step finds it.
Before(kind, k) ==
  IF kind = "drain" THEN IF k <= 2 THEN {"ready", "degraded"} ELSE {"draining"}
  ELSE IF k <= 3 THEN {"maintenance"}
  ELSE IF kind = "replace" THEN {"replacing"} ELSE {"removing"}

\* The drain plan: four steps, of which the second and the last write the
\* lifecycle.
LEMMA DrainSteps ==
  /\ \E S : drainSteps \in Seq(S)
  /\ Len(drainSteps) = 4
  /\ drainSteps[1].to = "none" /\ drainSteps[3].to = "none"
  /\ drainSteps[2].to = "draining" /\ drainSteps[2].type = "desired"
  /\ drainSteps[2].evidence =
       {"maintenance-preflight-passed", "scheduling-disabled"}
  /\ drainSteps[4].to = "maintenance" /\ drainSteps[4].type = "observation"
  /\ drainSteps[4].evidence =
       drainChecks
  <1>1. Len(drainSteps) = 4 /\ \E S : drainSteps \in Seq(S)
    <2>1. drainSteps \in Seq({drainSteps[i] : i \in 1 .. 4}) /\ Len(drainSteps) = 4
      BY DEF drainSteps
    <2> QED BY Zenon, <2>1
  <1>2. drainSteps[1].to = "none" /\ drainSteps[3].to = "none"
    BY Zenon DEF drainSteps, Outside, Step
  <1>3. drainSteps[2] =
          Step("lifecycle.enter-draining", "draining", "desired",
               {"maintenance-preflight-passed", "scheduling-disabled"})
    BY Zenon DEF drainSteps
  <1>4. /\ drainSteps[2].to = "draining" /\ drainSteps[2].type = "desired"
        /\ drainSteps[2].evidence =
             {"maintenance-preflight-passed", "scheduling-disabled"}
    BY <1>3 DEF Step
  <1>5. drainSteps[4] =
          Step("lifecycle.enter-maintenance", "maintenance", "observation",
               drainChecks)
    BY Zenon DEF drainSteps
  <1>6. /\ drainSteps[4].to = "maintenance" /\ drainSteps[4].type = "observation"
        /\ drainSteps[4].evidence =
             drainChecks
    BY <1>5 DEF Step
  <1> QED BY <1>1, <1>2, <1>4, <1>6, Zenon

\* The replacement plan: six steps, of which the third and the last write the
\* lifecycle.
LEMMA ReplaceSteps ==
  /\ \E S : replaceSteps \in Seq(S)
  /\ Len(replaceSteps) = 6
  /\ replaceSteps[1].to = "none" /\ replaceSteps[2].to = "none"
  /\ replaceSteps[4].to = "none" /\ replaceSteps[5].to = "none"
  /\ replaceSteps[3].to = "replacing" /\ replaceSteps[3].type = "desired"
  /\ replaceSteps[3].evidence =
       {"operation-approved"} \cup {"replacement-node-ready", "state-synchronized"}
  /\ replaceSteps[6].to = "retired" /\ replaceSteps[6].type = "observation"
  /\ replaceSteps[6].evidence =
       {"replacement-node-ready", "state-synchronized"}
                 \cup {"switchover-verified", "replacement-health-verified"}
  <1>1. Len(replaceSteps) = 6 /\ \E S : replaceSteps \in Seq(S)
    <2>1. replaceSteps \in Seq({replaceSteps[i] : i \in 1 .. 6}) /\ Len(replaceSteps) = 6
      BY DEF replaceSteps
    <2> QED BY Zenon, <2>1
  <1>2. replaceSteps[1].to = "none" /\ replaceSteps[2].to = "none" /\ replaceSteps[4].to = "none" /\ replaceSteps[5].to = "none"
    BY Zenon DEF replaceSteps, Outside, Step
  <1>3. replaceSteps[3] =
          Step("lifecycle.enter-replacing", "replacing", "desired",
               {"operation-approved"} \cup {"replacement-node-ready", "state-synchronized"})
    BY Zenon DEF replaceSteps
  <1>4. /\ replaceSteps[3].to = "replacing" /\ replaceSteps[3].type = "desired"
        /\ replaceSteps[3].evidence =
             {"operation-approved"} \cup {"replacement-node-ready", "state-synchronized"}
    BY <1>3 DEF Step
  <1>5. replaceSteps[6] =
          Step("lifecycle.retire-replaced-node", "retired", "observation",
               {"replacement-node-ready", "state-synchronized"}
                 \cup {"switchover-verified", "replacement-health-verified"})
    BY Zenon DEF replaceSteps
  <1>6. /\ replaceSteps[6].to = "retired" /\ replaceSteps[6].type = "observation"
        /\ replaceSteps[6].evidence =
             {"replacement-node-ready", "state-synchronized"}
                 \cup {"switchover-verified", "replacement-health-verified"}
    BY <1>5 DEF Step
  <1> QED BY <1>1, <1>2, <1>4, <1>6, Zenon

\* The removal plan: five steps, of which the third and the last write the
\* lifecycle.
LEMMA RemovalSteps ==
  /\ \E S : removalSteps \in Seq(S)
  /\ Len(removalSteps) = 5
  /\ removalSteps[1].to = "none" /\ removalSteps[2].to = "none"
  /\ removalSteps[4].to = "none"
  /\ removalSteps[3].to = "removing" /\ removalSteps[3].type = "desired"
  /\ removalSteps[3].evidence =
       {"operation-approved", "removal-approved"} \cup drainChecks
  /\ removalSteps[5].to = "retired" /\ removalSteps[5].type = "observation"
  /\ removalSteps[5].evidence =
       {"removal-verified", "retirement-approved"}
  <1>1. Len(removalSteps) = 5 /\ \E S : removalSteps \in Seq(S)
    <2>1. removalSteps \in Seq({removalSteps[i] : i \in 1 .. 5}) /\ Len(removalSteps) = 5
      BY DEF removalSteps
    <2> QED BY Zenon, <2>1
  <1>2. removalSteps[1].to = "none" /\ removalSteps[2].to = "none" /\ removalSteps[4].to = "none"
    BY Zenon DEF removalSteps, Outside, Step
  <1>3. removalSteps[3] =
          Step("lifecycle.enter-removing", "removing", "desired",
               {"operation-approved", "removal-approved"} \cup drainChecks)
    BY Zenon DEF removalSteps
  <1>4. /\ removalSteps[3].to = "removing" /\ removalSteps[3].type = "desired"
        /\ removalSteps[3].evidence =
             {"operation-approved", "removal-approved"} \cup drainChecks
    BY <1>3 DEF Step
  <1>5. removalSteps[5] =
          Step("lifecycle.retire-removed-node", "retired", "observation",
               {"removal-verified", "retirement-approved"})
    BY Zenon DEF removalSteps
  <1>6. /\ removalSteps[5].to = "retired" /\ removalSteps[5].type = "observation"
        /\ removalSteps[5].evidence =
             {"removal-verified", "retirement-approved"}
    BY <1>5 DEF Step
  <1> QED BY <1>1, <1>2, <1>4, <1>6, Zenon

\* From every place of a plan, the next lifecycle step lies ahead, the steps
\* before it write nothing, and the place after a lifecycle step expects the
\* state that step writes.
LEMMA StepsAdvance ==
  ASSUME NEW kind \in Kinds, NEW k \in 1 .. Len(StepsOf(kind))
  PROVE  /\ NextWrite(kind, k) \in k .. Len(StepsOf(kind))
         /\ \A j \in k .. NextWrite(kind, k) - 1 : StepsOf(kind)[j].to = "none"
         /\ StepsOf(kind)[NextWrite(kind, k)].to \in States
         /\ StepsOf(kind)[k].to = "none" => Before(kind, k + 1) = Before(kind, k)
         /\ StepsOf(kind)[k].to /= "none" => StepsOf(kind)[k].to \in States
         /\ StepsOf(kind)[k].to /= "none" /\ k < Len(StepsOf(kind)) =>
              Before(kind, k + 1) = {StepsOf(kind)[k].to}
  <1> DEFINE s == StepsOf(kind)  m == NextWrite(kind, k)
  <1>1. CASE kind = "drain"
    <2>1. Len(s) = 4
      BY Zenon, <1>1, DrainSteps DEF StepsOf
    <2>2. s = drainSteps
      BY Zenon, <1>1 DEF StepsOf
    <2>3. k \in 1 .. 4
      BY Zenon, <2>1
    <2> HIDE DEF s
    <2>4. s[1].to = "none" /\ s[2].to = "draining" /\ s[3].to = "none" /\ s[4].to = "maintenance"
      BY <2>2, DrainSteps, Zenon
    <2>5. m = IF k <= 2 THEN 2 ELSE 4
      BY Zenon, <1>1 DEF NextWrite
    <2> HIDE DEF m
    <2>6. m \in k .. Len(s)
      BY <2>1, <2>3, <2>5
    <2>7. \A j \in k .. m - 1 : s[j].to = "none"
      BY <2>3, <2>4, <2>5
    <2>8. s[m].to \in States /\ (s[k].to /= "none" => s[k].to \in States)
      BY <2>3, <2>4, <2>5 DEF States
    <2>9. s[k].to = "none" => Before(kind, k + 1) = Before(kind, k)
      BY <1>1, <2>3, <2>4 DEF Before
    <2>10. s[k].to /= "none" /\ k < Len(s) => Before(kind, k + 1) = {s[k].to}
      BY <1>1, <2>1, <2>3, <2>4 DEF Before
    <2> QED BY Zenon, <2>6, <2>7, <2>8, <2>9, <2>10 DEF s, m
  <1>2. CASE kind = "replace"
    <2>1. Len(s) = 6
      BY Zenon, <1>2, ReplaceSteps DEF StepsOf
    <2>2. s = replaceSteps
      BY Zenon, <1>2 DEF StepsOf
    <2>3. k \in 1 .. 6
      BY Zenon, <2>1
    <2> HIDE DEF s
    <2>4. s[1].to = "none" /\ s[2].to = "none" /\ s[3].to = "replacing" /\ s[4].to = "none" /\ s[5].to = "none" /\ s[6].to = "retired"
      BY <2>2, ReplaceSteps, Zenon
    <2>5. m = IF k <= 3 THEN 3 ELSE 6
      BY Zenon, <1>2 DEF NextWrite
    <2> HIDE DEF m
    <2>6. m \in k .. Len(s)
      BY <2>1, <2>3, <2>5
    <2>7. \A j \in k .. m - 1 : s[j].to = "none"
      BY <2>3, <2>4, <2>5
    <2>8. s[m].to \in States /\ (s[k].to /= "none" => s[k].to \in States)
      BY <2>3, <2>4, <2>5 DEF States
    <2>9. s[k].to = "none" => Before(kind, k + 1) = Before(kind, k)
      BY <1>2, <2>3, <2>4 DEF Before
    <2>10. s[k].to /= "none" /\ k < Len(s) => Before(kind, k + 1) = {s[k].to}
      BY <1>2, <2>1, <2>3, <2>4 DEF Before
    <2> QED BY Zenon, <2>6, <2>7, <2>8, <2>9, <2>10 DEF s, m
  <1>3. CASE kind = "remove"
    <2>1. Len(s) = 5
      BY Zenon, <1>3, RemovalSteps DEF StepsOf
    <2>2. s = removalSteps
      BY Zenon, <1>3 DEF StepsOf
    <2>3. k \in 1 .. 5
      BY Zenon, <2>1
    <2> HIDE DEF s
    <2>4. s[1].to = "none" /\ s[2].to = "none" /\ s[3].to = "removing" /\ s[4].to = "none" /\ s[5].to = "retired"
      BY <2>2, RemovalSteps, Zenon
    <2>5. m = IF k <= 3 THEN 3 ELSE 5
      BY Zenon, <1>3 DEF NextWrite
    <2> HIDE DEF m
    <2>6. m \in k .. Len(s)
      BY <2>1, <2>3, <2>5
    <2>7. \A j \in k .. m - 1 : s[j].to = "none"
      BY <2>3, <2>4, <2>5
    <2>8. s[m].to \in States /\ (s[k].to /= "none" => s[k].to \in States)
      BY <2>3, <2>4, <2>5 DEF States
    <2>9. s[k].to = "none" => Before(kind, k + 1) = Before(kind, k)
      BY <1>3, <2>3, <2>4 DEF Before
    <2>10. s[k].to /= "none" /\ k < Len(s) => Before(kind, k + 1) = {s[k].to}
      <3>1. k < Len(s) => k \in {1, 2, 3, 4}
        BY <2>1, <2>3
      <3>2. s[k].to /= "none" /\ k < Len(s) => k = 3
        BY <2>4, <3>1, Zenon
      <3> QED BY <1>3, <2>4, <3>2 DEF Before
    <2> QED BY Zenon, <2>6, <2>7, <2>8, <2>9, <2>10 DEF s, m
  <1> QED BY Zenon, <1>1, <1>2, <1>3 DEF Kinds

\* The type and the evidence a plan lists for a lifecycle step are what the
\* rule asks of the node where the step finds it.
LEMMA StepsAreRules ==
  ASSUME NEW kind \in Kinds, NEW k \in 1 .. Len(StepsOf(kind)),
         NEW from \in Before(kind, k)
  PROVE  LET step == StepsOf(kind)[NextWrite(kind, k)]
         IN  /\ step.to \in DOMAIN transitionRules[from]
             /\ step.type = transitionRules[from][step.to].type
             /\ transitionRules[from][step.to].checks \subseteq step.evidence
             /\ validateReason(step.to, step.to = "retired")
  <1> DEFINE m == NextWrite(kind, k)
  <1>1. CASE kind = "drain" /\ k <= 2
    <2>1. StepsOf(kind) = drainSteps /\ m = 2 /\ from \in {"ready", "degraded"}
      BY Zenon, <1>1 DEF StepsOf, NextWrite, Before
    <2> QED BY <2>1, DrainSteps, EnterDrainRule DEF Desired, validateReason
  <1>2. CASE kind = "drain" /\ ~(k <= 2)
    <2>1. StepsOf(kind) = drainSteps /\ m = 4 /\ from = "draining"
      BY Zenon, <1>2 DEF StepsOf, NextWrite, Before
    <2> QED BY <2>1, DrainSteps, DrainRule DEF Observed, validateReason
  <1>3. CASE kind = "replace" /\ k <= 3
    <2>1. StepsOf(kind) = replaceSteps /\ m = 3 /\ from = "maintenance"
      BY Zenon, <1>3 DEF StepsOf, NextWrite, Before
    <2>2. /\ StepsOf(kind)[m].to = "replacing" /\ StepsOf(kind)[m].type = "desired"
      BY Zenon, <2>1, ReplaceSteps
    <2>3. /\ transitionRules["maintenance"]["replacing"].checks = StepsOf(kind)[m].evidence
          /\ transitionRules["maintenance"]["replacing"].type = "desired"
      BY <2>1, ReplaceSteps, EnterWorkRules DEF Desired
    <2> QED BY Zenon, <2>1, <2>2, <2>3, EnterWorkRules DEF validateReason
  <1>4. CASE kind = "replace" /\ ~(k <= 3)
    <2>1. StepsOf(kind) = replaceSteps /\ m = 6 /\ from = "replacing"
      BY Zenon, <1>4 DEF StepsOf, NextWrite, Before
    <2> QED BY <2>1, ReplaceSteps, RetireRules DEF Observed, validateReason
  <1>5. CASE kind = "remove" /\ k <= 3
    <2>1. StepsOf(kind) = removalSteps /\ m = 3 /\ from = "maintenance"
      BY Zenon, <1>5 DEF StepsOf, NextWrite, Before
    <2>2. /\ StepsOf(kind)[m].to = "removing" /\ StepsOf(kind)[m].type = "desired"
      BY Zenon, <2>1, RemovalSteps
    <2>3. /\ transitionRules["maintenance"]["removing"].checks = StepsOf(kind)[m].evidence
          /\ transitionRules["maintenance"]["removing"].type = "desired"
      BY <2>1, RemovalSteps, EnterWorkRules DEF Desired
    <2> QED BY Zenon, <2>1, <2>2, <2>3, EnterWorkRules DEF validateReason
  <1>6. CASE kind = "remove" /\ ~(k <= 3)
    <2>1. StepsOf(kind) = removalSteps /\ m = 5 /\ from = "removing"
      BY Zenon, <1>6 DEF StepsOf, NextWrite, Before
    <2> QED BY <2>1, RemovalSteps, RetireRules DEF Observed, validateReason
  <1> QED BY Zenon, <1>1, <1>2, <1>3, <1>4, <1>5, <1>6 DEF Kinds

-----------------------------------------------------------------------------
(* The invariant. *)

\* An accepted plan is about the node as it is, or about an earlier version.
PlanInv(draft, n) ==
  /\ draft.request.to \in States /\ draft.request.reason \in BOOLEAN
  /\ draft.request.precondition.version = draft.basedOn
  /\ draft.basedOn \in Nat /\ draft.basedOn <= n.version
  /\ draft.basedOn = n.version =>
       /\ Admitted(n, draft.request)
       /\ draft.from = n.state
       /\ draft.generation =
            n.generation + (IF draft.request.type = "desired" THEN 1 ELSE 0)

\* What is left of a multi-step plan, and where it finds the node.
RunbookInv(r, n) ==
  \/ r = NoRunbook
  \/ \E kind \in Kinds : \E k \in 1 .. Len(StepsOf(kind)) :
       /\ r.steps = SubSeq(StepsOf(kind), k, Len(StepsOf(kind)))
       /\ r.version \in Nat /\ r.version <= n.version
       /\ r.version = n.version => n.state \in Before(kind, k)

\* The inductive invariant.
LifecycleInv ==
  /\ Sound(node)
  /\ plans = [p \in Planners |-> plans[p]]
  /\ \A p \in Planners : plans[p] = NoPlan \/ PlanInv(plans[p], node)
  /\ RunbookInv(runbook, node)
  /\ WorkFollowsDrain

\* A new node has no drain behind it and no plan.
LEMMA LifecycleInitially == LifecycleInit => LifecycleInv
  <1> SUFFICES ASSUME LifecycleInit PROVE LifecycleInv
    BY Zenon
  <1>1. Sound(node)
    <2>1. ASSUME NEW b \in BOOLEAN
          PROVE  [id |-> "node", scope |-> "site", owner |-> "site",
                  generation |-> 1, version |-> 1, created |-> 1, updated |-> 1,
                  state |-> "discovered", changed |-> 1, reason |-> b] \in NodeRecord
      BY DEF NodeRecord, States
    <2>2. node \in NodeRecord
      BY Zenon, <2>1 DEF LifecycleInit
    <2>3. node.created = 1 /\ node.updated = 1 /\ node.changed = 1
      BY Zenon DEF LifecycleInit
    <2>4. validateReason(node.state, node.reason)
      BY Zenon DEF LifecycleInit, ValidateInitial, Validate
    <2> QED BY <2>2, <2>3, <2>4 DEF Sound
  <1>2. node.state = "discovered"
    BY Zenon DEF LifecycleInit
  <1>3. WorkFollowsDrain
    BY Zenon, <1>2 DEF WorkFollowsDrain, DrainPath
  <1> QED BY Zenon, <1>1, <1>3 DEF LifecycleInit, LifecycleInv, RunbookInv

\* The clock is a number.
LEMMA ClockNumbers ==
  ASSUME Sound(node), NEW at \in Clock
  PROVE  at \in Nat /\ node.updated \in Nat
  BY DEF Sound, NodeRecord, Clock

\* A write moves the node on: whatever was bound to its version is not any
\* more, and the state it leads to follows a drain where it must.
LEMMA WriteKeeps ==
  ASSUME LifecycleInv, NEW at \in Clock, NEW request,
         request.to \in States, request.reason \in BOOLEAN, Write(request, at)
  PROVE  /\ Sound(node') /\ WorkFollowsDrain'
         /\ node.version \in Nat /\ node'.version = node.version + 1
         /\ node'.state = request.to
         /\ \A draft : PlanInv(draft, node) => PlanInv(draft, node')
         /\ RunbookInv(runbook, node) => RunbookInv(runbook, node')
  <1>1. at \in Nat /\ Sound(node) /\ node \in NodeRecord /\ node.version \in Nat
    BY Zenon, ClockNumbers DEF LifecycleInv, Sound, NodeRecord
  <1>2. node' = Successor(node, request, at, node.version + 1)
    BY Zenon DEF Write, Stored
  <1>3. Admitted(node, request) /\ at > node.updated
    <2>1. ValidateTransition(node, Successor(node, request, at, node.version + 1),
                             request)
      BY Zenon DEF Write, Stored
    <2>2. node.version + 1 \in Nat
      BY <1>1
    <2> QED BY Zenon, <1>1, <2>1, <2>2, PassingIsAdmitted
  <1>4. Sound(node')
    BY Zenon, <1>1, <1>2, <1>3, AdmittedPasses
  <1>5. node'.version = node.version + 1 /\ node'.state = request.to
    BY <1>1, <1>2, SuccessorFields
  <1>6. WorkFollowsDrain'
    <2> SUFFICES ASSUME request.to \in Working
                 PROVE  drainChecks \subseteq attested'
      BY Zenon, <1>5 DEF WorkFollowsDrain, Working
    <2>1. attested' = attested \cup request.evidence
      BY Zenon DEF Write, Working
    <2>2. /\ node.state \in States
          /\ request.to \in DOMAIN transitionRules[node.state]
          /\ transitionRules[node.state][request.to].checks \subseteq request.evidence
      BY Zenon, <1>1, <1>3 DEF Admitted, NodeRecord
    <2>3. CASE node.state \in Working
      BY Zenon, <2>1, <2>3 DEF LifecycleInv, WorkFollowsDrain, Working
    <2>4. CASE node.state = "draining"
      <3>1. transitionRules[node.state][request.to] = Observed(drainChecks)
        BY Zenon, <2>2, <2>4, DrainRule
      <3> QED BY <2>1, <2>2, <3>1 DEF Observed
    <2>5. CASE node.state \notin Working \cup {"draining"}
      BY Zenon, <2>2, <2>5, NoWorkWithoutDrain
    <2> QED BY Zenon, <2>3, <2>4, <2>5
  <1>7. \A draft : PlanInv(draft, node) => PlanInv(draft, node')
    BY <1>1, <1>5 DEF PlanInv
  <1>8. RunbookInv(runbook, node) => RunbookInv(runbook, node')
    BY <1>1, <1>5 DEF RunbookInv
  <1> QED BY Zenon, <1>1, <1>4, <1>5, <1>6, <1>7, <1>8

\* A plan that BuildTransitionPlan accepts is bound to the node as it is.
LEMMA PlanKeeps ==
  ASSUME LifecycleInv, NEW p \in Planners, NEW to \in States,
         NEW type, NEW reason \in BOOLEAN, NEW evidence, NEW at \in Clock,
         Plan(p, to, type, reason, evidence, at)
  PROVE  LifecycleInv'
  <1> DEFINE pre == [id |-> node.id, version |-> node.version,
                     generation |-> node.generation]
             request == [to |-> to, type |-> type, reason |-> reason,
                         evidence |-> evidence, precondition |-> pre]
             draft == [state |-> "accepted", request |-> request,
                      from |-> node.state, basedOn |-> node.version,
                      generation |->
                        Successor(node, request, at, PlanVersion).generation]
  <1>1. /\ BuildTransitionPlan(node, request, at)
        /\ plans' = [plans EXCEPT ![p] = draft]
        /\ UNCHANGED <<node, runbook, attested>>
    BY Zenon DEF Plan
  <1>2. /\ request.to = to /\ request.reason = reason
        /\ request.precondition.version = node.version
    BY Zenon
  <1>3. /\ draft.request = request /\ draft.from = node.state
        /\ draft.basedOn = node.version
        /\ draft.generation = Successor(node, request, at, PlanVersion).generation
    BY Zenon
  <1> HIDE DEF request, draft
  <1>4. /\ Sound(node) /\ node \in NodeRecord /\ node.version \in Nat
        /\ at \in Nat /\ PlanVersion \in Nat
    BY ClockNumbers, LifecycleAssumption
       DEF LifecycleInv, Sound, NodeRecord, PlanVersion
  <1>5. Admitted(node, request)
    BY Zenon, <1>1, <1>4, PassingIsAdmitted DEF BuildTransitionPlan
  <1>6. draft.generation =
          node.generation + (IF draft.request.type = "desired" THEN 1 ELSE 0)
    <2>1. Successor(node, request, at, PlanVersion).generation =
            node.generation + (IF request.type = "desired" THEN 1 ELSE 0)
      BY Zenon, <1>4, SuccessorGeneration
    <2>2. draft.request.type = request.type
      BY Zenon, <1>3
    <2> QED BY Zenon, <1>3, <2>1, <2>2
  <1>7. PlanInv(draft, node)
    BY <1>2, <1>3, <1>4, <1>5, <1>6 DEF PlanInv
  <1> QED
    BY Zenon, <1>1, <1>7 DEF LifecycleInv, WorkFollowsDrain

\* A plan used late is accepted only on its own version; either way the
\* invariant holds.
LEMMA CommitKeeps ==
  ASSUME LifecycleInv, NEW p \in Planners, NEW at \in Clock, Commit(p, at)
  PROVE  LifecycleInv'
  <1>1. /\ plans' = [plans EXCEPT ![p] = NoPlan]
        /\ runbook' = runbook
        /\ PlanInv(plans[p], node)
    BY Zenon DEF Commit, LifecycleInv
  <1>2. CASE UNCHANGED <<node, attested>>
    BY Zenon, <1>1, <1>2 DEF LifecycleInv, WorkFollowsDrain
  <1>3. CASE Write(plans[p].request, at)
    <2>1. plans[p].request.to \in States /\ plans[p].request.reason \in BOOLEAN
      BY Zenon, <1>1 DEF PlanInv
    <2>2. /\ Sound(node') /\ WorkFollowsDrain'
          /\ \A draft : PlanInv(draft, node) => PlanInv(draft, node')
          /\ RunbookInv(runbook, node) => RunbookInv(runbook, node')
      BY Zenon, <1>3, <2>1, WriteKeeps
    <2> QED BY Zenon, <1>1, <2>2 DEF LifecycleInv
  <1> QED BY Zenon, <1>2, <1>3 DEF Commit

\* A sequence is the suffix of itself from its first place.
LEMMA WholeSequence ==
  ASSUME NEW S, NEW s \in Seq(S)
  PROVE  SubSeq(s, 1, Len(s)) = s
  OBVIOUS

\* A multi-step plan starts with all its steps, in a state its first lifecycle
\* step expects.
LEMMA StartKeeps ==
  ASSUME LifecycleInv, NEW kind \in Kinds, StartRunbook(StepsOf(kind)),
         node.state \in Before(kind, 1)
  PROVE  LifecycleInv'
  <1> DEFINE steps == StepsOf(kind)
  <1>1. Len(steps) \in Nat /\ Len(steps) > 0 /\ SubSeq(steps, 1, Len(steps)) = steps
    <2>1. \E S : steps \in Seq(S)
      BY Zenon, DrainSteps, ReplaceSteps, RemovalSteps DEF StepsOf, Kinds
    <2>2. Len(steps) \in {4, 5, 6}
      BY Zenon, DrainSteps, ReplaceSteps, RemovalSteps DEF StepsOf, Kinds
    <2> HIDE DEF steps
    <2>3. SubSeq(steps, 1, Len(steps)) = steps
      BY Zenon, <2>1, WholeSequence
    <2> QED BY <2>2, <2>3
  <1>2. /\ runbook'.steps = steps /\ runbook'.version = node.version
        /\ UNCHANGED <<node, plans, attested>>
    BY Zenon DEF StartRunbook
  <1>3. node.version \in Nat
    BY Zenon DEF LifecycleInv, Sound, NodeRecord
  <1>4. 1 \in 1 .. Len(steps)
    BY <1>1
  <1> HIDE DEF steps
  <1>5. RunbookInv(runbook', node')
    BY <1>1, <1>2, <1>3, <1>4 DEF RunbookInv, steps
  <1> QED BY Zenon, <1>2, <1>5 DEF LifecycleInv, WorkFollowsDrain

\* The head and the tail of a suffix.
LEMMA Suffix ==
  ASSUME NEW S, NEW s \in Seq(S), NEW k \in 1 .. Len(s)
  PROVE  /\ Len(SubSeq(s, k, Len(s))) = Len(s) - k + 1
         /\ \A i \in 1 .. Len(s) - k + 1 : SubSeq(s, k, Len(s))[i] = s[k + i - 1]
         /\ Head(SubSeq(s, k, Len(s))) = s[k]
         /\ k < Len(s) => Tail(SubSeq(s, k, Len(s))) = SubSeq(s, k + 1, Len(s))
  OBVIOUS

\* A step of a multi-step plan that is carried out leaves the rest of the plan
\* where that rest expects the node.
LEMMA RunStepKeeps ==
  ASSUME LifecycleInv, NEW at \in Clock, RunStep(at)
  PROVE  LifecycleInv'
  <1>1. PICK kind \in Kinds : \E k \in 1 .. Len(StepsOf(kind)) :
          /\ runbook.steps = SubSeq(StepsOf(kind), k, Len(StepsOf(kind)))
          /\ runbook.version \in Nat /\ runbook.version <= node.version
          /\ runbook.version = node.version => node.state \in Before(kind, k)
    BY Zenon DEF RunStep, LifecycleInv, RunbookInv
  <1> DEFINE s == StepsOf(kind)
  <1>2. PICK k \in 1 .. Len(s) :
          /\ runbook.steps = SubSeq(s, k, Len(s))
          /\ runbook.version \in Nat /\ runbook.version <= node.version
          /\ runbook.version = node.version => node.state \in Before(kind, k)
    BY Zenon, <1>1
  <1>3. \E S : s \in Seq(S)
    BY Zenon, DrainSteps, ReplaceSteps, RemovalSteps DEF StepsOf, Kinds
  <1>4. /\ Head(runbook.steps) = s[k]
        /\ k < Len(s) => Tail(runbook.steps) = SubSeq(s, k + 1, Len(s))
        /\ Len(runbook.steps) = 1 <=> k = Len(s)
    <2>1. PICK S : s \in Seq(S)
      BY Zenon, <1>3
    <2> HIDE DEF s
    <2>2. /\ Len(runbook.steps) = Len(s) - k + 1
          /\ Head(runbook.steps) = s[k]
          /\ k < Len(s) => Tail(runbook.steps) = SubSeq(s, k + 1, Len(s))
      BY Zenon, <1>2, <2>1, Suffix
    <2>3. Len(s) \in Nat
      BY <2>1
    <2> QED BY <2>2, <2>3
  <1>5. ASSUME NEW version \in Nat, runbook' = Rest(version),
               version <= node'.version,
               k < Len(s) /\ version = node'.version =>
                 node'.state \in Before(kind, k + 1)
        PROVE  RunbookInv(runbook', node')
    <2>1. CASE k = Len(s)
      BY Zenon, <1>4, <1>5, <2>1 DEF Rest, RunbookInv
    <2>2. CASE k /= Len(s)
      <3>1. k < Len(s) /\ k + 1 \in 1 .. Len(s)
        BY <1>2, <1>3, <2>2
      <3>2. /\ runbook'.steps = SubSeq(s, k + 1, Len(s))
            /\ runbook'.version = version
        BY Zenon, <1>4, <1>5, <2>2, <3>1 DEF Rest
      <3> HIDE DEF s
      <3> QED BY Zenon, <1>5, <3>1, <3>2 DEF RunbookInv, s
    <2> QED BY Zenon, <2>1, <2>2
  <1>6. UNCHANGED plans
    BY Zenon DEF RunStep
  <1>7. CASE /\ s[k].to = "none" /\ runbook' = Rest(runbook.version)
             /\ UNCHANGED <<node, attested>>
    <2>1. Before(kind, k + 1) = Before(kind, k)
      BY Zenon, <1>2, <1>7, StepsAdvance
    <2>2. RunbookInv(runbook', node')
      BY Zenon, <1>2, <1>5, <1>7, <2>1
    <2> QED BY Zenon, <1>6, <1>7, <2>2 DEF LifecycleInv, WorkFollowsDrain
  <1>8. CASE /\ s[k].to /= "none" /\ Write(StepRequest(s[k]), at)
             /\ runbook' = Rest(node'.version)
    <2>1. /\ StepRequest(s[k]).to = s[k].to
          /\ StepRequest(s[k]).reason \in BOOLEAN
      BY Zenon DEF StepRequest
    <2>2. s[k].to \in States
      BY Zenon, <1>2, <1>8, StepsAdvance
    <2>3. /\ Sound(node') /\ WorkFollowsDrain'
          /\ node.version \in Nat /\ node'.version = node.version + 1
          /\ node'.state = s[k].to
          /\ \A draft : PlanInv(draft, node) => PlanInv(draft, node')
      BY Zenon, <1>8, <2>1, <2>2, WriteKeeps
    <2>4. k < Len(s) => Before(kind, k + 1) = {s[k].to}
      BY Zenon, <1>2, <1>8, StepsAdvance
    <2>5. RunbookInv(runbook', node')
      <3>1. node'.version \in Nat /\ node'.version <= node'.version
        BY <2>3
      <3>2. k < Len(s) => node'.state \in Before(kind, k + 1)
        BY Zenon, <2>3, <2>4
      <3> QED BY Zenon, <1>5, <1>8, <3>1, <3>2
    <2> QED BY Zenon, <1>6, <2>3, <2>5 DEF LifecycleInv
  <1>9. CASE runbook' = NoRunbook /\ UNCHANGED <<node, attested>>
    BY Zenon, <1>6, <1>9 DEF LifecycleInv, RunbookInv, WorkFollowsDrain
  <1> QED BY Zenon, <1>4, <1>7, <1>8, <1>9 DEF RunStep

\* The invariant holds in every state: the node is sound, a plan for its
\* version was admitted for it as it is, and what is left of a multi-step plan
\* finds it in the state it expects (ValidateTransition, BuildTransitionPlan,
\* BuildOperationPlan and BuildDecommissionPlan).
THEOREM LifecycleInvariant == LifecycleSpec => []LifecycleInv
  <1>1. LifecycleInv /\ [LifecycleNext]_lifecycleVars => LifecycleInv'
    <2> SUFFICES ASSUME LifecycleInv, [LifecycleNext]_lifecycleVars
                 PROVE  LifecycleInv'
      BY Zenon
    <2>1. ASSUME NEW kind, NEW replacement, NEW placements,
                 StartRunbook(BuildOperationPlan(node, kind, replacement, placements))
          PROVE  LifecycleInv'
      <3> DEFINE steps == BuildOperationPlan(node, kind, replacement, placements)
      <3>1. steps /= <<>>
        BY Zenon, <2>1 DEF StartRunbook
      <3>2. \/ steps = StepsOf("drain") /\ node.state \in Before("drain", 1)
            \/ steps = StepsOf("replace") /\ node.state \in Before("replace", 1)
        BY <3>1 DEF BuildOperationPlan, StepsOf, Before
      <3> QED BY Zenon, <2>1, <3>2, StartKeeps DEF Kinds
    <2>2. ASSUME StartRunbook(BuildDecommissionPlan(node))
          PROVE  LifecycleInv'
      <3>1. BuildDecommissionPlan(node) /= <<>>
        BY Zenon, <2>2 DEF StartRunbook
      <3>2. /\ BuildDecommissionPlan(node) = StepsOf("remove")
            /\ node.state \in Before("remove", 1)
        BY <3>1 DEF BuildDecommissionPlan, StepsOf, Before
      <3> QED BY Zenon, <2>2, <3>2, StartKeeps DEF Kinds
    <2>3. CASE UNCHANGED lifecycleVars
      BY Zenon, <2>3 DEF lifecycleVars, LifecycleInv, WorkFollowsDrain
    <2> QED
      BY Zenon, <2>1, <2>2, <2>3, PlanKeeps, CommitKeeps, RunStepKeeps DEF LifecycleNext
  <1> QED BY LifecycleInitially, <1>1, PTL DEF LifecycleSpec

\* For any planners and placements a node is worked on only after a complete
\* drain, whatever detours through failures and cancellations it took
\* (WorkFollowsDrain; the transition rules and ValidateTransition).
THEOREM DrainPrecedesWork == LifecycleSpec => []WorkFollowsDrain
  <1>1. LifecycleInv => WorkFollowsDrain
    BY Zenon DEF LifecycleInv
  <1> QED BY LifecycleInvariant, <1>1, PTL

\* An accepted plan is what the store would commit, on the version it was made
\* for and on no other (BuildTransitionPlan).
LEMMA PlansBind ==
  ASSUME LifecycleInv
  PROVE  PlanBindsToItsVersion
  <1> SUFFICES ASSUME NEW p \in Planners, NEW at \in Clock, plans[p] /= NoPlan
               PROVE  /\ ValidateTransition(node, Stored(plans[p].request, at),
                                            plans[p].request)
                           <=> plans[p].basedOn = node.version /\ at > node.updated
                      /\ plans[p].basedOn = node.version =>
                           /\ plans[p].from = node.state
                           /\ plans[p].generation =
                                Stored(plans[p].request, at).generation
    BY Zenon DEF PlanBindsToItsVersion
  <1> DEFINE draft == plans[p]  request == plans[p].request
  <1>1. PlanInv(draft, node) /\ Sound(node) /\ node \in NodeRecord
    BY Zenon DEF LifecycleInv, Sound
  <1>2. at \in Nat /\ node.version \in Nat /\ node.version + 1 \in Nat
    BY <1>1, ClockNumbers DEF NodeRecord
  <1>3. Stored(request, at) = Successor(node, request, at, node.version + 1)
    BY Zenon DEF Stored
  <1>4. Stored(request, at).generation =
          node.generation + (IF request.type = "desired" THEN 1 ELSE 0)
    <2>1. Successor(node, request, at, node.version + 1).generation =
            node.generation + (IF request.type = "desired" THEN 1 ELSE 0)
      BY Zenon, <1>1, SuccessorGeneration
    <2> QED BY Zenon, <1>3, <2>1
  <1>5. ASSUME ValidateTransition(node, Stored(request, at), request)
        PROVE  draft.basedOn = node.version /\ at > node.updated
    <2>1. Admitted(node, request) /\ at > node.updated
      BY Zenon, <1>1, <1>2, <1>3, <1>5, PassingIsAdmitted
    <2> QED BY Zenon, <1>1, <2>1 DEF Admitted, ValidateAgainst, PlanInv
  <1>6. ASSUME draft.basedOn = node.version, at > node.updated
        PROVE  ValidateTransition(node, Stored(request, at), request)
    BY Zenon, <1>1, <1>2, <1>3, <1>6, AdmittedPasses DEF PlanInv
  <1> QED BY Zenon, <1>1, <1>4, <1>5, <1>6 DEF PlanInv

\* The next lifecycle step of a suffix is where the first of its steps that
\* write is.
LEMMA Smallest ==
  ASSUME NEW T \in SUBSET Int, NEW x \in T, \A j \in T : x <= j
  PROVE  (CHOOSE i \in T : \A j \in T : i <= j) = x
  <1> DEFINE first == CHOOSE i \in T : \A j \in T : i <= j
  <1>1. first \in T /\ \A j \in T : first <= j
    BY Zenon
  <1> HIDE DEF first
  <1>2. first = x
    BY <1>1
  <1> QED BY Zenon, <1>2 DEF first

\* A place of a suffix before the m-th step is one before m in the whole.
LEMMA EarlierPlace ==
  ASSUME NEW k \in Int, NEW m \in Int, NEW length \in Int,
         NEW j \in 1 .. length - k + 1, ~(m - k + 1 <= j)
  PROVE  k + j - 1 \in k .. m - 1
  OBVIOUS

\* The next lifecycle step of a multi-step plan is admitted with the evidence
\* the plan lists for it, while the plan is current (BuildOperationPlan,
\* BuildDecommissionPlan).
LEMMA RunbookSteps ==
  ASSUME LifecycleInv
  PROVE  RunbookIsAdmitted
  <1> DEFINE steps == {i \in 1 .. Len(runbook.steps) : runbook.steps[i].to /= "none"}
             first == CHOOSE i \in steps : \A j \in steps : i <= j
  <1> SUFFICES ASSUME NEW at \in Clock \ {node.updated},
                      runbook.version = node.version, steps /= {}
               PROVE  ValidateTransition(node,
                        Stored(StepRequest(runbook.steps[first]), at),
                        StepRequest(runbook.steps[first]))
    BY Zenon DEF RunbookIsAdmitted
  <1>1. runbook /= NoRunbook
    <2> SUFFICES ASSUME runbook = NoRunbook PROVE FALSE
      BY Zenon
    <2>1. Len(runbook.steps) = 0
      BY Zenon DEF NoRunbook
    <2> QED BY <2>1
  <1>2. PICK kind \in Kinds : \E k \in 1 .. Len(StepsOf(kind)) :
          /\ runbook.steps = SubSeq(StepsOf(kind), k, Len(StepsOf(kind)))
          /\ node.state \in Before(kind, k)
    BY Zenon, <1>1 DEF LifecycleInv, RunbookInv
  <1> DEFINE s == StepsOf(kind)
  <1>3. PICK k \in 1 .. Len(s) :
          /\ runbook.steps = SubSeq(s, k, Len(s))
          /\ node.state \in Before(kind, k)
    BY Zenon, <1>2
  <1> DEFINE m == NextWrite(kind, k)
  <1>4. /\ m \in k .. Len(s)
        /\ \A j \in k .. m - 1 : s[j].to = "none"
        /\ s[m].to \in States
    BY Zenon, <1>3, StepsAdvance
  <1>5. PICK S : s \in Seq(S)
    BY Zenon, DrainSteps, ReplaceSteps, RemovalSteps DEF StepsOf, Kinds
  <1> HIDE DEF s, m
  <1>6. /\ Len(s) \in Nat /\ Len(runbook.steps) = Len(s) - k + 1
        /\ \A i \in 1 .. Len(s) - k + 1 : runbook.steps[i] = s[k + i - 1]
    <2> DEFINE rest == SubSeq(s, k, Len(s))
    <2>1. /\ Len(rest) = Len(s) - k + 1
          /\ \A i \in 1 .. Len(s) - k + 1 : rest[i] = s[k + i - 1]
      BY Zenon, <1>3, <1>5, Suffix
    <2>2. Len(s) \in Nat
      BY <1>5
    <2> QED BY Zenon, <1>3, <2>1, <2>2
  <1>7. s[m].to /= "none"
    BY Zenon, <1>4 DEF States
  <1>8. /\ m - k + 1 \in steps
        /\ \A j \in steps : m - k + 1 <= j
        /\ runbook.steps[m - k + 1] = s[m]
    <2>1. k \in Int /\ m \in Int /\ k <= m /\ m <= Len(s)
      BY <1>3, <1>4, <1>6
    <2>2. m - k + 1 \in 1 .. Len(s) - k + 1 /\ k + (m - k + 1) - 1 = m
      BY <1>6, <2>1
    <2>3. runbook.steps[m - k + 1] = s[m]
      BY Zenon, <1>6, <2>2
    <2>4. m - k + 1 \in steps
      BY Zenon, <1>6, <1>7, <2>2, <2>3
    <2>5. ASSUME NEW j \in steps, ~(m - k + 1 <= j)
          PROVE  FALSE
      <3>1. j \in 1 .. Len(s) - k + 1 /\ runbook.steps[j].to /= "none"
        BY Zenon, <1>6
      <3>2. k + j - 1 \in k .. m - 1
        BY <1>6, <2>1, <2>5, <3>1, EarlierPlace
      <3> QED BY Zenon, <1>4, <1>6, <3>1, <3>2
    <2> QED BY Zenon, <2>3, <2>4, <2>5
  <1> HIDE DEF first
  <1>9. first = m - k + 1
    <2>1. steps \subseteq Int
      OBVIOUS
    <2> HIDE DEF steps
    <2> QED BY <1>8, <2>1, Smallest, Zenon DEF first
  <1>10. runbook.steps[first] = s[m]
    BY Zenon, <1>8, <1>9
  <1> DEFINE request == StepRequest(s[m])
  <1>11. /\ Sound(node) /\ at \in Nat /\ at > node.updated
    <2>1. Sound(node) /\ at \in Clock /\ at /= node.updated
      BY Zenon DEF LifecycleInv
    <2> QED BY <2>1, ClockNumbers DEF Clock
  <1>12. Admitted(node, request)
    <2>1. /\ s[m].to \in DOMAIN transitionRules[node.state]
          /\ s[m].type = transitionRules[node.state][s[m].to].type
          /\ transitionRules[node.state][s[m].to].checks \subseteq s[m].evidence
          /\ validateReason(s[m].to, s[m].to = "retired")
      BY Zenon, <1>3, StepsAreRules DEF s, m
    <2>2. ValidateAgainst([id |-> node.id, version |-> node.version,
                           generation |-> 0], node)
      <3>1. ValidateMetadata(node)
        BY Zenon, <1>11, SoundIsValid
      <3> QED BY Zenon, <3>1 DEF ValidateAgainst, ValidateMetadata
    <2> QED BY Zenon, <2>1, <2>2 DEF Admitted, StepRequest
  <1>13. request.to \in States /\ request.reason \in BOOLEAN
    BY Zenon, <1>4 DEF StepRequest
  <1> QED BY Zenon, <1>10, <1>11, <1>12, <1>13, AdmittedPasses DEF Stored

\* For any planners and placements plans are honoured: what one announces is
\* what the store would commit, on its version only, and the evidence it asks
\* for is enough (PlansAreHonoured).
THEOREM PlansHonoured == LifecycleSpec => []PlansAreHonoured
  <1>1. LifecycleInv => PlansAreHonoured
    BY Zenon, PlansBind, RunbookSteps DEF PlansAreHonoured
  <1> QED BY LifecycleInvariant, <1>1, PTL
=============================================================================
