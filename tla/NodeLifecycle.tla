---------------------------- MODULE NodeLifecycle ---------------------------
(***************************************************************************)
(* The lifecycle of a node (src/internal/nodelifecycle): the transitions    *)
(* with the evidence they need, the plans an operator asks for, and the     *)
(* plans that take a node through several transitions.                     *)
(*                                                                         *)
(* The contracts do not write: Commit stands for the storage adapter that  *)
(* runs ValidateTransition in the transaction of its compare-and-swap.     *)
(* Plans are made on one projection and committed later, by writers that   *)
(* do not wait for one another.  A reason is present or not; a plan's      *)
(* fingerprint is the plan itself.                                         *)
(***************************************************************************)
EXTENDS ObjectMetadata, Sequences

CONSTANTS Planners, Placements,
          MaxTime   \* bound: the time of the last write

ASSUME LifecycleAssumption == MaxTime \in Nat \ {0}

VARIABLES node,     \* the stored lifecycle object
          plans,    \* planner -> an accepted plan with its request
          runbook,  \* the operation or decommission plan being carried out
          attested  \* the checks attested since the node last served

lifecycleVars == <<node, plans, runbook, attested>>

States ==
  {"discovered", "enrolling", "ready", "degraded", "draining", "maintenance",
   "updating", "replacing", "removing", "offline", "recovering", "retired"}

drainChecks ==
  {"maintenance-preflight-passed", "scheduling-disabled", "drain-complete",
   "no-active-jobs", "no-active-placements", "stateful-workloads-safe"}

Desired(checks) == [type |-> "desired", checks |-> checks]

Observed(checks) == [type |-> "observation", checks |-> checks]

HealthRulesResuming(f) ==
  [s \in {"degraded", "offline", "maintenance"} \cup DOMAIN f |->
     IF s \in DOMAIN f THEN f[s] ELSE Observed({})]

\* The states that health reports lead to from a state that admits them.
HealthRules(f) ==
  [s \in {"degraded", "offline"} \cup DOMAIN f |->
     IF s \in DOMAIN f THEN f[s] ELSE Observed({})]

transitionRules ==
  LET draining == Desired({"maintenance-preflight-passed", "scheduling-disabled"})
      rollback == Desired({"operation-cancelled", "rollback-verified"})
      abandon  == Desired({"retirement-approved", "no-managed-state"})
  IN [discovered |->
        [enrolling |-> Desired({"enrollment-authorized"}), retired |-> abandon],
      enrolling |-> HealthRules(
        [ready   |-> Observed({"identity-verified", "readiness-passed"}),
         retired |-> abandon]),
      ready |-> HealthRules([draining |-> draining]),
      degraded |->
        [ready      |-> Observed({"readiness-passed"}), draining |-> draining,
         offline    |-> Observed({}),
         recovering |-> Observed({"recovery-started"})],
      draining |-> HealthRules(
        [maintenance |-> Observed(drainChecks),
         ready |-> Desired({"operation-cancelled", "scheduling-enabled",
                            "readiness-passed"})]),
      maintenance |-> HealthRules(
        [ready     |-> Desired({"scheduling-enabled", "readiness-passed"}),
         updating  |-> Desired({"operation-approved",
                                "maintenance-preflight-passed"}),
         replacing |-> Desired({"operation-approved", "replacement-node-ready",
                                "state-synchronized"}),
         removing  |-> Desired({"operation-approved", "removal-approved"}
                                 \cup drainChecks)]),
      updating |-> HealthRules(
        [ready       |-> Observed({"update-verified", "scheduling-enabled",
                                   "readiness-passed"}),
         maintenance |-> Observed({"update-verified"})]),
      replacing |-> HealthRules(
        [retired |-> Observed({"replacement-node-ready", "state-synchronized",
                               "switchover-verified",
                               "replacement-health-verified"}),
         maintenance |-> rollback]),
      removing |-> HealthRules(
        [retired     |-> Observed({"removal-verified", "retirement-approved"}),
         maintenance |-> rollback]),
      offline |->
        [recovering |-> Observed({"identity-verified", "recovery-started"}),
         retired    |-> Desired(abandon.checks \cup {"stateful-workloads-safe"})],
      recovering |-> HealthRules(
        [ready    |-> Observed({"recovery-verified", "readiness-passed"}),
         draining |-> draining]),
      retired |-> <<>>]

validateReason(state, reason) ==
  reason <=> state \in {"degraded", "offline", "recovering", "retired"}

Validate(l) ==
  /\ ValidateMetadata(l)
  /\ l.state \in States
  /\ l.changed > 0
  /\ l.created <= l.changed /\ l.changed <= l.updated
  /\ validateReason(l.state, l.reason)

ValidateInitial(l) ==
  /\ Validate(l)
  /\ l.state = "discovered"
  /\ l.generation = 1
  /\ l.created = l.updated /\ l.changed = l.created

ValidateTransition(current, next, request) ==
  /\ Validate(current)
  /\ Validate(next)
  /\ request.to = next.state
  /\ request.reason = next.reason
  /\ ValidateAgainst(request.precondition, current)
  /\ next.state \in DOMAIN transitionRules[current.state]
  /\ LET rule == transitionRules[current.state][next.state]
     IN  /\ request.type = rule.type
         /\ rule.checks \subseteq request.evidence
  /\ current.scope = next.scope /\ current.owner = next.owner
  /\ next.changed = next.updated
  /\ next.changed > current.changed
  /\ ValidateSuccessor(current, next, request.type = "desired")

\* The object a transition would store.
Successor(current, request, now, version) ==
  [current EXCEPT !.state = request.to, !.reason = request.reason,
                  !.updated = now, !.changed = now, !.version = version,
                  !.generation = @ + (IF request.type = "desired" THEN 1 ELSE 0)]

\* BuildTransitionPlan accepts the request: a version that no object has stands
\* for the fingerprint of the plan.
PlanVersion == MaxTime + 1

BuildTransitionPlan(current, request, now) ==
  /\ Validate(current)
  /\ now > current.updated
  /\ ValidateTransition(current, Successor(current, request, now, PlanVersion),
                        request)

-----------------------------------------------------------------------------
(* operation_plan.go and decommission_plan.go *)

validatePlacements(placements) ==
  \A p \in placements :
     IF p.kind = "stateful" THEN p.adapter /= NoID /\ p.replicas >= 1
                            ELSE p.adapter = NoID /\ p.replicas >= 0

Step(action, to, type, evidence) ==
  [action |-> action, to |-> to, type |-> type, evidence |-> evidence]

\* A step that works outside the lifecycle.
Outside(action, evidence) == Step(action, "none", "none", evidence)

drainSteps == <<
  Outside("scheduler.disable", {"maintenance-preflight-passed"}),
  Step("lifecycle.enter-draining", "draining", "desired",
       {"maintenance-preflight-passed", "scheduling-disabled"}),
  Outside("placements.evacuate",
          {"scheduling-disabled", "stateful-workloads-safe"}),
  Step("lifecycle.enter-maintenance", "maintenance", "observation", drainChecks)>>

replaceSteps ==
  LET synchronized == {"replacement-node-ready", "state-synchronized"}
  IN <<
  Outside("replacement.verify-ready", {"operation-approved"}),
  Outside("state.synchronize", {"replacement-node-ready"}),
  Step("lifecycle.enter-replacing", "replacing", "desired",
       {"operation-approved"} \cup synchronized),
  Outside("placements.switchover", synchronized \cup {"stateful-workloads-safe"}),
  Outside("replacement.verify-health", {"switchover-verified"}),
  Step("lifecycle.retire-replaced-node", "retired", "observation",
       synchronized \cup {"switchover-verified", "replacement-health-verified"})>>

BuildOperationPlan(current, kind, replacement, placements) ==
  IF ~ Validate(current) \/ ~ validatePlacements(placements) THEN <<>>
  ELSE IF kind = "drain"
  THEN IF current.state \in {"ready", "degraded"} /\ replacement = NoID
       THEN drainSteps ELSE <<>>
  ELSE IF current.state = "maintenance" /\ replacement \notin {NoID, current.id}
       THEN replaceSteps ELSE <<>>

DecommissionUnapproved(current) ==
  IF current.state /= "maintenance" THEN <<>>
  ELSE <<Step("lifecycle.enter-removing", "removing", "desired",
              {"removal-approved"} \cup drainChecks)>>

removalSteps ==
  LET approved == {"operation-approved", "removal-approved"}
  IN <<
  Outside("removal.verify-approved", approved),
  Outside("removal.verify-drained", drainChecks),
  Step("lifecycle.enter-removing", "removing", "desired",
       approved \cup drainChecks),
  Outside("removal.verify-complete", {"removal-verified"}),
  Step("lifecycle.retire-removed-node", "retired", "observation",
       {"removal-verified", "retirement-approved"})>>

BuildDecommissionPlan(current) ==
  IF ~ Validate(current) \/ current.state /= "maintenance" THEN <<>>
  ELSE removalSteps
-----------------------------------------------------------------------------
(* The writers of one node. *)

NoPlan == [state |-> "none"]

NoRunbook == [steps |-> <<>>, version |-> 0]

LifecycleInit ==
  /\ node = [id |-> "node", scope |-> "site", owner |-> "site",
             generation |-> 1, version |-> 1, created |-> 1, updated |-> 1,
             state |-> "discovered", changed |-> 1, reason |-> FALSE]
  /\ ValidateInitial(node)
  /\ plans = [p \in Planners |-> NoPlan]
  /\ runbook = NoRunbook
  /\ attested = {}

\* A clock that shows the time of the last write, or a later one.
Clock == {now \in {node.updated, node.updated + 1} : now <= MaxTime}

\* The evidence a caller brings for a transition: what the rule asks, or none.
EvidenceFor(from, to) ==
  {{}} \cup {transitionRules[from][s].checks :
              s \in {to} \cap DOMAIN transitionRules[from]}

\* handlePlan: the projection is read, the plan is answered, nothing is stored.
Plan(p, to, type, reason, evidence, now) ==
  LET request == [to |-> to, type |-> type, reason |-> reason,
                  evidence |-> evidence,
                  precondition |-> [id |-> node.id, version |-> node.version,
                                    generation |-> node.generation]]
  IN  /\ plans[p] = NoPlan
      /\ BuildTransitionPlan(node, request, now)
      /\ plans' = [plans EXCEPT ![p] =
                     [state |-> "accepted", request |-> request,
                      from |-> node.state, basedOn |-> node.version,
                      generation |->
                        Successor(node, request, now, PlanVersion).generation]]
      /\ UNCHANGED <<node, runbook, attested>>

\* The states a node is in from its drain on, until it serves again.
DrainPath == {"draining", "maintenance", "updating", "replacing", "removing"}

Stored(request, now) == Successor(node, request, now, node.version + 1)

Write(request, now) ==
  /\ ValidateTransition(node, Stored(request, now), request)
  /\ node' = Stored(request, now)
  /\ attested' = IF request.to \in DrainPath THEN attested \cup request.evidence
                                             ELSE {}

\* The storage adapter repeats the validation on what is stored by then.
Commit(p, now) ==
  /\ plans[p] /= NoPlan
  /\ plans' = [plans EXCEPT ![p] = NoPlan]
  /\ \/ Write(plans[p].request, now)
     \/ /\ ~ ValidateTransition(node, Stored(plans[p].request, now),
                                plans[p].request)
        /\ UNCHANGED <<node, attested>>
  /\ UNCHANGED runbook

StartRunbook(steps) ==
  /\ runbook = NoRunbook
  /\ steps /= <<>>
  /\ runbook' = [steps |-> steps, version |-> node.version]
  /\ UNCHANGED <<node, plans, attested>>

\* The request of the next lifecycle step, on the projection as it is now.
StepRequest(step) ==
  [to |-> step.to, type |-> step.type, evidence |-> step.evidence,
   reason |-> step.to = "retired",
   precondition |-> [id |-> node.id, version |-> node.version, generation |-> 0]]

Rest(version) ==
  IF Len(runbook.steps) = 1 THEN NoRunbook
  ELSE [steps |-> Tail(runbook.steps), version |-> version]

RunStep(now) ==
  /\ runbook /= NoRunbook
  /\ LET step == Head(runbook.steps)
         request == StepRequest(step)
     IN  \/ /\ step.to = "none"
            /\ runbook' = Rest(runbook.version)
            /\ UNCHANGED <<node, attested>>
         \/ /\ step.to /= "none"
            /\ Write(request, now)
            /\ runbook' = Rest(node'.version)
         \/ /\ step.to /= "none"
            /\ ~ ValidateTransition(node, Stored(request, now), request)
            /\ runbook' = NoRunbook
            /\ UNCHANGED <<node, attested>>
  /\ UNCHANGED plans

LifecycleNext ==
  \/ \E p \in Planners, to \in States, type \in {"desired", "observation"},
        reason \in BOOLEAN, now \in Clock :
       \E evidence \in EvidenceFor(node.state, to) :
          Plan(p, to, type, reason, evidence, now)
  \/ \E p \in Planners, now \in Clock : Commit(p, now)
  \/ \E kind \in {"drain", "replace"}, replacement \in {NoID, "node", "other"},
        placements \in SUBSET Placements :
       StartRunbook(BuildOperationPlan(node, kind, replacement, placements))
  \/ StartRunbook(BuildDecommissionPlan(node))
  \/ \E now \in Clock : RunStep(now)

LifecycleSpec == LifecycleInit /\ [][LifecycleNext]_lifecycleVars

-----------------------------------------------------------------------------
(* Properties *)

\* An accepted plan is as good as a commit on the version it was based on, at
\* any later time, and worthless on every other version, even one in which the
\* node is back in the same state; it announces the generation it will store.
PlanBindsToItsVersion ==
  \A p \in Planners, now \in Clock :
    plans[p] /= NoPlan =>
      /\ ValidateTransition(node, Stored(plans[p].request, now), plans[p].request)
           <=> plans[p].basedOn = node.version /\ now > node.updated
      /\ plans[p].basedOn = node.version =>
           /\ plans[p].from = node.state
           /\ plans[p].generation = Stored(plans[p].request, now).generation

\* The evidence that a multi-step plan lists for its next lifecycle step is
\* enough for that step, as long as nobody else has written since the last.
RunbookIsAdmitted ==
  \A now \in Clock \ {node.updated} :
    LET steps == {i \in 1 .. Len(runbook.steps) : runbook.steps[i].to /= "none"}
    IN  runbook.version = node.version /\ steps /= {} =>
          LET request == StepRequest(runbook.steps[CHOOSE i \in steps :
                                                    \A j \in steps : i <= j])
          IN  ValidateTransition(node, Stored(request, now), request)

\* Plans are honoured: what one announces is what the store would commit, on the
\* version it was made for and on no other, and the evidence it asks for is
\* enough (ValidateTransition against BuildTransitionPlan, BuildOperationPlan
\* and BuildDecommissionPlan).
PlansAreHonoured == PlanBindsToItsVersion /\ RunbookIsAdmitted

\* A node is worked on only after a complete drain: since it last served, every
\* drain check was attested, whatever detours through failures and
\* cancellations it took.
WorkFollowsDrain ==
  node.state \in DrainPath \ {"draining"} => drainChecks \subseteq attested
=============================================================================
