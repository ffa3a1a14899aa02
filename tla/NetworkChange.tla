---------------------------- MODULE NetworkChange ---------------------------
(***************************************************************************)
(* The staged network change (internal/networkpolicy/change_machine.go) and *)
(* the verification that lets it past preflight (verification_*.go).        *)
(*                                                                         *)
(* The machine is driven by events that carry their own time. A caller may  *)
(* deliver an event late, again, or against a version it read long ago;     *)
(* times lie anywhere up to the clock. Every refusal leaves the machine as  *)
(* it was, so a refused call is a stuttering step. Snapshot id and reason   *)
(* codes are stored and never read again; they are not modelled.            *)
(*                                                                         *)
(* `net` is what the adapter (external to the repository) has done to the   *)
(* network: it opens the temporary configuration while the apply window is  *)
(* open and undoes it while a rollback is pending, and it reports only what *)
(* it did; the report itself may be late or never arrive.                   *)
(***************************************************************************)
EXTENDS NetworkPlan

CONSTANTS
    Plans,          \* the plans that exist: documents, valid or not
    CheckNames,     \* names a verification may give its checks
    MaxAge,         \* policy.MaxAge
    MaxFutureSkew,  \* policy.MaxFutureSkew
    ClockErrors,    \* how far the clock of a verifier may be off
    MaxClock,       \* bound: no idle time passes beyond it
    None            \* no evidence, no admission, no deadline

ASSUME ChangeAssumption ==
    /\ MaxAge \in Nat \ {0}
    /\ MaxFutureSkew \in Nat
    /\ MaxClock \in Nat
    /\ ClockErrors \subseteq Int
    /\ None \notin Int
    /\ \A p \in Plans : p.timeouts \in [Phases -> Int]

VARIABLES
    plan,                                   \* machine.plan
    state, version, deadline, updatedAt,    \* ChangeSnapshot
    passed,                                 \* machine.passed
    processed,                              \* ids in machine.processedEvents
    admission,                              \* the newest admission in the caller's hands
    net, clock,
    windowEnd                               \* history: end of the apply window

machine == <<state, version, deadline, updatedAt, passed, processed, windowEnd>>
vars == <<plan, machine, admission, net, clock>>

Terminal(s) == s \in {"committed", "rolled_back", "failed_closed"}
States == {"snapshot_pending", "preflight", "apply_window", "probing", "rollback_pending",
           "committed", "rolled_back", "failed_closed"}
SuccessEvents == {"snapshot_captured", "preflight_passed", "temporary_applied",
                  "probe_passed", "rollback_succeeded"}
FailureEvents == {"snapshot_failed", "preflight_failed", "probe_failed",
                  "rollback_failed", "phase_timed_out"}
ProbeEvents == {"probe_passed", "probe_failed"}
Probes == DOMAIN plan.probes

---------------------------------------------------------------------------
(* Freshness of verification evidence: [plan, verifiedAt, checks], where    *)
(* checks maps names to [pass, at]. The document stands for its digest.     *)

\* The evidence is an error, not merely insufficient.
Refused(p, e, now) ==
    \/ ~ValidPlan(p)
    \/ e.plan # p
    \/ e.verifiedAt > now + MaxFutureSkew
    \/ DOMAIN e.checks = {}
    \/ \E name \in DOMAIN e.checks :
          \/ name \notin DOMAIN p.probes
          \/ e.checks[name].at > now + MaxFutureSkew
          \/ e.checks[name].at > e.verifiedAt + MaxFutureSkew

\* verdict.Ready: nothing missing, failed or stale; the expiry is exclusive.
Ready(p, e, now) ==
    /\ e.verifiedAt + MaxAge > now
    /\ \A name \in DOMAIN p.probes :
          /\ name \in DOMAIN e.checks
          /\ e.checks[name].pass
          /\ e.checks[name].at + MaxAge > now

\* Mutant of VerificationExpiry: only the envelope is looked at.
EnvelopeExpiry(e) == e.verifiedAt + MaxAge

VerificationExpiry(e) ==
    LET times == {e.verifiedAt} \cup {e.checks[name].at : name \in DOMAIN e.checks}
    IN  (CHOOSE t \in times : \A u \in times : t <= u) + MaxAge

---------------------------------------------------------------------------
(* ChangeMachine                                                            *)

\* NewChangeMachine: only a plan that BuildChangePlan accepts gets a machine.
Init ==
    /\ plan \in {p \in Plans : ValidPlan(p)}
    /\ clock = 0
    /\ state = "snapshot_pending" /\ version = 1
    /\ deadline = plan.timeouts["snapshot"] /\ updatedAt = 0
    /\ passed = {} /\ processed = {}
    /\ admission = None
    /\ net = "original" /\ windowEnd = None

\* Mutant of Accepts: a late success still counts.
AcceptsLate(type, at, id, expected) ==
    /\ id \notin processed
    /\ version = expected
    /\ ~Terminal(state)
    /\ at >= updatedAt
    /\ type = "phase_timed_out" => at >= deadline

\* Mutant of Accepts: processedEvents is not consulted.
AcceptsAgain(type, at, id, expected) ==
    /\ version = expected
    /\ ~Terminal(state)
    /\ at >= updatedAt
    /\ type = "phase_timed_out" => at >= deadline
    /\ type # "phase_timed_out" => at <= deadline

\* The checks of Apply before the transition. A known id is answered with the
\* snapshot or with a conflict, and changes nothing either way.
Accepts(type, at, id, expected) ==
    /\ id \notin processed
    /\ version = expected
    /\ ~Terminal(state)
    /\ at >= updatedAt
    /\ type = "phase_timed_out" => at >= deadline
    /\ type # "phase_timed_out" => at <= deadline

\* enter: a phase gets a deadline, a terminal state none.
Enter(s, at, phase) == state' = s /\ deadline' = at + plan.timeouts[phase]

Finish(s) == state' = s /\ deadline' = None

SnapshotPhase(type, at) ==
    /\ state = "snapshot_pending"
    /\ \/ type = "snapshot_captured" /\ Enter("preflight", at, "preflight")
       \/ type \in {"snapshot_failed", "phase_timed_out"} /\ Finish("failed_closed")
    /\ UNCHANGED <<passed, windowEnd>>

PreflightPhase(type, at) ==
    /\ state = "preflight"
    /\ \/ /\ type = "preflight_passed"
          /\ Enter("apply_window", at, "apply_window")
          /\ windowEnd' = at + plan.timeouts["apply_window"]
       \/ /\ type \in {"preflight_failed", "phase_timed_out"}
          /\ Finish("failed_closed")
          /\ UNCHANGED windowEnd
    /\ UNCHANGED passed

\* Mutant of ApplyPhase: probing gets its whole timeout.
ApplyPhaseUncut(type, at) ==
    /\ state = "apply_window"
    /\ \/ type = "temporary_applied" /\ Enter("probing", at, "probe")
       \/ type = "phase_timed_out" /\ Enter("rollback_pending", at, "rollback")
    /\ UNCHANGED <<passed, windowEnd>>

\* Mutant of ApplyPhase: no report of a temporary apply, so nothing to undo.
ApplyPhaseClosing(type, at) ==
    /\ state = "apply_window"
    /\ \/ type = "temporary_applied" /\ Enter("probing", at, "probe")
       \/ type = "phase_timed_out" /\ Finish("failed_closed")
    /\ UNCHANGED <<passed, windowEnd>>

\* The probes must end within the apply window.
ApplyPhase(type, at) ==
    /\ state = "apply_window"
    /\ \/ /\ type = "temporary_applied"
          /\ state' = "probing"
          /\ deadline' = IF at + plan.timeouts["probe"] > deadline
                         THEN deadline ELSE at + plan.timeouts["probe"]
       \/ type = "phase_timed_out" /\ Enter("rollback_pending", at, "rollback")
    /\ UNCHANGED <<passed, windowEnd>>

ProbingPhase(type, probe, at) ==
    /\ state = "probing"
    /\ \/ /\ type = "probe_passed"
          /\ probe \in Probes \ passed
          /\ passed' = passed \cup {probe}
          /\ IF passed' = Probes THEN Finish("committed") ELSE UNCHANGED <<state, deadline>>
       \/ /\ \/ type = "probe_failed" /\ probe \in Probes
             \/ type = "phase_timed_out"
          /\ Enter("rollback_pending", at, "rollback")
          /\ UNCHANGED passed
    /\ UNCHANGED windowEnd

\* Mutant of RollbackPhase: a rollback has no timeout.
RollbackPhaseWaiting(type, at) ==
    /\ state = "rollback_pending"
    /\ \/ type = "rollback_succeeded" /\ Finish("rolled_back")
       \/ type = "rollback_failed" /\ Finish("failed_closed")
    /\ UNCHANGED <<passed, windowEnd>>

RollbackPhase(type, at) ==
    /\ state = "rollback_pending"
    /\ \/ type = "rollback_succeeded" /\ Finish("rolled_back")
       \/ type \in {"rollback_failed", "phase_timed_out"} /\ Finish("failed_closed")
    /\ UNCHANGED <<passed, windowEnd>>

\* ChangeMachine.Apply, under the machine's lock.
Apply(type, probe, at, id, expected) ==
    /\ (type \in ProbeEvents) <=> (probe # None)
    /\ Accepts(type, at, id, expected)
    /\ \/ SnapshotPhase(type, at)
       \/ PreflightPhase(type, at)
       \/ ApplyPhase(type, at)
       \/ ProbingPhase(type, probe, at)
       \/ RollbackPhase(type, at)
    /\ processed' = processed \cup {id}
    /\ version' = version + 1
    /\ updatedAt' = at

---------------------------------------------------------------------------
(* Callers                                                                  *)

Early(s) == s \in {"snapshot_pending", "preflight"}

\* The caller keeps an admission while it can still matter: both ways past
\* preflight refuse a machine that has left it.
CallerKeeps == admission' = IF Early(state') THEN admission ELSE None

\* An id is new, named after the version it was raised against, or one that
\* the caller has used before: a repeated delivery.
Ids(type, probe) == {<<version, type, probe>>} \cup processed

\* Adapters report what they did; preflight passes by an admission only.
Reported(type) ==
    /\ type # "preflight_passed"
    /\ type = "temporary_applied" => net = "changed"
    /\ type = "rollback_succeeded" => net = "original"

Report(type) ==
    /\ Reported(type)
    /\ \E probe \in CheckNames \cup {None}, at \in 0..clock, expected \in 1..version :
          \E id \in Ids(type, probe) : Apply(type, probe, at, id, expected)
    /\ CallerKeeps
    /\ UNCHANGED <<plan, net, clock>>

Near == {t \in {clock + d : d \in ClockErrors} : t >= 0}

\* What a verifier may hand over now.
Evidence ==
    [plan : Plans, verifiedAt : Near,
     checks : UNION {[names -> [pass : BOOLEAN, at : Near]] : names \in SUBSET CheckNames}]

\* BuildCurrentVerificationPreflightAdmission, called at the clock.
Admit(currentPlan) ==
    /\ ValidPlan(currentPlan) /\ plan = currentPlan
    /\ state = "preflight"
    /\ \E evidence \in Evidence :
          LET ready == Ready(currentPlan, evidence, clock)
          IN  /\ ~Refused(currentPlan, evidence, clock)
              /\ admission' = [plan |-> currentPlan, evidence |-> evidence, version |-> version,
                               evaluatedAt |-> clock, ready |-> ready,
                               expiresAt |-> IF ready THEN VerificationExpiry(evidence) ELSE None]
    /\ UNCHANGED <<plan, machine, net, clock>>

\* ApplyVerifiedPreflight: the admission alone, at a time the caller names.
ApplyVerifiedPreflight(at) ==
    /\ admission # None
    /\ plan = admission.plan
    /\ state = "preflight"
    /\ version = admission.version
    /\ admission.ready
    /\ at >= admission.evaluatedAt
    /\ at < admission.expiresAt
    /\ Apply("preflight_passed", None, at, <<version, "preflight_passed", None>>, admission.version)
    /\ CallerKeeps
    /\ UNCHANGED <<plan, net, clock>>

\* ApplyCurrentVerifiedPreflight: plan and evidence must still be the ones.
ApplyCurrentVerifiedPreflight(currentPlan, evidence, at) ==
    /\ ValidPlan(currentPlan) /\ plan = currentPlan
    /\ admission # None
    /\ admission.plan = currentPlan
    /\ admission.evidence = evidence
    /\ ~Refused(currentPlan, evidence, at)
    /\ Ready(currentPlan, evidence, at)
    /\ admission.expiresAt = VerificationExpiry(evidence)
    /\ ApplyVerifiedPreflight(at)

---------------------------------------------------------------------------
(* The world outside                                                        *)

\* Evidence that has been handed over before.
Admitted == {a.evidence : a \in {admission} \ {None}}

AdapterApplies ==
    /\ state = "apply_window" /\ net = "original"
    /\ net' = "changed"
    /\ UNCHANGED <<plan, machine, admission, clock>>

AdapterRestores ==
    /\ state = "rollback_pending" /\ net = "changed"
    /\ net' = "original"
    /\ UNCHANGED <<plan, machine, admission, clock>>

Tick ==
    /\ ~Terminal(state)
    /\ clock < MaxClock \/ clock < deadline
    /\ clock' = clock + 1
    /\ UNCHANGED <<plan, machine, admission, net>>

Next ==
    \/ \E type \in SuccessEvents \cup FailureEvents : Report(type)
    \/ \E p \in Plans : Admit(p)
    \/ \E at \in 0..clock : ApplyVerifiedPreflight(at)
    \/ \E p \in Plans, e \in Admitted, at \in 0..clock : ApplyCurrentVerifiedPreflight(p, e, at)
    \/ AdapterApplies \/ AdapterRestores \/ Tick

\* Whoever runs the change records the timeout of a phase once it is due.
Fairness == WF_vars(Tick) /\ WF_vars(Report("phase_timed_out"))

Spec == Init /\ [][Next]_vars
FairSpec == Spec /\ Fairness

---------------------------------------------------------------------------
(* Properties                                                               *)

\* The variables have their types; a change that has not ended has a deadline.
TypeOK ==
    /\ plan \in Plans /\ ValidPlan(plan)
    /\ state \in States
    /\ version \in Nat /\ updatedAt \in Nat /\ clock \in Nat
    /\ IF Terminal(state) THEN deadline = None ELSE deadline \in Nat
    /\ passed \subseteq Probes
    /\ windowEnd \in Nat \cup {None}
    /\ net \in {"original", "changed"}

\* "committed" means that the network works: every changed interface and the
\* management path had a probe that passed, and the temporary configuration is
\* in place. It joins what BuildChangePlan requires of a plan with how
\* transition counts probes.
CommittedIsReachable ==
    state = "committed" =>
        /\ \A i \in DOMAIN plan.interfaces :
              plan.interfaces[i].changed => \E p \in passed : plan.probes[p].interface = i
        /\ \E p \in passed : ManagementProbe(plan.probes[p])
        /\ net = "changed"

\* A commit is decided before the apply window that preflight opened is over,
\* however late in it the probes began (the cut of the probing deadline).
CommitsInsideWindow ==
    state = "committed" => windowEnd # None /\ updatedAt <= windowEnd

\* A commit means what it says: the network was probed, and in time
\* (BuildChangePlan and transition).
CommitIsSound == CommittedIsReachable /\ CommitsInsideWindow

\* Every version of the machine has an event of its own, which is remembered: an
\* event that is delivered again, even with a refreshed version, never takes effect
\* twice (processedEvents in Apply).
EventTakesEffectOnce ==
    [][/\ processed \subseteq processed'
       /\ version' # version => /\ version' = version + 1
                                /\ Cardinality(processed' \ processed) = 1]_vars

\* A ready admission says at every later time what evaluating its evidence
\* again would say: its ExpiresAt (verificationExpiry) is exactly the moment at
\* which EvaluateVerificationFreshness would first find something stale.
AdmissionMatchesEvidence ==
    admission # None /\ admission.ready =>
        \A at \in admission.evaluatedAt..(clock + MaxAge) :
            /\ ~Refused(admission.plan, admission.evidence, at)
            /\ (at < admission.expiresAt) <=> Ready(admission.plan, admission.evidence, at)

\* The temporary configuration is never abandoned: a change that fails after the
\* adapter may have changed the network goes through rollback_pending, even
\* when the report of the apply never arrived; one that ends rolled_back has
\* the original network (transition's apply_window, probing and rollback).
RollbackIsNeverSkipped ==
    /\ [][net' = "changed" /\ state' = "failed_closed" => state = "rollback_pending"
                                                         \/ state = "failed_closed"]_vars
    /\ [](state = "rolled_back" => net = "original")

\* Success reported for a time after the deadline of its phase never moves the
\* machine on; only the timeout does (the two deadline checks of Apply).
LateSuccessNeverCounts ==
    [][version' # version /\ state' \notin {"failed_closed", "rollback_pending"}
         => updatedAt' <= deadline]_vars

\* No event misleads the machine: none counts twice or late, and none closes a
\* change whose network may have changed before a rollback was under way; the
\* rollback itself may fail (Apply and transition).
EventsDoNotMislead ==
    EventTakesEffectOnce /\ LateSuccessNeverCounts /\ RollbackIsNeverSkipped

\* A change always ends: whatever is lost, the timeout of a phase is accepted
\* in the end, and rollback_pending ends too.
EveryChangeEnds == <>Terminal(state)
=============================================================================
