------------------------ MODULE NetworkChangeProofs -------------------------
(***************************************************************************)
(* Proofs about NetworkChange, for any plans, clocks and evidence.          *)
(***************************************************************************)
EXTENDS NetworkChange, FiniteSetTheorems, TLAPS

\* What holds of the machine and of the network in every state. The two middle
\* conjuncts carry the end of the apply window from preflight to the commit.
IInv ==
    /\ TypeOK
    /\ Early(state) => net = "original"
    /\ state = "apply_window" => windowEnd = deadline
    /\ state = "probing" => windowEnd \in Nat /\ deadline <= windowEnd /\ net = "changed"
    /\ state = "committed" => /\ windowEnd \in Nat /\ updatedAt <= windowEnd
                              /\ passed = Probes /\ net = "changed"
    /\ state = "rolled_back" => net = "original"

\* The timeouts of a plan that BuildChangePlan accepts are positive numbers.
LEMMA TimeoutsArePositive ==
    ASSUME NEW p \in Plans, ValidPlan(p), NEW phase \in Phases
    PROVE  p.timeouts[phase] \in Nat
BY ChangeAssumption DEF ValidPlan, ValidTimeouts, Phases

\* A machine starts in the invariant (NewChangeMachine).
LEMMA InitInv == Init => IInv
<1> SUFFICES ASSUME Init PROVE IInv
  OBVIOUS
<1>1. plan.timeouts["snapshot"] \in Nat
  BY TimeoutsArePositive DEF Init, Phases
<1> QED
  BY <1>1, ChangeAssumption DEF Init, IInv, TypeOK, States, Terminal, Early

\* An accepted event preserves the invariant, provided the adapter's reports are
\* true (Apply with all of transition).
LEMMA ApplyInv ==
    ASSUME IInv, NEW type, NEW probe, NEW at \in 0..clock, NEW id, NEW expected,
           Apply(type, probe, at, id, expected),
           type = "temporary_applied" => net = "changed",
           type = "rollback_succeeded" => net = "original",
           UNCHANGED <<plan, net, clock>>
    PROVE  IInv'
<1> USE ChangeAssumption
<1>0. /\ at \in Nat /\ version' \in Nat /\ updatedAt' = at
      /\ clock' \in Nat /\ plan' \in Plans /\ ValidPlan(plan)'
      /\ net' \in {"original", "changed"}
  BY DEF IInv, TypeOK, Apply, ValidPlan, ValidTimeouts, ValidInterfaces, ValidForwarding,
         ValidProbes, ProbeCoverage, ManagementProbe
<1>1. \A phase \in Phases : plan.timeouts[phase] \in Nat
  BY TimeoutsArePositive DEF IInv, TypeOK
<1>2. Probes' = Probes
  BY DEF Probes
<1>3. CASE SnapshotPhase(type, at)
  BY <1>0, <1>1, <1>2, <1>3
  DEF SnapshotPhase, Enter, Finish, IInv, TypeOK, States, Terminal, Early, Phases
<1>4. CASE PreflightPhase(type, at)
  BY <1>0, <1>1, <1>2, <1>4
  DEF PreflightPhase, Enter, Finish, IInv, TypeOK, States, Terminal, Early, Phases
<1>5. CASE ApplyPhase(type, at)
  BY <1>0, <1>1, <1>2, <1>5
  DEF ApplyPhase, Enter, IInv, TypeOK, States, Terminal, Early, Phases
<1>6. CASE ProbingPhase(type, probe, at)
  <2>1. type # "phase_timed_out" => at <= deadline
    BY DEF Apply, Accepts
  <2> QED
    BY <1>0, <1>1, <1>2, <1>6, <2>1
    DEF ProbingPhase, Enter, Finish, IInv, TypeOK, States, Terminal, Early, Phases
<1>7. CASE RollbackPhase(type, at)
  BY <1>0, <1>1, <1>2, <1>7
  DEF RollbackPhase, Finish, IInv, TypeOK, States, Terminal, Early
<1> QED
  BY <1>3, <1>4, <1>5, <1>6, <1>7 DEF Apply

\* Passing preflight, by an admission or by current evidence, is an accepted
\* event that changes neither the plan nor the network.
LEMMA PreflightIsAnEvent ==
    ASSUME NEW at \in 0..clock, ApplyVerifiedPreflight(at)
    PROVE  /\ Apply("preflight_passed", None, at, <<version, "preflight_passed", None>>,
                    admission.version)
           /\ UNCHANGED <<plan, net, clock>>
BY DEF ApplyVerifiedPreflight

\* A step that leaves plan and machine alone preserves the invariant if it
\* treats network and clock as the adapter and time do.
LEMMA OutsideInv ==
    ASSUME IInv, UNCHANGED <<plan, machine>>, clock' \in Nat,
           net' \in {"original", "changed"},
           net' # net => state \in {"apply_window", "rollback_pending"}
    PROVE  IInv'
<1>1. ValidPlan(plan)' /\ Probes' = Probes
  BY DEF machine, IInv, TypeOK, ValidPlan, ValidTimeouts, ValidInterfaces, ValidForwarding,
         ValidProbes, ProbeCoverage, ManagementProbe, Probes
<1> QED
  BY <1>1 DEF machine, IInv, TypeOK, States, Terminal, Early

\* Every step preserves the invariant.
LEMMA NextInv == IInv /\ [Next]_vars => IInv'
<1> SUFFICES ASSUME IInv, [Next]_vars PROVE IInv'
  OBVIOUS
<1>0. clock \in Nat /\ net \in {"original", "changed"}
  BY DEF IInv, TypeOK
<1>1. ASSUME NEW type \in SuccessEvents \cup FailureEvents, Report(type)
      PROVE  IInv'
  <2>1. PICK probe \in CheckNames \cup {None}, at \in 0..clock, expected \in 1..version :
          \E id \in Ids(type, probe) : Apply(type, probe, at, id, expected)
    BY <1>1 DEF Report
  <2>2. PICK id \in Ids(type, probe) : Apply(type, probe, at, id, expected)
    BY <2>1
  <2> QED
    BY <1>1, <2>2, ApplyInv DEF Report, Reported
<1>2. ASSUME NEW p \in Plans, Admit(p) PROVE IInv'
  BY <1>0, <1>2, OutsideInv DEF Admit
<1>3. ASSUME NEW at \in 0..clock, ApplyVerifiedPreflight(at) PROVE IInv'
  BY <1>3, PreflightIsAnEvent, ApplyInv
<1>4. ASSUME NEW p \in Plans, NEW e \in Admitted, NEW at \in 0..clock,
             ApplyCurrentVerifiedPreflight(p, e, at)
      PROVE  IInv'
  BY <1>3, <1>4 DEF ApplyCurrentVerifiedPreflight
<1>5. CASE AdapterApplies
  BY <1>0, <1>5, OutsideInv DEF AdapterApplies
<1>6. CASE AdapterRestores
  BY <1>0, <1>6, OutsideInv DEF AdapterRestores
<1>7. CASE Tick
  BY <1>0, <1>7, OutsideInv DEF Tick
<1>8. CASE UNCHANGED vars
  BY <1>0, <1>8, OutsideInv DEF vars
<1> QED
  BY <1>1, <1>2, <1>3, <1>4, <1>5, <1>6, <1>7, <1>8 DEF Next

\* The invariant holds of every change, whatever its callers do.
THEOREM ChangeInvariant == Spec => []IInv
BY InitInv, NextInv, PTL DEF Spec

\* The machine stays within its types; a change that has not ended has a
\* deadline (ChangeSnapshot).
THEOREM ChangeTypeCorrect == Spec => []TypeOK
<1>1. IInv => TypeOK
  BY DEF IInv
<1> QED
  BY <1>1, ChangeInvariant, PTL

\* A committed change is reachable: BuildChangePlan's coverage of the changed
\* interfaces and of the management path is a coverage by passed probes.
THEOREM CommitIsSafe == Spec => []CommittedIsReachable
<1>1. IInv => CommittedIsReachable
  BY DEF IInv, TypeOK, CommittedIsReachable, ValidPlan, ProbeCoverage, Probes
<1> QED
  BY <1>1, ChangeInvariant, PTL

\* No commit after the end of the apply window that preflight opened.
THEOREM CommitIsTimely == Spec => []CommitsInsideWindow
<1>1. IInv => CommitsInsideWindow
  BY ChangeAssumption DEF IInv, CommitsInsideWindow
<1> QED
  BY <1>1, ChangeInvariant, PTL

\* A step of the specification is an accepted event, or leaves the machine alone.
\* The facts about the adapter's part say where it may change the network.
LEMMA StepCases ==
    ASSUME [Next]_vars
    PROVE  \/ /\ net' = net
              /\ \E type, probe, at, id, expected : Apply(type, probe, at, id, expected)
           \/ UNCHANGED machine /\ (net' = net \/ ~Terminal(state))
<1>1. ASSUME NEW type \in SuccessEvents \cup FailureEvents, Report(type)
      PROVE  net' = net /\ \E t, probe, at, id, expected : Apply(t, probe, at, id, expected)
  <2>1. PICK probe \in CheckNames \cup {None}, at \in 0..clock, expected \in 1..version :
          \E id \in Ids(type, probe) : Apply(type, probe, at, id, expected)
    BY <1>1 DEF Report
  <2>2. \E id : Apply(type, probe, at, id, expected)
    BY <2>1, Zenon
  <2>3. \E t, pr, a, id, ex : Apply(t, pr, a, id, ex)
    BY <2>2, Zenon
  <2> QED
    BY <1>1, <2>3 DEF Report
<1>2. ASSUME NEW at \in 0..clock, ApplyVerifiedPreflight(at)
      PROVE  net' = net /\ \E t, probe, a, id, expected : Apply(t, probe, a, id, expected)
  BY <1>2, PreflightIsAnEvent, Zenon
<1>3. ASSUME NEW p \in Plans, NEW e \in Admitted, NEW at \in 0..clock,
             ApplyCurrentVerifiedPreflight(p, e, at)
      PROVE  net' = net /\ \E t, probe, a, id, expected : Apply(t, probe, a, id, expected)
  BY <1>2, <1>3, Zenon DEF ApplyCurrentVerifiedPreflight
<1>4. ASSUME \/ \E p \in Plans : Admit(p)
             \/ AdapterApplies \/ AdapterRestores \/ Tick \/ UNCHANGED vars
      PROVE  UNCHANGED machine /\ (net' = net \/ ~Terminal(state))
  BY <1>4 DEF Admit, AdapterApplies, AdapterRestores, Tick, vars, Terminal
<1> QED
  BY <1>1, <1>2, <1>3, <1>4, Zenon DEF Next

\* A success never counts after its deadline: an accepted event that is not a
\* timeout lies before it, and a timeout leads to failure or rollback.
THEOREM LateSuccess == Spec => LateSuccessNeverCounts
<1>1. ASSUME IInv, [Next]_vars, version' # version,
             state' \notin {"failed_closed", "rollback_pending"}
      PROVE  updatedAt' <= deadline
  <2>1. PICK type, probe, at, id, expected : Apply(type, probe, at, id, expected)
    BY <1>1, StepCases DEF machine
  <2>2. CASE type = "phase_timed_out"
    BY <1>1, <2>1, <2>2
    DEF Apply, SnapshotPhase, PreflightPhase, ApplyPhase, ProbingPhase, RollbackPhase,
        Enter, Finish
  <2>3. CASE type # "phase_timed_out"
    BY <2>1, <2>3 DEF Apply, Accepts
  <2> QED
    BY <2>2, <2>3
<1> QED
  BY <1>1, ChangeInvariant, PTL DEF Spec, LateSuccessNeverCounts

\* A temporary configuration is never left without a rollback, whether or not
\* its apply was reported.
THEOREM RollbackSafety == Spec => RollbackIsNeverSkipped
<1>1. IInv => (state = "rolled_back" => net = "original")
  BY DEF IInv
<1>2. ASSUME IInv, [Next]_vars, net' = "changed", state' = "failed_closed"
      PROVE  state = "rollback_pending" \/ state = "failed_closed"
  <2>1. CASE UNCHANGED machine
    BY <1>2, <2>1 DEF machine
  <2>2. ASSUME NEW type, NEW probe, NEW at, NEW id, NEW expected, net' = net,
               Apply(type, probe, at, id, expected)
        PROVE  state = "rollback_pending"
    BY <1>2, <2>2
    DEF Apply, SnapshotPhase, PreflightPhase, ApplyPhase, ProbingPhase, RollbackPhase,
        Enter, Finish, IInv, Early
  <2> QED
    BY <1>2, <2>1, <2>2, StepCases
<1> QED
  BY <1>1, <1>2, ChangeInvariant, PTL DEF Spec, RollbackIsNeverSkipped

\* Every event takes effect at most once, for any number of redeliveries: each
\* version has an id of its own in processedEvents, which is never forgotten.
THEOREM OnceOnly == Spec => EventTakesEffectOnce
<1> DEFINE Once == /\ processed \subseteq processed'
                   /\ version' # version => /\ version' = version + 1
                                            /\ Cardinality(processed' \ processed) = 1
<1>1. ASSUME IInv, [Next]_vars PROVE [Once]_vars
  <2>1. CASE UNCHANGED machine
    BY <2>1 DEF machine
  <2>2. ASSUME NEW type, NEW probe, NEW at, NEW id, NEW expected,
               Apply(type, probe, at, id, expected)
        PROVE  Once
    <3>1. id \notin processed /\ processed' = processed \cup {id} /\ version' = version + 1
      BY <2>2 DEF Apply, Accepts
    <3>2. processed' \ processed = {id}
      BY <3>1
    <3> QED
      BY <3>1, <3>2, FS_Singleton
  <2> QED
    BY <1>1, <2>1, <2>2, StepCases
<1> QED
  BY <1>1, ChangeInvariant, PTL DEF Spec, EventTakesEffectOnce

\* A committed change was probed on all it touched, inside its apply window.
THEOREM CommitSoundness == Spec => []CommitIsSound
<1>1. CommittedIsReachable /\ CommitsInsideWindow => CommitIsSound
  BY DEF CommitIsSound
<1> QED
  BY <1>1, CommitIsSafe, CommitIsTimely, PTL

\* No event counts twice or late, or closes a change that was not rolled back.
THEOREM EventSafety == Spec => EventsDoNotMislead
<1> QED
  BY OnceOnly, LateSuccess, RollbackSafety DEF EventsDoNotMislead
=============================================================================
