---------------------------- MODULE ChangeMachine ----------------------------
(***************************************************************************)
(* The approval state machine of a Change and the policy that drives it    *)
(* (internal/orchestration/change, internal/orchestration/policy), with    *)
(* the two walks the control plane makes over it: reconcileJob, which      *)
(* follows a Job, and restoreChange, which replays a stored row at         *)
(* startup.  A Change is a record                                          *)
(*   state, version, approvals (the actors, in order), risk.               *)
(***************************************************************************)
EXTENDS Integers, Sequences, FiniteSets, Functions

CONSTANTS
    Actors,       \* authenticated principals
    Requester     \* the one who creates Changes

ASSUME ActorAssumption == Requester \in Actors

States == {"absent", "pending_approval", "approved", "queued", "executing", "verifying",
           "succeeded", "failed", "cancelled", "rejected"}

TerminalStates == {"succeeded", "failed", "cancelled", "rejected"}

Risks == {"low", "medium", "high", "critical", "denied"}

-----------------------------------------------------------------------------
(* Policy *)

\* ThresholdEvaluator: a denied action is refused whatever its risk.
Evaluate(risk) ==
    [effect  |-> IF risk = "denied" THEN "deny" ELSE "allow",
     minimum |-> CASE risk = "high" -> 1 [] risk = "critical" -> 2 [] OTHER -> 0]

\* Distinct actors other than the requester; every approval that reaches the
\* machine is canonical, timed and carries the approval permission.
CountedApprovals(approvals) == Cardinality(Range(approvals) \ {Requester})

CheckApprovals(risk, approvals) ==
    CountedApprovals(approvals) >= Evaluate(risk).minimum

-----------------------------------------------------------------------------
(* Machine *)

InitialState(risk) ==
    IF Evaluate(risk).effect = "deny" THEN "rejected"
    ELSE IF Evaluate(risk).minimum > 0 THEN "pending_approval" ELSE "approved"

New(risk) == [state |-> InitialState(risk), version |-> 1, approvals |-> <<>>, risk |-> risk]

\* From pending_approval only; an approval that does not count is kept too.
Approve(m, actor) ==
    LET approvals == Append(m.approvals, actor)
    IN [m EXCEPT !.approvals = approvals,
                 !.state = IF CheckApprovals(m.risk, approvals) THEN "approved" ELSE @,
                 !.version = @ + 1]

Allowed(from) ==
    CASE from = "pending_approval" -> {"cancelled", "rejected"}
      [] from = "approved"         -> {"queued", "cancelled"}
      [] from = "queued"           -> {"executing", "cancelled", "failed"}
      [] from = "executing"        -> {"verifying", "failed", "cancelled"}
      [] from = "verifying"        -> {"succeeded", "failed"}
      [] OTHER                     -> {}

Transition(m, to) == [m EXCEPT !.state = to, !.version = @ + 1]

\* Transitions made one after another, up to the first that is not allowed; the
\* machine keeps the ones it made.
Walk(m, steps) ==
    LET path == <<m.state>> \o steps
        made == Cardinality({i \in DOMAIN steps :
                               \A h \in 1..i : path[h + 1] \in Allowed(path[h])})
    IN [machine |-> [state |-> path[made + 1], version |-> m.version + made,
                     approvals |-> m.approvals, risk |-> m.risk],
        ok      |-> made = Len(steps)]

-----------------------------------------------------------------------------
(* Following a Job *)

\* The transitions reconcileJob makes on a Change in the given state, for a copy
\* of its Job with the given status.
Towards(state, status) ==
    LET leave == IF state = "queued" /\ status # "queued" THEN <<"executing">> ELSE <<>>
        at    == IF leave = <<>> THEN state ELSE "executing"
        reach(to) == IF at = to THEN <<>> ELSE <<to>>
    IN CASE status = "cancelled" -> IF state = "cancelled" THEN <<>> ELSE <<"cancelled">>
         [] status = "succeeded" ->
               leave \o (IF at = "executing" THEN <<"verifying">> ELSE <<>>) \o reach("succeeded")
         [] status = "failed"    -> leave \o reach("failed")
         [] OTHER                -> leave

Follow(m, status) == Walk(m, Towards(m.state, status))

-----------------------------------------------------------------------------
(* Replaying a row *)

\* Stored approvals are replayed while they are still awaited.
ReplayApprovals(row) ==
    LET initial    == InitialState(row.risk)
        first(n)   == SubSeq(row.approvals, 1, n)
        enough     == {n \in 0..Len(row.approvals) : CheckApprovals(row.risk, first(n))}
        replayed   == IF initial # "pending_approval" THEN 0
                      ELSE IF enough = {} THEN Len(row.approvals)
                      ELSE CHOOSE n \in enough : \A o \in enough : n <= o
    IN [state     |-> IF initial = "pending_approval" /\ enough # {} THEN "approved" ELSE initial,
        version   |-> 1 + replayed,
        approvals |-> first(replayed),
        risk      |-> row.risk]

\* The transitions restoreChange tries from there to the stored state.  A Change
\* that was approved passes through queued, except when it was cancelled without
\* a Job; executing is inferred from the distance of the versions (in uint64
\* arithmetic).  "absent" stands for a stored state it cannot reach.
Route(row, m) ==
    LET behind == row.version - (m.version + 1)
        ended  == IF behind > 1 \/ behind < 0 THEN <<"queued", "executing", row.state>>
                  ELSE <<"queued", row.state>>
    IN IF row.state = m.state THEN <<>>
       ELSE CASE row.state = "queued" -> <<"queued">>
              [] row.state = "executing" ->
                    IF m.state = "approved" THEN <<"queued", "executing">> ELSE <<"executing">>
              [] row.state \in {"verifying", "succeeded"} ->
                    IF m.state # "approved" THEN <<"succeeded">>
                    ELSE <<"queued", "executing", "verifying">>
                         \o IF row.state = "succeeded" THEN <<"succeeded">> ELSE <<>>
              [] row.state = "failed" -> IF m.state = "approved" THEN ended ELSE <<"failed">>
              [] row.state = "cancelled" ->
                    IF m.state = "approved" /\ row.hasJob THEN ended ELSE <<"cancelled">>
              [] OTHER -> <<"absent">>

Replay(row) == Walk(ReplayApprovals(row), Route(row, ReplayApprovals(row)))

\* restoreChange succeeds when the replay ends in the stored state and version.
Restorable(row) ==
    /\ Replay(row).ok
    /\ Replay(row).machine.version = row.version
=============================================================================
