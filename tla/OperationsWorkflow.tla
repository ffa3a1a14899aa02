------------------------- MODULE OperationsWorkflow -------------------------
(***************************************************************************)
(* Changes and their jobs living on while evidence about them is collected *)
(* and a view of them is read: the server's memory and the job store, each *)
(* with the times of its writes; a collector that holds one evidence of    *)
(* each kind; and a reader of the view, who takes the changes under s.mu   *)
(* and lists the jobs after it was released                                *)
(* (src/internal/orchestration/httpapi/changes_jobs_provider.go).          *)
(*                                                                         *)
(* The life of changes and jobs is the one of OrchestrationServer and      *)
(* JobRepository, without failing writes; a change whose job was created   *)
(* but whose request failed is dropped from memory until the request is    *)
(* sent again.                                                             *)
(***************************************************************************)
EXTENDS ChangesJobsView, TLC

CONSTANTS
    ChangeIDs,     \* identifiers of changes; the job of a change has its name
    RequestRisks,  \* the risks of changes
    Revisions,     \* revisions with their digests, all in the revision store
    RevisionOf,    \* the revision each change applies
    Outputs,       \* what workers may report, at the time the worker's clock shows
    Observations,  \* what the recovery catalogue may say of a path
    Attempts,      \* MaxAttempts of a job
    LeaseTTL,      \* how long a claim lasts
    MaxApprovals,  \* bound: approvals of one change
    MaxTime        \* bound: the clock stops

VARIABLES
    now,           \* the clock
    memory,        \* s.changes: snapshots by change
    dropped,       \* the changes createChange took back out of memory
    store,         \* cc_jobs: the job of each change
    desk,          \* the collected evidence: sets of one or none
    evaluated,     \* history: changes, with revision, whose path was found ready
    reader         \* the view being read, and the view shown last

workflowVars == <<now, memory, dropped, store, desk, evaluated, reader>>

NoChange(c) == [id |-> c, revision |-> RevisionOf[c], approvedAt |-> <<>>, updated |-> 0,
                machine |-> [state |-> "absent", version |-> 0, approvals |-> <<>>,
                             risk |-> "low"]]

NoWork(c) == [id |-> c, change |-> c, status |-> "absent", version |-> 0, attempt |-> 0,
              created |-> 0, updated |-> 0, lease |-> 0, output |-> NoOutput]

EmptyDesk == [approval |-> {}, result |-> {}, recovery |-> {}, workflow |-> {}]

Idle == [stage |-> "idle", snapshots |-> {}, at |-> 0, view |-> {}]

WorkflowInit ==
    /\ now = 1
    /\ memory = [c \in ChangeIDs |-> NoChange(c)]
    /\ dropped = {}
    /\ store = [c \in ChangeIDs |-> NoWork(c)]
    /\ desk = EmptyDesk
    /\ evaluated = {}
    /\ reader = Idle

-----------------------------------------------------------------------------
(* The life of a change and of its job *)

\* A change is stored; once approved, its job is created and it is queued.
Save(c, s) ==
    IF s.machine.state = "approved"
    THEN /\ memory' = [memory EXCEPT ![c] = [s EXCEPT !.machine = Transition(@, "queued")]]
         /\ store' = [store EXCEPT ![c] = [@ EXCEPT !.status = "queued", !.version = 1,
                                                    !.created = now, !.updated = now]]
    ELSE memory' = [memory EXCEPT ![c] = s] /\ UNCHANGED store

\* A request that created its job may fail all the same.
CreateChange(c, risk) ==
    /\ memory[c].machine.state = "absent"
    /\ Save(c, [memory[c] EXCEPT !.machine = New(risk), !.updated = now])
    /\ \/ UNCHANGED dropped
       \/ store'[c].status = "queued" /\ dropped' = dropped \cup {c}
    /\ UNCHANGED <<now, desk, evaluated, reader>>

\* The same request again finds the change and its job stored.
CreateChangeAgain(c) ==
    /\ c \in dropped
    /\ dropped' = dropped \ {c}
    /\ UNCHANGED <<now, memory, store, desk, evaluated, reader>>

ApproveChange(c, actor) ==
    /\ memory[c].machine.state = "pending_approval"
    /\ Len(memory[c].approvedAt) < MaxApprovals
    /\ Save(c, [memory[c] EXCEPT !.machine = Approve(@, actor),
                                 !.approvedAt = Append(@, now), !.updated = now])
    /\ UNCHANGED <<now, dropped, desk, evaluated, reader>>

Write(c, status, j) ==
    /\ store' = [store EXCEPT ![c] = [j EXCEPT !.status = status, !.updated = now,
                                               !.version = @ + 1]]
    /\ UNCHANGED <<now, memory, dropped, desk, evaluated, reader>>

Released(c) == [store[c] EXCEPT !.lease = 0]

\* A claim of a job nobody holds; one without attempts left fails as it is, and
\* a cancellation its holder never confirmed is made.
ClaimJob(c) ==
    LET j == store[c]
    IN  \/ /\ j.status = "cancel_requested" /\ j.lease <= now
           /\ Write(c, "cancelled", Released(c))
        \/ /\ \/ j.status \in {"queued", "retry_wait"}
              \/ j.status = "running" /\ j.lease <= now
           /\ IF j.attempt >= Attempts THEN Write(c, "failed", Released(c))
              ELSE Write(c, "running", [j EXCEPT !.attempt = @ + 1, !.lease = now + LeaseTTL])

\* What a worker may report; its clock may be behind the store's.
Reports == {[o EXCEPT !.at = t] : o \in Outputs, t \in (now - 1)..now}

Holds(c) == store[c].lease > now

SucceedJob(c) ==
    \/ /\ store[c].status = "running" /\ Holds(c)
       /\ \E o \in Reports : Write(c, "succeeded", [Released(c) EXCEPT !.output = o])
    \/ /\ store[c].status = "cancel_requested" /\ Holds(c)
       /\ Write(c, "cancelled", Released(c))

FailJob(c) ==
    /\ store[c].status \in {"running", "cancel_requested"} /\ Holds(c)
    /\ \E o \in Reports :
         Write(c, IF store[c].status = "cancel_requested" THEN "cancelled"
                  ELSE IF store[c].attempt < Attempts THEN "retry_wait" ELSE "failed",
               [Released(c) EXCEPT !.output = o])

\* A second request does not wait for the holder.
CancelJob(c) ==
    \/ /\ store[c].status \in {"queued", "retry_wait", "cancel_requested"}
       /\ Write(c, "cancelled", Released(c))
    \/ store[c].status = "running" /\ Write(c, "cancel_requested", store[c])

\* Mutant of ReconcileChange: a requested cancellation is taken for a finished one.
ReconcileEagerly(c) ==
    LET status == IF store[c].status = "cancel_requested" THEN "cancelled" ELSE store[c].status
        walk   == Follow(memory[c].machine, status)
    IN  /\ c \notin dropped
        /\ store[c].status \notin {"absent", "queued"}
        /\ walk.machine /= memory[c].machine
        /\ memory' = [memory EXCEPT ![c].machine = walk.machine, ![c].updated = now]
        /\ UNCHANGED <<now, dropped, store, desk, evaluated, reader>>

\* reconcileJob with the job as it is stored.
ReconcileChange(c) ==
    LET walk == Follow(memory[c].machine, store[c].status)
    IN  /\ c \notin dropped
        /\ store[c].status \notin {"absent", "queued"}
        /\ walk.machine /= memory[c].machine
        /\ memory' = [memory EXCEPT ![c].machine = walk.machine, ![c].updated = now]
        /\ UNCHANGED <<now, dropped, store, desk, evaluated, reader>>

-----------------------------------------------------------------------------
(* Collecting evidence *)

Known == {c \in ChangeIDs : memory[c].machine.state /= "absent"} \ dropped

\* Bound: evidence of one kind is collected once, for the view that is shown.
Collect(kind, e) ==
    /\ reader.stage = "shown"
    /\ desk[kind] = {}
    /\ desk' = [desk EXCEPT ![kind] = {e}]
    /\ UNCHANGED <<now, memory, dropped, store, reader>>

ObserveApproval(c) ==
    /\ c \in Known /\ CanBuildApprovalEvidence(memory[c], now)
    /\ Collect("approval", BuildApprovalEvidence(memory[c], now))
    /\ UNCHANGED evaluated

ObserveResult(c) ==
    /\ c \in Known /\ CanBuildJobResultEvidence(memory[c], store[c], now)
    /\ Collect("result", BuildJobResultEvidence(memory[c], store[c], now))
    /\ UNCHANGED evaluated

EvaluateRecovery(c, revision, o) ==
    LET e == Path!BuildRecoveryPathEvidence(c, revision, o, now)
    IN  /\ c \in Known /\ Path!ValidObservation(o, now)
        /\ Collect("recovery", e)
        /\ evaluated' = evaluated \cup {<<c, revision>> : x \in {e.state} \cap {"ready"}}

BuildWorkflow ==
    /\ \E a \in desk.approval, r \in desk.result, p \in desk.recovery :
         /\ CanBuildOperationsWorkflowEvidence(a, r, p, now)
         /\ Collect("workflow", BuildOperationsWorkflowEvidence(a, r, p, now))
    /\ UNCHANGED evaluated

-----------------------------------------------------------------------------
(* Reading the view *)

Read(r) == reader' = r /\ UNCHANGED <<now, memory, dropped, store, desk, evaluated>>

\* The first half of ChangesJobs, under s.mu.  Bound: one view is read.
ReadChanges ==
    /\ reader.stage = "idle"
    /\ Read([stage |-> "changes", snapshots |-> {memory[c] : c \in Known}, at |-> now,
             view |-> {}])

\* The second half: a job of a change the first one did not see refuses the view.
ListJobs ==
    LET jobs == {store[c] : c \in {k \in ChangeIDs : store[k].status /= "absent"}}
    IN  /\ reader.stage = "changes"
        /\ IF CanBuildChangesJobsView(reader.snapshots, jobs)
           THEN Read([Idle EXCEPT !.stage = "shown",
                        !.view = {BuildChangesJobsView(reader.snapshots, jobs, reader.at)}])
           ELSE Read([Idle EXCEPT !.stage = "refused"])

AttachRecovery ==
    /\ desk.recovery /= {} /\ desk.workflow = {}
    /\ \E v \in reader.view : \E view \in
         ApplyVerifiedRecoveryPathEvidence(v, Revisions, desk.recovery, now) :
           Read([reader EXCEPT !.view = {view}])

AttachWorkflow ==
    /\ desk.workflow /= {}
    /\ \E v \in reader.view : \E view \in
         ApplyVerifiedOperationsWorkflowEvidence(v, Revisions, desk.workflow, now) :
           Read([reader EXCEPT !.view = {view}])

Tick ==
    /\ now < MaxTime
    /\ now' = now + 1
    /\ UNCHANGED <<memory, dropped, store, desk, evaluated, reader>>

WorkflowNext ==
    \/ \E c \in ChangeIDs :
         \/ \E risk \in RequestRisks : CreateChange(c, risk)
         \/ CreateChangeAgain(c)
         \/ \E actor \in Actors : ApproveChange(c, actor)
         \/ ClaimJob(c) \/ SucceedJob(c) \/ FailJob(c) \/ CancelJob(c) \/ ReconcileChange(c)
         \/ ObserveApproval(c) \/ ObserveResult(c)
         \/ \E revision \in Revisions, o \in Observations : EvaluateRecovery(c, revision, o)
    \/ BuildWorkflow
    \/ ReadChanges \/ ListJobs \/ AttachRecovery \/ AttachWorkflow
    \/ Tick

-----------------------------------------------------------------------------
(* Properties *)

\* Only repeated approvals hide a change from review: evidence can be built for
\* every change the server holds, at any time of its life, exactly as long as it
\* has no more approvals than a review shows.  The projection counts approvals as
\* the policy did, and the state the machine reached is one the projection
\* expects (BuildApprovalEvidence fails on "approval projection differs from
\* policy result" and on an inconsistent state); but Approve takes every approval
\* of a change that still waits, so one that is repeated often enough does hide it.
ApprovalEvidenceIsAvailable ==
    \A c \in Known : CanBuildApprovalEvidence(memory[c], now)
                        <=> Len(memory[c].approvedAt) <= MaxApprovalEvidenceRecords

\* What the operator is shown as complete is so in the stores, although its parts
\* were collected at different times and attached to a view read earlier: the job
\* ended that way in that version and the change with it, enough others than the
\* requester had approved, a success was found healthy by checks made while its
\* job existed, and a path for this change and revision was found ready.
CompleteWorkflowIsTrue ==
    \A view \in reader.view : \A v \in view.changes :
      v.workflow.complete =>
        LET j == store[v.id]
            others == {memory[v.id].machine.approvals[i] :
                         i \in DOMAIN memory[v.id].approvedAt} \ {Requester}
        IN  /\ j.version = v.workflow.version /\ j.status = v.workflow.outcome
            /\ memory[v.id].machine.state = j.status
            /\ Cardinality(others) >= Evaluate(memory[v.id].machine.risk).minimum
            /\ j.output.audit /= <<>>
            /\ j.status = "succeeded" =>
                 /\ j.output.health /= <<>>
                 /\ \A i \in DOMAIN j.output.health : j.output.health[i] = "healthy"
                 /\ j.created <= j.output.at /\ j.output.at <= j.updated
            /\ <<v.id, RevisionOf[v.id]>> \in evaluated

\* A view never shows a change as ended next to a job that still runs or ended
\* otherwise: changes are read before jobs, a change ends only after its job,
\* and what a job ended as does not change.
EndedChangeShowsItsJob ==
    \A view \in reader.view : \A v \in view.changes :
      v.state \in JobOutcomes => \A j \in v.jobs : j.status = v.state

\* What a view shows is true of the stores (the view's provider, its builder and
\* the evidence attached to it).
ViewIsTrue == CompleteWorkflowIsTrue /\ EndedChangeShowsItsJob
=============================================================================
