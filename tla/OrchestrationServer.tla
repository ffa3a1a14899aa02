------------------------- MODULE OrchestrationServer -------------------------
(***************************************************************************)
(* The orchestration API server (internal/orchestration/httpapi/server.go) *)
(* with its PostgreSQL state (persistence/postgres/orchestration.go) and   *)
(* the loop of cmd/control-center/orchestration.go that reconciles Changes *)
(* with their Jobs.  The Job store is the abstract JobLifecycle, which     *)
(* JobRepository and JobWorker implement.                                  *)
(*                                                                         *)
(* A Change is named by the idempotency key of the request that creates    *)
(* it; its Job has the key "change:" + that key.  A handler holds s.mu     *)
(* from its first read to its last write, so it is one action; every call  *)
(* to the database inside it may fail, without effect or (a commit whose   *)
(* answer is lost) after it took effect.  A crash between two calls leaves *)
(* the same database as a failed second call followed by Crash.            *)
(*                                                                         *)
(* Input bytes matter to one thing, the Job's idempotency fingerprint:     *)
(* "raw" is the request body, "stored" the text jsonb returns for it.      *)
(***************************************************************************)
EXTENDS ChangeMachine

CONSTANTS
    Changes,        \* Change idempotency keys
    MaxAttempts,    \* CreateRequest.MaxAttempts
    RequestRisks,   \* risks of the actions requested
    Inputs,         \* forms of request input: a subset of {"raw", "stored"}
    Ambiguous,      \* calls that may fail after they took effect:
                    \*   a subset of {"persist", "create"}
    Reapproval,     \* may an actor approve a Change twice
    MaxApprovals    \* bound: approvals per Change

ASSUME ServerAssumption ==
    /\ MaxAttempts \in Nat \ {0}
    /\ RequestRisks \subseteq Risks
    /\ Inputs \subseteq {"raw", "stored"}
    /\ Ambiguous \subseteq {"persist", "create"}
    /\ Reapproval \in BOOLEAN
    /\ MaxApprovals \in Nat

VARIABLES
    up,           \* the process: "down", "starting" (in New), "up", "failed" (New
                  \*   returned an error) or "refused" (it always will)
    changes,      \* s.changes: Server memory
    tracked,      \* s.reconciliationCandidates
    rows,         \* cc_changes with cc_policy_decisions and cc_change_approvals
    jobs,         \* cc_jobs: status and attempt
    admitted,     \* the input each Job was created with, "none" before
    loop,         \* the copy of a Job runWorker is about to reconcile
    cancelling    \* Changes whose cancelJob handler is about to reconcile

vars == <<up, changes, tracked, rows, jobs, admitted, loop, cancelling>>

Life == INSTANCE JobLifecycle WITH Keys <- Changes, life <- jobs

NoRow == [state |-> "absent", version |-> 0, approvals |-> <<>>, risk |-> "low", hasJob |-> FALSE]

NoRecord == [machine |-> [state |-> "absent", version |-> 0, approvals |-> <<>>, risk |-> "low"],
             hasJob |-> FALSE, input |-> "stored"]

NoCopy == [change |-> "none", status |-> "absent"]

Known(c) == changes[c].machine.state # "absent"

Init ==
    /\ up = "up"
    /\ changes = [c \in Changes |-> NoRecord]
    /\ tracked = {}
    /\ rows = [c \in Changes |-> NoRow]
    /\ jobs = [c \in Changes |-> [status |-> "absent", attempt |-> 0]]
    /\ admitted = [c \in Changes |-> "none"]
    /\ loop = NoCopy
    /\ cancelling = {}

-----------------------------------------------------------------------------
(* Calls to the database: the set of their possible results *)

\* Approvals are keyed by (change, actor): the first one of an actor stays.
Merged(stored, approvals) ==
    LET new     == {k \in DOMAIN approvals : /\ approvals[k] \notin Range(stored)
                                            /\ \A h \in 1..(k - 1) : approvals[h] # approvals[k]}
        rank(k) == Cardinality({h \in new : h <= k})
    IN stored \o [n \in 1..Cardinality(new) |-> approvals[CHOOSE k \in new : rank(k) = n]]

Stored(row, record) ==
    [state     |-> record.machine.state,
     version   |-> record.machine.version,
     approvals |-> Merged(row.approvals, record.machine.approvals),
     risk      |-> record.machine.risk,
     hasJob    |-> record.hasJob]

\* UPDATE ... WHERE version <= $3
UpdateChange(row, record) ==
    LET written == IF row.version <= record.machine.version
                   THEN {Stored(row, record)} ELSE {}
        kept(ok) == {[row |-> r, ok |-> ok] : r \in written}
    IN kept(TRUE) \cup {[row |-> row, ok |-> FALSE]}
       \cup IF "persist" \in Ambiguous THEN kept(FALSE) ELSE {}

\* Repository.Create under the Change's idempotency key: a known key returns the
\* stored Job if the input is the same, a conflict if it is not.
CreateJob(c, input) ==
    CASE admitted[c] = input  -> {[input |-> input, ok |-> TRUE], [input |-> input, ok |-> FALSE]}
      [] admitted[c] = "none" -> {[input |-> input, ok |-> TRUE], [input |-> "none", ok |-> FALSE]}
            \cup IF "create" \in Ambiguous THEN {[input |-> input, ok |-> FALSE]} ELSE {}
      [] OTHER -> {[input |-> admitted[c], ok |-> FALSE]}

\* enqueue: the machine is queued before the Job exists; jobID is set after.
Enqueue(c, row, record) ==
    LET queued == [record EXCEPT !.machine = Transition(@, "queued")]
        bound  == [queued EXCEPT !.hasJob = TRUE]
    IN UNION {IF created.ok
              THEN {[record |-> bound, row |-> u.row, input |-> created.input, ok |-> u.ok]
                       : u \in UpdateChange(row, bound)}
              ELSE {[record |-> queued, row |-> row, input |-> created.input, ok |-> FALSE]}
              : created \in CreateJob(c, record.input)}

Idle(c, row, record) == {[record |-> record, row |-> row, input |-> admitted[c], ok |-> TRUE]}

EnqueueIfApproved(c, row, record) ==
    IF record.machine.state = "approved" /\ ~record.hasJob
    THEN Enqueue(c, row, record) ELSE Idle(c, row, record)

Insert(c, input) ==
    /\ admitted' = [admitted EXCEPT ![c] = input]
    /\ jobs' = [jobs EXCEPT ![c].status = IF @ = "absent" /\ input # "none" THEN "queued" ELSE @]

-----------------------------------------------------------------------------
(* HTTP handlers *)

\* Mutant of Opened: a stored Change is not replayed.
OpenedAfresh(c, risk, input) ==
    IF rows[c].state = "absent"
    THEN [machine |-> New(risk), hasJob |-> FALSE, input |-> input]
    ELSE [machine |-> New(rows[c].risk), hasJob |-> rows[c].hasJob, input |-> "stored"]

\* The record a createChange request works on, and the row behind it: a new one,
\* or the stored one under a key that memory does not know (a lost answer, a
\* record dropped when its Job could not be created).
Opened(c, risk, input) ==
    IF rows[c].state = "absent"
    THEN [machine |-> New(risk), hasJob |-> FALSE, input |-> input]
    ELSE [machine |-> Replay(rows[c]).machine, hasJob |-> rows[c].hasJob, input |-> "stored"]

\* INSERT of the Change fails, before or after it took effect: memory keeps nothing.
CreateChangeLost(c, risk, input) ==
    /\ up = "up"
    /\ ~Known(c)
    /\ rows[c].state = "absent"
    /\ "persist" \in Ambiguous
    /\ rows' = [rows EXCEPT ![c] = Stored(NoRow, Opened(c, risk, input))]
    /\ UNCHANGED <<up, changes, tracked, jobs, admitted, loop, cancelling>>

CreateChange(c, risk, input) ==
    LET record == Opened(c, risk, input)
        row == IF rows[c].state = "absent" THEN Stored(NoRow, record) ELSE rows[c]
    IN /\ up = "up"
       /\ ~Known(c)
       /\ rows[c].state # "absent" => Restorable(rows[c])
       /\ \E result \in EnqueueIfApproved(c, row, record) :
             /\ rows' = [rows EXCEPT ![c] = result.row]
             /\ Insert(c, result.input)
             /\ IF ~result.ok /\ ~result.record.hasJob
                THEN UNCHANGED <<changes, tracked>>
                ELSE /\ changes' = [changes EXCEPT ![c] = result.record]
                     /\ tracked' = IF /\ result.record.hasJob
                                      /\ result.record.machine.state \notin TerminalStates
                                   THEN tracked \cup {c} ELSE tracked
       /\ UNCHANGED <<up, loop, cancelling>>

\* Mutant of ApproveChange: the Job is created although the approval was not stored.
ApproveChangeUnsaved(c, actor) ==
    LET record == [changes[c] EXCEPT !.machine = Approve(@, actor)]
    IN /\ up = "up"
       /\ changes[c].machine.state = "pending_approval"
       /\ Len(changes[c].machine.approvals) < MaxApprovals
       /\ Reapproval \/ actor \notin Range(changes[c].machine.approvals)
       /\ \E u \in UpdateChange(rows[c], record) :
          \E result \in EnqueueIfApproved(c, u.row, record) :
             /\ changes' = [changes EXCEPT ![c] = result.record]
             /\ rows' = [rows EXCEPT ![c] = result.row]
             /\ Insert(c, result.input)
             /\ tracked' = IF result.record.hasJob THEN tracked \cup {c} ELSE tracked
       /\ UNCHANGED <<up, loop, cancelling>>

\* approveChange with the version memory holds.  A failed write leaves memory
\* approved and ahead of the row; nothing takes the approval back.
ApproveChange(c, actor) ==
    LET record == [changes[c] EXCEPT !.machine = Approve(@, actor)]
    IN /\ up = "up"
       /\ changes[c].machine.state = "pending_approval"
       /\ Len(changes[c].machine.approvals) < MaxApprovals
       /\ Reapproval \/ actor \notin Range(changes[c].machine.approvals)
       /\ \E u \in UpdateChange(rows[c], record) :
          \E result \in IF u.ok THEN EnqueueIfApproved(c, u.row, record)
                        ELSE Idle(c, u.row, record) :
             /\ changes' = [changes EXCEPT ![c] = result.record]
             /\ rows' = [rows EXCEPT ![c] = result.row]
             /\ Insert(c, result.input)
             /\ tracked' = IF result.record.hasJob THEN tracked \cup {c} ELSE tracked
       /\ UNCHANGED <<up, loop, cancelling>>

\* Mutant of CancelJob: a requested cancellation is taken for a finished one.
CancelJobEagerly(c) ==
    /\ up = "up"
    /\ jobs[c].status # "absent"
    /\ \E j \in Life!Life :
          /\ \/ Life!Cancelling(jobs[c], j)
             \/ jobs[c].status \in Life!TerminalStatuses /\ j = jobs[c]
          /\ jobs' = [jobs EXCEPT ![c] = j]
          /\ cancelling' = cancelling \cup {c}
    /\ UNCHANGED <<up, changes, tracked, rows, admitted, loop>>

\* cancelJob: the Job first, then, if that ended it, the Change.
CancelJob(c) ==
    /\ up = "up"
    /\ jobs[c].status # "absent"
    /\ \E j \in Life!Life :
          /\ \/ Life!Cancelling(jobs[c], j)
             \/ jobs[c].status \in Life!TerminalStatuses /\ j = jobs[c]
          /\ jobs' = [jobs EXCEPT ![c] = j]
          /\ cancelling' = IF j.status = "cancelled" THEN cancelling \cup {c} ELSE cancelling
    /\ UNCHANGED <<up, changes, tracked, rows, admitted, loop>>

-----------------------------------------------------------------------------
(* Reconciliation *)

\* Mutant of Reconcile: a Change whose write failed is not kept as a candidate.
ReconcileOnce(c, status) ==
    LET walk   == Follow(changes[c].machine, status)
        record == [changes[c] EXCEPT !.machine = walk.machine]
    IN IF ~Known(c) THEN UNCHANGED <<changes, rows, tracked>>
       ELSE /\ changes' = [changes EXCEPT ![c] = record]
            /\ IF ~walk.ok THEN UNCHANGED <<rows, tracked>>
               ELSE \E u \in UpdateChange(rows[c], record) :
                       /\ rows' = [rows EXCEPT ![c] = u.row]
                       /\ tracked' = IF status \in Life!TerminalStatuses
                                     THEN tracked \ {c} ELSE tracked

\* reconcileJob on a copy of the Job.  An unknown Change and a refused transition
\* return without a write.
Reconcile(c, status) ==
    LET walk   == Follow(changes[c].machine, status)
        record == [changes[c] EXCEPT !.machine = walk.machine]
        done   == /\ status \in Life!TerminalStatuses
                  /\ changes[c].machine.state = status
                  /\ c \notin tracked
    IN IF ~Known(c) \/ done THEN UNCHANGED <<changes, rows, tracked>>
       ELSE /\ changes' = [changes EXCEPT ![c] = record]
            /\ IF ~walk.ok THEN UNCHANGED <<rows, tracked>>
               ELSE \E u \in UpdateChange(rows[c], record) :
                       /\ rows' = [rows EXCEPT ![c] = u.row]
                       /\ tracked' = IF ~u.ok THEN tracked \cup {c}
                                     ELSE IF status \in Life!TerminalStatuses
                                     THEN tracked \ {c} ELSE tracked

\* RunOne returns the Job it claimed, as it stood after the last store call.
RunOneReturns(c) ==
    /\ up = "up"
    /\ loop = NoCopy
    /\ jobs[c].status \notin {"absent", "queued"}
    /\ loop' = [change |-> c, status |-> jobs[c].status]
    /\ UNCHANGED <<up, changes, tracked, rows, jobs, admitted, cancelling>>

\* ReconcileTerminalJobs reads a candidate's Job: at startup once nothing is left
\* to enqueue, later on every reconciliation tick.
SweepReads(c) ==
    /\ \/ up = "up"
       \/ up = "starting" /\ ~\E o \in Changes : changes[o].machine.state = "approved"
                                                   /\ ~changes[o].hasJob
    /\ loop = NoCopy
    /\ c \in tracked
    /\ jobs[c].status \in Life!TerminalStatuses
    /\ loop' = [change |-> c, status |-> jobs[c].status]
    /\ UNCHANGED <<up, changes, tracked, rows, jobs, admitted, cancelling>>

\* A failure during startup makes New return an error.
LoopReconciles(c) ==
    /\ loop.change = c
    /\ Reconcile(c, loop.status)
    /\ loop' = NoCopy
    /\ up' = IF up = "starting" /\ c \in tracked' THEN "failed" ELSE up
    /\ UNCHANGED <<jobs, admitted, cancelling>>

CancelReconciles(c) ==
    /\ c \in cancelling
    /\ Reconcile(c, "cancelled")
    /\ cancelling' = cancelling \ {c}
    /\ UNCHANGED <<up, jobs, admitted, loop>>

-----------------------------------------------------------------------------
(* The process and the workers *)

AwaitsEnqueue(c) == changes[c].machine.state = "approved" /\ ~changes[c].hasJob

Crash ==
    /\ up \in {"up", "starting", "failed"}
    /\ up' = "down"
    /\ changes' = [c \in Changes |-> NoRecord]
    /\ tracked' = {}
    /\ loop' = NoCopy
    /\ cancelling' = {}
    /\ UNCHANGED <<rows, jobs, admitted>>

\* New: every stored Change is restored, or the server does not start.
Load ==
    LET present == {c \in Changes : rows[c].state # "absent"}
    IN /\ up = "down"
       /\ IF \A c \in present : Restorable(rows[c])
          THEN /\ up' = "starting"
               /\ changes' = [c \in Changes |->
                                 IF c \in present THEN Opened(c, "low", "stored") ELSE NoRecord]
               /\ tracked' = {c \in present : rows[c].hasJob
                                                /\ rows[c].state \notin TerminalStates}
          ELSE up' = "refused" /\ UNCHANGED <<changes, tracked>>
       /\ UNCHANGED <<rows, jobs, admitted, loop, cancelling>>

\* An idempotency conflict repeats on every start.
StartupEnqueue(c) ==
    /\ up = "starting"
    /\ AwaitsEnqueue(c)
    /\ \E result \in Enqueue(c, rows[c], changes[c]) :
          /\ changes' = [changes EXCEPT ![c] = result.record]
          /\ rows' = [rows EXCEPT ![c] = result.row]
          /\ Insert(c, result.input)
          /\ tracked' = IF result.record.hasJob THEN tracked \cup {c} ELSE tracked
          /\ up' = IF result.ok THEN up
                   ELSE IF admitted[c] \notin {"none", changes[c].input} THEN "refused"
                   ELSE "failed"
    /\ UNCHANGED <<loop, cancelling>>

Serve ==
    /\ up = "starting"
    /\ loop = NoCopy
    /\ \A c \in Changes : ~AwaitsEnqueue(c)
    /\ \A c \in tracked : jobs[c].status \notin Life!TerminalStatuses
    /\ up' = "up"
    /\ UNCHANGED <<changes, tracked, rows, jobs, admitted, loop, cancelling>>

\* The workers of this process and Claim's sweep move Jobs on.
JobAdvances(c) ==
    /\ up = "up"
    /\ \E j \in Life!Life :
          /\ \/ Life!Started(jobs[c], j)
             \/ Life!Completed(jobs[c], j)
             \/ jobs[c].status = "cancel_requested" /\ Life!Cancelling(jobs[c], j)
          /\ jobs' = [jobs EXCEPT ![c] = j]
    /\ UNCHANGED <<up, changes, tracked, rows, admitted, loop, cancelling>>

Next ==
    \/ \E c \in Changes :
          \/ \E risk \in RequestRisks, input \in Inputs :
                CreateChange(c, risk, input) \/ CreateChangeLost(c, risk, input)
          \/ \E actor \in Actors : ApproveChange(c, actor)
          \/ CancelJob(c) \/ CancelReconciles(c)
          \/ RunOneReturns(c) \/ SweepReads(c) \/ LoopReconciles(c)
          \/ StartupEnqueue(c) \/ JobAdvances(c)
    \/ Crash \/ Load \/ Serve

\* The process manager restarts the server; the loop keeps running; and a
\* database that fails now and then, or a server that crashes now and then, lets
\* each of these steps through in the end.
Fairness ==
    /\ WF_vars(up = "failed" /\ Crash)
    /\ WF_vars(Load)
    /\ SF_vars(Serve)
    /\ \A c \in Changes : /\ SF_vars(StartupEnqueue(c) /\ up' = "starting")
                          /\ SF_vars(SweepReads(c))
                          /\ WF_vars(LoopReconciles(c))
                          /\ SF_vars(LoopReconciles(c) /\ c \notin tracked')

Spec == Init /\ [][Next]_vars

FairSpec == Spec /\ Fairness

-----------------------------------------------------------------------------
(* Properties *)

\* A Change that is reported finished, in memory or in its row, ended the way its
\* Job did: stale copies reconciled late, retried writes and restarts never make
\* a failed or cancelled Job a succeeded Change.
ChangeEndsAsItsJob ==
    \A c \in Changes :
       /\ rows[c].state \in Life!TerminalStatuses => jobs[c].status = rows[c].state
       /\ changes[c].machine.state \in Life!TerminalStatuses
             => jobs[c].status = changes[c].machine.state

\* A Job exists only for a Change whose row already carries the approvals its
\* policy demands, from that many actors other than the requester: a failed write
\* or a restart never admits a Job on approvals that are not durable.
JobHasDurableApprovals ==
    \A c \in Changes : jobs[c].status # "absent" =>
       /\ InitialState(rows[c].risk) # "rejected"
       /\ CheckApprovals(rows[c].risk, rows[c].approvals)
       /\ rows[c].state \notin {"absent", "pending_approval", "rejected"}

\* Memory is never behind the row, so the version guard of UpdateChange never
\* rejects the only server's own write.
MemoryNotBehindRow ==
    \A c \in Changes : Known(c) => rows[c].version \in 1..changes[c].machine.version

\* A Change bound to a Job whose row lags behind memory is a reconciliation
\* candidate: a failed write of enqueue or reconcileJob is never forgotten, not
\* even when another reconciliation of the same Change succeeds.
LaggingRowIsTracked ==
    \A c \in Changes :
       (changes[c].hasJob /\ rows[c].version # changes[c].machine.version) => c \in tracked

\* The rows back what the server does: a Job rests on durable approvals, memory is
\* never behind its row, and a row behind memory will be written again (enqueue,
\* approveChange and reconcileJob with writes that may fail).
RowsBackTheServer == JobHasDurableApprovals /\ MemoryNotBehindRow /\ LaggingRowIsTracked

\* Whatever the database holds, the server can start again.
NeverRefused == up # "refused"

\* The outcome of a Job reaches the row of its Change.
OutcomeReachesChange ==
    \A c \in Changes :
       jobs[c].status \in Life!TerminalStatuses ~> rows[c].state = jobs[c].status
=============================================================================
