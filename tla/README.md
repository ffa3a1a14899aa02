# Control Center: TLA+ models and proofs

A verification project kept beside the Go sources of Control Center (`src/`).
It models the parts of the system that keep state or decide on state others keep:

* the path everything else is built on,
  `request -> policy -> Change -> approvals -> Job -> worker -> outcome -> Change`,
  with the retries, cancellations, evidence and views operators work with;
* the staged network change with its commit and rollback;
* the incidents operators work on, and the audit chain;
* sign-in, sessions and the login throttle;
* the distributed core objects, the work of a site that is cut off, and the
  authorization of edge gateways;
* the life of a node and the agents that report on it;
* the recovery catalogue: backups, restore drills and the evidence they give.

Each comes with the faults the code is written against: crashes, lost answers,
late workers, stale copies, repeated and reordered requests. TLC checks the models
on small instances; TLAPS proves theorems about the Job store, the workers, the
network change, incidents, sign-in, node life cycle and agents for every instance.

## 1. The system and its parts

| Part | Source (under `internal/` unless said otherwise) | Module |
|---|---|---|
| Job life cycle (what a Job promises) | `orchestration/job/job.go` | `JobLifecycle` |
| Durable Job store | `persistence/postgres/jobs.go`, `jobs_cancel_version.go` | `JobRepository` |
| In-memory Job store (the one tests use) | `orchestration/job/memory.go`, `cancel_version.go` | `MemoryRepository` |
| Job timeline | `orchestration/job/timeline_transition.go` | `JobTimeline` |
| Retry backoff | `orchestration/job/retry.go` | `RetryDelay` |
| Manual retry | `orchestration/operationsview/retry_*.go`, `orchestration/job/manual_retry*.go`, `persistence/postgres/jobs_manual_retry.go` | `ManualRetry` |
| Worker and lease renewal | `orchestration/worker/worker.go` | `JobWorker` |
| Operator cancellation (If-Match) | `cmd/control-center/orchestration_cancel_version.go`, `orchestration_job_reconnect.go` | `OperatorCancel` |
| Change machine and approval policy | `orchestration/change`, `policy` | `ChangeMachine` |
| API server, its database state, the control loop | `orchestration/httpapi/server.go`, `persistence/postgres/orchestration.go`, `cmd/control-center/orchestration.go` | `OrchestrationServer` |
| Evidence about a Change | `orchestration/operationsview/*_evidence.go` | `OperationsEvidence` |
| Changes and Jobs view | `ui/changes_jobs*.go`, `orchestration/httpapi/changes_jobs_provider.go` | `ChangesJobsView`, `OperationsWorkflow` |
| Network change plan | `networkpolicy/change_plan.go`, `policy.go` | `NetworkPlan` |
| Network change machine and its verification | `networkpolicy/change_machine.go`, `verification_*.go` | `NetworkChange` |
| Incident document and its mutations | `incidents/incident.go`, `mutation.go` | `Incident` |
| Incident API, its store, the audit chain | `incidents/operator.go`, `httpapi`, `persistence/postgres/incidents*.go`, `audit.go` | `IncidentOperator` |
| Login throttle | `identity/auth/login_protection.go` | `LoginProtection` |
| Sessions and passwords | `identity/auth/service.go`, `identity/httpapi/server.go`, `persistence/postgres/identity.go` | `IdentitySessions` |
| Object envelope, scopes, typed documents | `corecontracts/metadata.go`, `topology.go`, `roles.go`, `state.go`, `network.go`, `objects.go` | `ObjectMetadata`, `CoreContracts` |
| Core object store and its action | `persistence/postgres/core_objects.go`, `corecontracts/memory_repository.go`, `actionapi` | `CoreObjects` |
| Site records and offline work | `sitesync/state.go`, `siteoffline/admission.go`, `reconnect.go` | `SiteOffline` |
| Edge gateway authorization | `edgegateway/authorization.go` | `EdgeGateway` |
| Node life cycle and its plans | `nodelifecycle` | `NodeLifecycle` |
| Agents: enrolment, bootstrap, heartbeats | `agent` | `AgentEnrollment`, `Agents` |
| Recovery records and how they fit together | `recovery/validation.go`, `integrity.go` | `RecoveryMetadata` |
| Restore drills, freshness, bindings | `recovery/restore_drill*.go`, `adapter_registry.go` | `RestoreDrill` |
| Recovery path of a Change | `orchestration/operationsview/recovery_path*.go` | `RecoveryPath` |
| A recovery catalogue over time | its writers are outside the repository | `RecoveryCatalog` |

How they interact: `POST /changes` evaluates the policy and stores a Change;
when enough actors have approved it the server creates a Job under the
idempotency key `change:<key>` and binds it to the Change. The embedded worker
claims Jobs under a lease, executes and verifies the action, and stores success
or failure. The control loop, a periodic sweep and the cancel handler carry the
Job's status back to the Change (`reconcileJob`). After a restart the server
rebuilds every Change by replaying its row (`restoreChange`). One of the actions
a Job may carry writes core objects; it may be executed more than once.

Operators read the Changes with their Jobs in a view, to which evidence is
attached: who approved, how the Job ended, whether what was captured before can
be restored. The last part rests on the recovery catalogue. A Job that failed may
be retried by hand, on an admission that was reviewed.

The network change machine is a library: its caller feeds it events with their
own times and versions, and an adapter outside the repository touches the
network. Node life cycle, offline work, edge gateway and recovery are libraries
too: they decide on documents that a caller stores. Their modules add the
callers the contracts are written for, which act late, twice and side by side.
The incident API shares with the rest of the system the audit log, a chain of
hashes that every part appends to.

Parts of the repository that have no module are listed in section 7 and,
one by one, under `components` of `PROJECT.json`.

## 2. The modules

**JobLifecycle** is the abstract specification: a Job is a status and an attempt
counter, and `LifeStep` lists the transitions. `JobRepository` and `JobWorker`
are shown to implement it; `OrchestrationServer` uses it as its Job store.

**JobRepository** has one row per idempotency key with every column the code
compares (`status, attempt, next_attempt_at, lease_token, lease_expires_at,
version, created_at, updated_at`, and whose output is stored). One action per
method. `Claim` is one transaction: two sweeping `UPDATE`s over all rows, then
the oldest claimable row that no other transaction has locked (`locked` is any
set: `SKIP LOCKED`). A lease token is named by the version of the write that
issued it. Every worker call carries a time that may lag `MaxLag` behind the
clock, and any token ever issued may be presented at any time.

**MemoryRepository** translates `memory.go` over the same rows; its properties
compare each operation with the PostgreSQL one in every reachable state.

**JobTimeline** translates `TimelineEntryFromTransition`; its properties are
about every write the store makes.

**JobWorker** has a program counter per worker for `RunOne` and a second thread
of control for the renewal goroutine. Time is abstracted to a `lapsed` flag per
lease, so there is no bound on it. Each store call may take effect and lose its
answer; a process may die at any statement.

**ManualRetry** has failed Jobs, the policies, revisions and approvals an
operator's admission is about, and requests that pass through the reads of
the revalidation one at a time before the creating transaction. The answers of both
repositories to it are compared: they look for a taken id and a taken key in a
different order, so the two errors differ when both are taken, and only then.

**OperatorCancel** adds to the store an operator whose cancellation request
carries the row that was reviewed, and may arrive late or repeatedly.

**RetryDelay** is the backoff function in two's-complement arithmetic with
`maxRetryDelay` as the largest Duration; the instance of the Job store takes its delays from it. Its specification
follows one Job through its failures and compares each delay with the exact doubling.

**ChangeMachine** holds the pure parts: `Evaluate`, `CheckApprovals`, `Approve`,
`Allowed`, the walk `reconcileJob` makes (`Towards`) and the one `restoreChange`
makes (`Route`).

**OrchestrationServer** has the server's memory (`changes`, `tracked`), the
database (`rows`, `jobs`, `admitted`), the copies of Jobs that are in flight
between a read and a reconciliation (`loop`, `cancelling`) and the life of the
process (`up`). A handler holds `s.mu` throughout and is one action; each
database call inside it has a set of results (done, not done, done with the
answer lost). `Load`, `StartupEnqueue`, `SweepReads` and `Serve` are the steps
of `httpapi.New`.

**NetworkPlan** is the validation of a change plan: timeouts, interfaces,
forwarding between zones, and the probes that must cover every changed interface
and the management path.

**NetworkChange** has the fields of `ChangeMachine` and one operator per phase of
`transition`; `Report(type)` delivers an event of that type with any time up to
now, any version and any event id, old ones included. Evidence and the current
plan are arguments of `Admit`, `ApplyVerifiedPreflight` and
`ApplyCurrentVerifiedPreflight`, chosen at every call; checks of one piece of
evidence have times of their own on clocks that may be off. `net` is what the
adapter has done to the network, whether or not its report has arrived.

**Incident** is the document: `Validate`, the three `Prepare` functions, the
version rules of `ObjectMetadata`, and the cut of every time to microseconds that
the store makes, part by part (`Canonical...`). One tick of the model is finer than a
microsecond.

**IncidentOperator** follows a request from the handler, which takes the time,
through `commitMutation`, which works on a copy, into the transaction, whose row
lock, audit-chain lock and commit are steps of their own. Next to it run the
source of signals (`Create`, `Replace`; its caller is not in the repository yet,
and its clock may be ahead) and other audited actions.

**OperationsEvidence** and **ChangesJobsView** are the pure parts of what an
operator is shown: the builders of approval, result and workflow evidence, the
join of Changes and Jobs, and the `Apply` functions, which refuse a whole set for
one item that does not fit. **OperationsWorkflow** lets Changes and Jobs live on
while a collector holds evidence of each kind and a reader takes first the
Changes, then the Jobs.

**LoginProtection** is the throttle as functions on its map; an operator that may
evict returns the set of maps Go's iteration order allows. **IdentitySessions**
runs requests above it, one database statement a step: login, authentication
with its late touch, password change in an open transaction, logout, the two
revocations, and the bootstrap of a restarted process.

**ObjectMetadata** and **CoreContracts** are the validation of a
snapshot of objects and of one mutation of it. **CoreObjects** executes Jobs
that carry mutations: an executor takes a snapshot, waits for the advisory lock,
and from the lock to the commit is one step; it may stop before or after.

**SiteOffline** has the reconciliation of records, the policy
authority, the site's copy of the policy, a queue of intents and what becomes of
them after the reconnect. **EdgeGateway** has an inventory whose interfaces are
re-parented and whose roles are reassigned, and plans authorized against it.

**NodeLifecycle** has a node, planners that hold a plan of one transition each,
and runbooks of several. `Commit` stands for the storage adapter that validates a
transition in the transaction of its compare-and-swap. **AgentEnrollment** is the
validation of a report; **Agents** has bootstrap tokens with concurrent callers,
and the registry of heartbeats.

**RecoveryMetadata** says which record is valid and which records fit together,
**RestoreDrill** and **RecoveryPath** what is computed from them.
**RecoveryCatalog** lets writers store any record that decodes, in any order, and
readers keep what they computed.

`MC*` modules give the constants values a `.cfg` cannot. Three of them play one of several
scenes, each with the variables of one part: `MCJobRepository` (the store with its
in-memory twin and timeline, cancellation, manual retry, backoff), `MCOperations`
(server, view), `MCContracts` (core objects, offline site, edge gateway);
`MCFleet` does the same for nodes and agents. A part that an `MC` module takes by
`INSTANCE` has its properties stated again there for the scene it belongs to.
Definitions whose comment begins with "Mutant of" are faulty variants of the
definition that follows; no specification uses them, they exist to show that
each property notices the corresponding bug.

## 3. Runs

| Run | Instance | Shows |
|---|---|---|
| `job_repository` | store: 2 Jobs, 2 attempts, lease 2, delays 1 and 2, lag 1, clock to 4. Cancel: 1 Job, 2 requests. Retry: 2 operators, 3 Jobs, 2 policies, 2 revisions. Backoff: every base and maximum of 6 bits (`maxRetryDelay` 31), 9 attempts | rows are sound (lease held exactly while in flight, attempts match status, output from the newest claim); writes are in order (no early reclaim, retries wait, versions count writes); the life cycle is implemented; the in-memory store agrees row by row and claim by claim; every transition has a timeline entry; a cancellation acts on the reviewed row and a retransmission never takes the worker's lease; a manual retry is of what was reviewed, within the budget, and is answered once, and alike by both repositories unless id and key of the child are both taken; the delay is the exact doubling, saturated, never wrapped |
| `operations` | server: 1 Change of every risk, 3 actors, every fault. View: 1 Change, 2 revisions, 3 approvals of which a review shows 2, clock to 2 | the Change ends as its Job did; rows back the server (a Job has durable approvals, memory is never behind the row, a lagging row is tracked); approval evidence can be built exactly while the approvals of a Change fit a review; a view and its evidence are true of the stores |
| `job_worker` | 1 Job, 3 attempts, 2 workers | results are genuine (no false success, retry evidence is the newest); Jobs and cancellations end; the life cycle is implemented |
| `orchestration_outcome` | 1 Change, 2 attempts, inputs as stored, no repeated approval, no lost answer of a creation | the outcome of a Job reaches the row of its Change |
| `network_change` | 3 plans (two interfaces, one interface, one invalid), evidence age 2, skew 1, verifier clocks off by -1, 0 or 2, clock to 5 | a commit is sound (every changed interface and the management path probed, inside the apply window); an admission says what its evidence says; events do not mislead (late success never counts, a rollback is never skipped, an event takes effect once); every change ends |
| `incident_operator` | 1 incident, 2 operators, 3 timeline entries, 2 ticks per microsecond, ingester up to 1 ahead, clock to 2 | no write is lost or rebinds evidence; transactions are whole (timeline and audit agree entry by entry, the chain is unbroken, only a request in progress holds a lock); the cut to microseconds refuses no mutation of the current revision |
| `identity` | 2 requests, 2 sessions, 1 account and a name without one, 2 tracked keys, clock to 4 | nobody is admitted on replaced credentials; no session and no password is revived; a block holds until it is over and the map keeps its bound |
| `contracts` | store: 2 Jobs, 2 executors, 4 executions, four deployments, both backends. Offline: 2 intents, 2 policies. Gateway: 4 interfaces on 2 nodes, 3 assignments | the stored snapshot stays acceptable; a Job has one result however often it is executed; writes follow what was reviewed; offline work stays within its policy and keeps its base; the two sides of a gateway share no interface |
| `fleet` | life cycle: 2 planners, a runbook. Agents: 2 tokens, 2 callers, 1 node, reports of any age | plans are honoured on their version and on no other; a node is worked on only after a complete drain; an enrolment is earned by one token in its lifetime and by evidence from before; silence only ages |
| `recovery` | four histories of one recovery point with up to 2 backups, 2 drills and a restore, 2 ticks per second, clock 2 to 7 | a path called ready can be restored; a drill keeps its plan, its fence and its objective; a kept proof holds for the drill it was made of |
| `restart_reapproval` | violation | a repeated approval makes the row unrestorable |
| `recovery_snapshot` | violation | a snapshot stays "the latest" after a newer drill |

Bounds. Two Jobs are enough for the order and the sweeps of `Claim` to matter
(all other operations touch one row); two attempts give a first, a retried, a
reclaimed and an exhausted attempt; with lease 2 and clock 4 a lease can be
issued, expire, be reclaimed and the second one expire. `MaxVersion` bounds
renewals only. Three actors are the requester and two approvers, which the
critical risk needs; a third approval leaves room for one that does not count. A review
shows `MaxApprovalEvidenceRecords` approvals, 256 in the code and 2 here, so that three
approvals, one of them repeated, are too many.
Timeouts of a network change are 1 or 2 and events need no time to pass, so with a
clock of 5 every phase can be entered early enough to be left in time, at its
deadline and late, and an admission can be used fresh, expired and against another
plan. Three timeline entries
hold an opened incident and two writes that compete with a third: acknowledgement
and resolution, a note and a signal, two notes; a full timeline is reached too.
The audit chain and the row lock relate two transactions at a time, so one
incident, two operators and one other audit event suffice.

Two operators retry one Job with two policies and two revisions: each can change
between one's review and the other's creation. The three children take the key of
another, its id, or both. Two identity requests are any two of login, authentication, password
change, logout and revocation; the second session is the one that escapes the
revocation. Two tracked keys are fewer than the three names and addresses that
ask for a bucket. Two Jobs over one snapshot are two writers of objects that
refer to each other: four deployments were chosen so that each kind of reference
(parents, delegation, controllers, interfaces, observations) can be broken by
two writes each valid alone. A token lives two ticks of three, and reports are
up to three ticks old or two ahead. The clock of the recovery catalogue has half
seconds, which is what the rounding of recovery times and ages needs.

Keys, workers, approvers, requests, planners, callers, tokens and intents are
symmetric. No symmetry is used with liveness. Deadlock checking is off where a
model ends because its clock, its requests or its attempts are used up, in the
server because all Changes may be finished, in the network change because it ends.

## 4. Fairness

`JobWorker`: `RunOne`'s statements are ordinary calls that return (weak fairness
per worker); the 250 ms ticker calls `RunOne` again and again, so some idle
worker claims (weak fairness); time passes the expiry of a lease that nobody
renews. Nothing obliges anyone to create, cancel, crash or renew.

`OrchestrationServer`: the process manager restarts the server (weak fairness of
`Load` and of the exit after a failed start); the loop reconciles what it has
read (weak fairness); and a database that fails, or a process that dies, only
now and then lets each of startup, sweep and write through in the end (strong
fairness). With a database that is down forever no outcome can reach a Change.

`NetworkChange`: the machine has no timer of its own; its caller records a phase
timeout once the deadline has passed (weak fairness of that report), and time
passes. Nothing obliges the adapter or a prober to report.

The other modules have no liveness property. That nobody waits forever for a lock
of an incident is stated as an invariant on who holds the locks; nodes, agents,
sites and recovery move only when a caller outside the repository moves them.

## 5. What is proved

`JobRepositoryProofs` proves, for any set of Jobs, any number of attempts, any
lease duration, delays, lag and clock (assumption `JobAssumption` of
`JobRepository`: they are natural numbers, attempts and lease positive):

* `InductiveInvariant`: `Spec => []IInv`. `IInv` says of each row and the set of
  tokens issued for it (`RowInv`) what the invariants say, and in addition that
  no token is larger than the row's version and that a waiting row's
  `next_attempt_at` is its last write plus the delay of its attempt. The first
  is why a new token is newer than all others, which `LeaseHeldIffInFlight` and
  `OutputFromNewestClaim` need and do not state; the second is what
  `RetryWaitsForDelay` needs.
* `TypeCorrect`, `LeaseSafety`, `AttemptSafety`, `OutputSafety`: the invariants.
* `VersionsCountWrites`, `ReclaimsAreLate`, `RetriesWait`: the action properties,
  from a per-row step relation `RowStep` that every operation satisfies.
* `RowSafety`, `WriteSafety`: the conjunctions the run checks, `RowsAreSound` and
  `WritesAreInOrder`.
* `Refinement`: the store implements `JobLifecycle`.

The argument is per row: lemmas give the fields of a written, released, claimed
or failed row; one lemma per operation shows that the row it writes satisfies
`RowInv` (`...RowInv`) and makes a `RowStep` (`...RowStep`); `OneRow` and
`ClaimInv` lift this to the table. On the same invariant rest

* `TimelineSafety`: `EveryTransitionIsRecorded`, since every `RowStep` that changes status or
  attempt is one `TimelineEntryFromTransition` has an entry for.
* `ReviewInvariant`, `CancelSafety`: `CancelIsBoundToReview` of `OperatorCancel`. A reviewed row is
  the stored one or has a smaller version, because versions count writes.
* `MemorySafety`: `MemoryMatchesPostgres`, for any finite set of Jobs (`KeysAssumption`). The loop of
  the in-memory `Claim` is followed visit by visit: what it has not visited is as the sweeps
  found it, and it stops at the row the `SELECT` returns (`ClaimsMatch`).

`NetworkChangeProofs` proves, for any set of plans, any check names, ages, skews
and clocks (`PlanAssumption`, `ChangeAssumption`: the bounds are numbers, plans
have integer timeouts):

* `ChangeInvariant`: `Spec => []IInv`. `IInv` has, beside the types, how the
  deadlines of the apply window and of probing relate to the end of the window, and
  what the adapter can have done to the network in each state. The deadline of
  probing being cut to the window is what `CommitsInsideWindow` needs; that a network can only be touched from the apply window on is what
  `RollbackIsNeverSkipped` needs.
* `ChangeTypeCorrect`, `CommitIsSafe`, `CommitIsTimely`: the invariants.
* `LateSuccess`, `RollbackSafety`, `OnceOnly`: the action properties.
* `CommitSoundness`, `EventSafety`: the conjunctions the run checks, `CommitIsSound`
  and `EventsDoNotMislead`.

The adapter's reports are taken to be true: the network is changed when it says so.
The argument: every step is an event, an adapter step, an admission or a tick
(`StepCases`, `PreflightIsAnEvent`); `ApplyInv` shows the invariant for an event
phase by phase, `OutsideInv` for the rest.

`IncidentOperatorProofs` proves, for any operators, evidence, document limits and
clocks (`DocumentAssumption`, `OperatorAssumption`):

* `ChainInvariant`: `Spec => []ChainInv`. Beside the lock and chain properties `ChainInv`
  says that the hash a transaction has read is still the newest while it holds the
  chain, which is what makes the event it inserts continue the chain.
* `ChainSafety`, `LockSafety`: `AuditChainUnbroken`, `LocksAreHeldByRequests`.
* `IncidentInvariant`: `Spec => []IncidentInv`. It adds that the stored incident does
  not change when its times are cut again (`Stored`), that its operator entries are
  the audited mutations (`Audited`), and that a prepared mutation either was prepared
  from the row as it is or names a version with a smaller count (`Pending`). The last is
  what no property states and all need: a write turns every other prepared mutation into
  one of the second kind, and the holder of the row lock stays one of the first.
* `TransactionSafety`: `TransactionsAreWhole`. `MatchingCommits`:
  `MatchingCommitIsAccepted`. `HistoryGrows`: `HistoryOnlyGrows`. The three properties
  of the run.

The argument: the cut to microseconds is monotonic and idempotent (`CutKeepsOrder`,
`CutTwice`), so a valid document stays valid (`CanonicalIsValid`); one lemma for each
`Prepare` function says what it returns; `CommitGrows` puts both together: a mutation
prepared from the stored row passes the commit's checks and adds one entry. Then
one lemma per step. `OperatorAssumption` says that `None` is neither an operator, an
acknowledgement nor a document, and that evidence has the fields of a reference.

`JobClientsProofs` is about those who use the store. For any Jobs, workers and positive number of
attempts (`WorkerAssumption`):

* `WorkerInvariant`: a lease is named by the newest attempt as long as there is
  one, and a worker about to report success has verified the attempt it holds. Neither
  is a property of the run; together they are why a write the store accepts is genuine.
* `Genuine`: `ResultsAreGenuine`.
* `WorkersImplementLifecycle`: the workers with renewal, crashes and cancellation
  implement `JobLifecycle`.

For any largest Duration and number of attempts (`DurationAssumption`):

* `DelaySafety`: `DelayIsSaturatedDoubling`. The loop of `RetryDelay` follows the exact doublings
  until the next would pass its limit, so nothing it computes wraps.

For any operators, Jobs, policies and revisions (`RetryAssumption`):

* `RetrySafety`: `RetryIsWhatWasReviewed`. The lineage is a chain that `Walk` walks from end to end
  (`ChainOf`); an admission was made where the chain ended, and since a source is retried once,
  that is still its end when the retry is created from it (`EntryAtTheEnd`).
* `AnswerSafety`: `AnswersAgree`.

`IdentityProofs` proves, for any finite set of requests and any sessions, passwords, names,
sources and clock (`ServiceAssumption`, `PolicyAssumption`: what the service's and the
throttle's own constructors ask of their settings):

* `IdentityInvariant`: what a request has read of the credentials is not newer than they
  are, an open password change holds the row whose hash it verified, and an id given to
  a new session was never used (there is room for one of each request).
* `AdmissionSafety`, `NoRevival`, `BlocksHold`: the three properties of the run.

The throttle is proved on its maps alone: each operator of `LoginProtection` keeps the
bound and every block, whichever map Go's iteration order produces.

`FleetProofs` proves, for any tokens, callers, nodes and thresholds in the order
the policy's validation asks for (`AgentsAssumption`):

* `AgentsInvariant`: an unused token still has the digest of its secret; a grant is
  of a used token; a plan is what the builder returned for a grant.
* `Earned`: `EnrollmentIsEarned`. `SilenceAges`: `SilenceOnlyAges`, from the monotonicity
  of both evaluations in the age of a heartbeat.

and, for any planners, placements and clock bound:

* `LifecycleInvariant`: a plan whose version is the node's own was admitted for the node as
  it is; the steps left of a runbook are a suffix of what its builder returned and
  find the state the step before them wrote.
* `DrainPrecedesWork`: `WorkFollowsDrain`. `PlansHonoured`: `PlansAreHonoured`.

`OrchestrationServerProofs` proves, for any Changes, actors and attempts, and any choice of
failing, ambiguous or lost database calls (`ActorAssumption`, `ServerAssumption`):

* `ServerInvariant`: `Spec => []ServerInv`. `ServerInv` says of each Change (`Sound`) how its
  machine in memory, its row and its Job fit together: the row never runs ahead of memory,
  both were let through by the policy once they passed `pending_approval`, neither is in
  a terminal state other than the status of the Job. What no property states and both
  need is `CopiesAreFinal`: a copy of a Job that the loop, the sweep or the cancel handler
  holds may be old, but one that says the Job ended is true for good.
* `EndSafety`: `ChangeEndsAsItsJob`. `RowSafety`: `RowsBackTheServer`.

Each database call has a lemma that keeps `Sound` for one Change, whatever the call answers,
and `OneChange` lifts it to all. A crash keeps the rows only, so what startup rebuilds must be
`Sound` again: `Replays`, from `ReplayedApprovals` and `Walks`, says that a replayed row either
is refused or gives a machine of its own state and version, on approvals that suffice if
those of the row did.

`ContractsProofs` proves three things. For any intents, actions, policy lifetime and bounds
(`OfflineAssumption`):

* `OfflineInvariant`: an entry of the queue is older than the request under way and was
  admitted under the trusted policy or one of an earlier generation (`Order`); a decision to
  go ahead was observed on the entry's base, and the object has moved past every revision that
  was replaced (`Bases`).
* `AdmissionSafety`: `AdmittedWithinPolicy`. `BaseSafety`: `OfflineIntentKeepsItsBase`.

For any zones and assignments and any finite inventory (`EdgeAssumption`), whatever the parents
of its interfaces are, cycles included:

* `EdgeInvariant`: an emitted plan is one the builder accepts of the inventory as it is.
* `GatewaySafety`: `GatewaySidesAreDisjoint`. What `interfaceRoot` visits leads from an
  interface to its root (`Ascends`); two such paths to different roots have nothing in
  common (`PathsApart`), and everything an interface rests on lies on its path (`Rests`).

For any jobs, executors and times and any workload of requests (`CoreObjectsAssumption`: a
deployment starts with finitely many objects, its global scope among them):

* `CoreInvariant`: `Spec => []CoreInv`. It adds to the properties what a running execution can
  have read (`Reading`): if its job was written since it took its snapshot, an object newer
  than all it read is stored. So it is not serializable any more, and `Written` follows: a job is
  written once.
* `ResultSafety`: `JobHasOneResult`. `ReviewSafety`: `WritesFollowReview`, from the checks of
  `PrepareMutation`. `SnapshotSafety`: `SnapshotStaysSound`, from the validation of the whole
  snapshot before each commit: the walk to the root and the elimination of parents, which the
  code does step by step, are turned into the existence of an end in every set of scopes
  and of interfaces (`AncestorsStay`, `ParentsEnd`).

The recursions behind the last two, and those of `JobClientsProofs` and `MemorySafety`, are handled
without an induction theorem: lemmas such as `Iteration` show that the iterates exist, and
`LeastNumber`, a minimal counterexample, does the induction.

Each inductive invariant was checked by TLC on the instance of its run before it was
proved.

Only model-checked:

* liveness (`JobsEnd`, `OutcomeReachesChange`, `EveryChangeEnds`): fairness is out of the
  prover's reach;
* `AdmissionMatchesEvidence` (the expiry is a minimum over a finite set, which needs an
  induction over data);
* so far the properties of the view (`ApprovalEvidenceIsAvailable`, `ViewIsTrue` of the run
  `operations`) and of the recovery catalogue (run `recovery`).

## 6. Findings

Two runs exhibit a disagreement of the code with a sentence of the repository; the
entries in `PROJECT.json` quote both.

* `restart_reapproval`: an actor who approves twice is counted twice in the version
  and stored once, and the next start refuses the row.
* `recovery_snapshot`: `ValidateRestoreDrillFreshnessSnapshotLatestCurrent` evaluates
  the drills at the snapshot's own time and so cannot see the drills after it.

Three more are counterexamples TLC finds to a small change of a configuration:

* `PROPERTY LiveLeaseEndsByHolder` in `JobWorker.cfg`: cancelling a Job that is already
  `cancel_requested` cancels it at once and drops the lease of a worker that is still
  executing.
* `Inputs = {"raw"}`, `RequestRisks = {"low"}` and `Reapproval = FALSE` in
  `RestartReapproval.cfg`: a Job exists whose Change was not updated, and the input read
  back from jsonb differs in bytes from what the Job was created with; every start fails
  on the idempotency conflict.
* `INVARIANT ExactRepeatsAreIgnored` in `IncidentOperator.cfg`: evidence collected between
  two microseconds conflicts with its own stored form when it is sent again.

A further way to keep the server from starting, a Job creation whose
answer is lost before the Job is cancelled, appears in `OrchestrationOutcome`
when `"create"` is added to `Ambiguous`.

Observations made while modelling, which no sentence of the repository contradicts:

* `TimelineEntryFromTransition` answers the renewal of a `cancel_requested` Job with an
  error, though its comment calls renewals state-neutral. No production path calls it.
* Execute is not fenced by the lease: an attempt that lost its lease may still act
  while the next one executes. The store keeps the outcome right.
* After a failed write of an approval the Change is approved in memory, is refused
  further approvals and is not enqueued until the next start.
* A retried `createChange` is answered 412 when the current revision moved on after the
  first attempt was stored but not remembered.
* The timeline of an incident has no entry reserved for its resolution; a live incident
  whose timeline is full can be neither acknowledged nor resolved.
* Two executions of one core-object Job at the same moment: one of them gets a
  serialization error rather than the stored result; the next execution gets it. A role
  assignment replaced by one that differs only in the spelling of its JSON is refused.
* The retraction `draining -> degraded -> ready` asks for readiness only; maintenance
  still requires a complete drain afterwards.
* The projection of node life cycles is empty at startup and nothing writes to it;
  offline admission, site records and edge gateway have no caller yet, and neither have
  the evidence functions of the view and manual retry.
* The freshness of an enrolment report is judged at the report's own `collected_at`.
  Heartbeats carry the agent's time, and nothing bounds a clock that runs ahead.
* The age of a recovery path counts from the health check last verified, and a complete
  workflow may rest on a path that expired before the workflow was observed.
* A Job that failed because its attempts were used up has no output, so no result
  evidence can be built for it. Evidence for a manual retry that is stamped after
  `RequestedAt` is refused, and a policy replaced between the last revalidation and the
  creating transaction goes unnoticed.
* A Change dropped from memory whose Job exists makes the view fail until its request
  is repeated.
* An approver who repeats an approval of a Change that still waits adds a record each time;
  with more than 256 of them its approval evidence cannot be built.
* `CreateManualRetry` of the two repositories names different errors for a child whose id and
  key are both taken: a conflict of keys in PostgreSQL, an existing id in memory.
* A failing audit write after a password change or a revocation is answered as an error
  although the change has taken effect; a clock that goes back before a session's
  creation makes its revocation fail on the table's constraint.

## 7. What is not modelled

* Configuration revisions (`orchestration/config`, `createRevision`) and the execution
  guard: a revision per Change and its digests across restarts would double the state of
  the server's module, which is the largest instance already.
* Blast radius, maintenance windows and semantic diffs, with the functions that attach
  them to the view: each is one evaluation of one document, without state, and without a
  caller in production.
* RBAC decisions, incident paging, audit reading and export: reads.
* `inventory`, `capacity`, `placement`, `resources`, `market`, `domain`, `pxe`, `upgrade`,
  `release`, `releasecandidate`, `automation`, `publication`, `networktelemetry`, `health`,
  `site`, `nodes`: planners and normalisation over immutable inputs. The forecasts of
  `capacity` are floating-point and out of TLC's reach.
* The web UI apart from the Changes and Jobs view, process configuration and migrations
  (table constraints are in the modules that use them), text formatting, JSON decoding.
* The stores of the Job timeline, which no production path appends to, and the cache of
  service status of `siteoffline`.

Next to prove: the view of Changes and Jobs, and the recovery catalogue.
