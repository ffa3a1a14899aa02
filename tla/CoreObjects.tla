----------------------------- MODULE CoreObjects ----------------------------
(***************************************************************************)
(* The distributed core object store and the action that writes to it      *)
(* (src/internal/persistence/postgres/core_objects.go,                     *)
(* src/internal/corecontracts/memory_repository.go and actionapi/action.go) *)
(*                                                                         *)
(* A job carries one mutation request, whose precondition its author read  *)
(* when the change was written, and a key derived from the job.  Executors *)
(* run a job any number of times: a lease may expire under a running       *)
(* executor, and an executor may stop before it commits or before anyone   *)
(* learns that it did.                                                     *)
(*                                                                         *)
(* PostgreSQL takes the snapshot of a SERIALIZABLE transaction before its   *)
(* first statement waits for the advisory lock, so an executor may read a   *)
(* store that was written since.  From the lock to the commit nobody else  *)
(* writes: one step.  The memory store does all its work under a mutex.    *)
(***************************************************************************)
EXTENDS CoreContracts

CONSTANTS Jobs, Executors, Times,
          Initial,        \* workload -> the stored objects it starts from
          Templates,      \* workload -> the requests, without precondition
          MaxExecutions   \* bound: executions of all jobs together

ASSUME CoreObjectsAssumption ==
  /\ Times \subseteq Nat \ {0}
  /\ MaxExecutions \in Nat
  /\ \A load \in DOMAIN Initial :
       /\ IsFiniteSet(Initial[load])
       /\ \A o \in Initial[load] : o.version \in 0 .. 1
       /\ \E o \in Initial[load] :          \* LegacyGlobalScopeObject
             o.type = "scope" /\ o.doc.kind = "global" /\ o.id = "global"

VARIABLES backend,    \* "postgres" or "memory"
          workload,   \* which requests this run writes
          objects,    \* cc_core_objects
          receipts,   \* cc_core_object_mutations: job -> request and result
          requests,   \* job -> its mutation request
          executions, \* how many executions were started
          tx          \* executor -> the execution it is in, or its outcome

vars == <<backend, workload, objects, receipts, requests, executions, tx>>

Idle == [at |-> "idle"]

Init ==
  /\ backend \in {"postgres", "memory"}
  /\ workload \in DOMAIN Initial
  /\ objects = Initial[workload]
  /\ ValidateStoredObjects(objects)
  /\ receipts = <<>>
  /\ requests = <<>>
  /\ executions = 0
  /\ tx = [w \in Executors |-> Idle]

With(f, key, value) ==
  [k \in DOMAIN f \cup {key} |-> IF k = key THEN value ELSE f[k]]

\* getObject: the author of a replacement quotes the version it shows.
Reviewed(id) ==
  LET found == {o \in objects : o.id = id}
  IN  IF found = {} THEN NoPrecondition
      ELSE LET o == CHOOSE x \in found : TRUE
           IN  [id |-> o.id, version |-> o.version, generation |-> o.generation]

Submit(j, template) ==
  /\ j \notin DOMAIN requests
  /\ requests' = With(requests, j,
       [op |-> template.op, type |-> template.type, id |-> template.id,
        scope |-> template.scope, owner |-> template.owner, doc |-> template.doc,
        precondition |-> IF template.op = "create" THEN NoPrecondition
                         ELSE Reviewed(template.id)])
  /\ UNCHANGED <<backend, workload, objects, receipts, executions, tx>>

ReceiptsOf(key) == {receipts[k] : k \in {key} \cap DOMAIN receipts}

\* execute starts Apply: the transaction takes its snapshot and queues for
\* the lock.
Begin(w, j) ==
  /\ tx[w].at /= "running"
  /\ j \in DOMAIN requests
  /\ executions < MaxExecutions
  /\ executions' = executions + 1
  /\ tx' = [tx EXCEPT ![w] =
              [at |-> "running", job |-> j,
               objects  |-> IF backend = "memory" THEN {} ELSE objects,
               receipts |-> ReceiptsOf(j)]]
  /\ UNCHANGED <<backend, workload, objects, receipts, requests>>

\* What the execution reads: all the objects, and the receipt of its key.
Snapshot(w) ==
  IF backend = "memory"
  THEN [objects |-> objects, receipts |-> ReceiptsOf(tx[w].job)]
  ELSE [objects |-> tx[w].objects, receipts |-> tx[w].receipts]

\* A random token: no committed write reuses a version.
newVersion == Cardinality(DOMAIN receipts) + 2

StaleCommit(w) == TRUE

\* Two transactions that read the whole table and write to it are not
\* serializable when neither sees the other's write: PostgreSQL aborts the
\* second.
Serializable(w) == Snapshot(w).objects = objects

\* The UPDATE finds its row by the version of the precondition.
RowMatches(request) ==
  request.op = "replace" /\ backend = "postgres" =>
    \E o \in objects : /\ o.id = request.id
                       /\ o.type = request.type
                       /\ o.version = request.precondition.version

NoResult == [at |-> "none"]

\* How an execution ends, and whether the job's write was stored before it
\* began.
Done(w, result) ==
  tx' = [tx EXCEPT ![w] =
           [at |-> "done", job |-> tx[w].job, result |-> result,
            retried |-> tx[w].receipts /= {}]]

CurrentObject(snapshot, request) ==
  {o \in snapshot.objects : o.id = request.id /\ snapshot.receipts /= {}}

\* The receipt counts when it was written for the same request.
loadCoreMutationReceipt(snapshot, request) ==
  {receipt.result : receipt \in {x \in snapshot.receipts : x.request = request}}

\* An earlier execution of the job stored its result: the answer is that one.
Replay(w) ==
  /\ tx[w].at = "running"
  /\ \E result \in loadCoreMutationReceipt(Snapshot(w), requests[tx[w].job]) :
        Done(w, result)
  /\ UNCHANGED <<backend, workload, objects, receipts, requests, executions>>

Prepared(w, now) ==
  LET s == Snapshot(w)
  IN  IF s.receipts /= {} \/ ~ ValidateStoredObjects(s.objects)
      THEN {}
      ELSE PrepareMutation(s.objects, requests[tx[w].job], now, newVersion)

\* The object and the receipt are written in one transaction.
Apply(w, now) ==
  /\ tx[w].at = "running"
  /\ Serializable(w)
  /\ RowMatches(requests[tx[w].job])
  /\ \E next \in Prepared(w, now) :
       /\ objects' = replaceInSnapshot(objects, next)
       /\ receipts' = With(receipts, tx[w].job,
                           [request |-> requests[tx[w].job], result |-> next])
       /\ Done(w, next)
  /\ UNCHANGED <<backend, workload, requests, executions>>

\* The request is refused, or the transaction is not serializable any more.
Refuse(w, now) ==
  /\ tx[w].at = "running"
  /\ loadCoreMutationReceipt(Snapshot(w), requests[tx[w].job]) = {}
  /\ \/ Prepared(w, now) = {}
     \/ ~ Serializable(w)
     \/ ~ RowMatches(requests[tx[w].job])
  /\ Done(w, NoResult)
  /\ UNCHANGED <<backend, workload, objects, receipts, requests, executions>>

\* The executor stops: its open transaction is rolled back.  (An answer that
\* is lost leaves the store as an answer that nobody reads does.)
Crash(w) ==
  /\ tx[w].at = "running"
  /\ tx' = [tx EXCEPT ![w] = Idle]
  /\ UNCHANGED <<backend, workload, objects, receipts, requests, executions>>

Next ==
  \/ \E j \in Jobs, template \in Templates[workload] : Submit(j, template)
  \/ \E w \in Executors, j \in Jobs : Begin(w, j)
  \/ \E w \in Executors : Replay(w) \/ Crash(w)
  \/ \E w \in Executors, now \in Times : Apply(w, now) \/ Refuse(w, now)

Spec == Init /\ [][Next]_vars
-----------------------------------------------------------------------------
(* Properties *)

\* The check the worker makes of an execution's answer.
Verified(request, stored) ==
  /\ validateStoredEnvelope(stored)
  /\ stored.id = request.id
  /\ stored.type = request.type
  /\ stored.doc = request.doc

\* Whatever writers run side by side, the stored snapshot stays one a reader
\* accepts: every scope hangs under the one global scope, an owner other than
\* the root holds the authority it decides with, the controllers of a scope
\* have one service identity that no other scope uses, an interface lies on a
\* node that a role binds to its site, and parents of interfaces end.
SnapshotStaysSound ==
  LET scopes      == OfType(objects, "scope")
      assignments == OfType(objects, "role-assignment")
      interfaces  == OfType(objects, "network-interface")
      Parent(o)   == {p \in objects : p.id = o.doc.parent}
      Grants(id)  == UNION {o.doc.delegated : o \in {x \in scopes : x.id = id}}
      controllers == {a \in assignments : a.doc.role \in ControlPlaneRoles}
  IN  /\ \A S \in (SUBSET scopes) \ {{}} :
            \E o \in S : o.doc.kind = "global" \/ Parent(o) \cap S = {}
      /\ \A o \in scopes : o.doc.kind /= "global" => Parent(o) /= {}
      /\ Cardinality({o \in scopes : o.doc.kind = "global"}) = 1
      /\ \A o \in objects :
            o.owner = "global" \/ o.type = "actual-state"
              \/ (IF o.type \in {"role-assignment", "desired-state"}
                  THEN "desired-state" ELSE "configuration") \in Grants(o.owner)
      /\ \A a, b \in controllers :
            a.scope = b.scope <=> a.doc.service = b.doc.service
      /\ \A i \in interfaces : \E a \in assignments :
            a.doc.node = i.doc.node /\ a.doc.site = i.doc.site
      /\ \A S \in (SUBSET interfaces) \ {{}} :
            \E i \in S : Parent(i) \cap S = {}

\* However often a job is executed, and whoever wrote since, every answer is
\* the object that its one write stored and passes the worker's check; and an
\* execution that begins after the write was stored is answered, not refused.
JobHasOneResult ==
  \A w \in Executors : tx[w].at = "done" =>
    LET t == tx[w]
    IN  /\ t.result /= NoResult =>
             /\ t.result = receipts[t.job].result
             /\ Verified(requests[t.job], t.result)
        /\ t.retried => t.result /= NoResult

\* n replaces the version of o that the author of a request reviewed.
ReviewedWrite(o, n) ==
  /\ \E j \in DOMAIN receipts' \ DOMAIN receipts :
        /\ requests[j].precondition.version = o.version
        /\ requests[j].precondition.id = o.id
  /\ n.version /= o.version
  /\ n.updated >= o.updated
  /\ n.generation = o.generation
       + (IF o.type /= "actual-state" /\ Content(o) /= Content(n) THEN 1 ELSE 0)
  /\ o.type = "actual-state" =>
       /\ n.doc.observedAt >= o.doc.observedAt
       /\ n.doc.generation >= o.doc.generation

\* A write replaces the version its author reviewed, or creates what was not
\* there; the generation moves with the intent and by one, an observation
\* never moves back in time or generation, and nothing disappears.
WritesFollowReview ==
  [][\A o \in objects : \E n \in objects' :
       n.id = o.id /\ (n /= o => ReviewedWrite(o, n))]_vars
=============================================================================
