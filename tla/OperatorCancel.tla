--------------------------- MODULE OperatorCancel ---------------------------
(***************************************************************************)
(* The cancellation endpoint as production wires it                        *)
(* (cmd/control-center/orchestration_cancel_version.go and                 *)
(* orchestration_job_reconnect.go over JobRepository): an operator reads a *)
(* Job, whose version comes back as an ETag, and sends a cancellation that *)
(* carries it as If-Match.  The request may be delayed while workers move  *)
(* the Job on, lost, or delivered more than once by a retrying client.     *)
(***************************************************************************)
EXTENDS JobRepository

CONSTANT MaxRequests   \* bound: cancellations the operator sends

VARIABLE requests      \* cancellations sent: the key and the row the operator reviewed

cancelVars == <<vars, requests>>

CancelInit == Init /\ requests = {}

\* GET /jobs/{id} answers with ETag = version; the operator then asks to cancel.
ReviewAndCancel(k) ==
    /\ jobs[k].status # "absent"
    /\ Cardinality(requests) < MaxRequests
    /\ requests' = requests \cup {[key |-> k, row |-> jobs[k]]}
    /\ UNCHANGED vars

\* Mutant of Deliver: the server retries a conflict with the version it finds.
DeliverToCurrent(r) ==
    /\ RequestCancelIfVersion(r.key, jobs[r.key].version, clock)
    /\ UNCHANGED requests

\* versionBoundJobRepository.RequestCancel: a request without one positive decimal
\* version in If-Match is answered 428 or 400 before it reaches the store, and the
\* store compares the version in the UPDATE itself.  A conflict is answered 412
\* and never retried by the server.
Deliver(r) ==
    /\ RequestCancelIfVersion(r.key, r.row.version, clock)
    /\ UNCHANGED requests

\* Everything the workers and the clock do meanwhile.
Background ==
    /\ \/ \E k \in Keys : Create(k, clock)
       \/ \E k \in Keys : \E token \in leases[k], now \in Now :
             \/ RenewLease(k, token, now)
             \/ Succeed(k, token, now)
             \/ Fail(k, token, now)
       \/ \E now \in Now : Claim(now, {})
       \/ Tick
    /\ UNCHANGED requests

CancelNext ==
    \/ \E k \in Keys : ReviewAndCancel(k)
    \/ \E r \in requests : Deliver(r)
    \/ Background

CancelSpec == CancelInit /\ [][CancelNext]_cancelVars

-----------------------------------------------------------------------------
(* Properties *)

\* A cancellation changes a Job only while the Job is exactly the row the
\* operator reviewed: not one field of it (status, attempt, lease, output) was
\* written between the review and the cancellation, however late or often the
\* request arrives.
CancelActsOnReviewedRow ==
    [][\A r \in requests :
          Deliver(r) /\ jobs'[r.key] # jobs[r.key] => jobs[r.key] = r.row]_cancelVars

\* A retransmitted cancellation of a running Job never goes further than
\* cancel_requested: the worker keeps its lease and can finish in order.
RetransmissionKeepsLease ==
    [][\A r \in requests :
          Deliver(r) /\ r.row.status = "running"
             => /\ jobs'[r.key].token = jobs[r.key].token
                /\ jobs'[r.key].expires = jobs[r.key].expires]_cancelVars

\* A cancellation is bound to its review, and sent again it does no more harm
\* than once (If-Match and RequestCancelIfVersion).
CancelIsBoundToReview == CancelActsOnReviewedRow /\ RetransmissionKeepsLease
=============================================================================
