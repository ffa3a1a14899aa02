----------------------------- MODULE RetryDelay -----------------------------
(***************************************************************************)
(* job.RetryDelay (job/retry.go): exponential backoff in the fixed-width   *)
(* signed arithmetic of time.Duration. A policy is [base, max]; both may   *)
(* be any Duration, negative ones included.  The state is one Job whose    *)
(* attempts fail one after another: the calls JobRepository.Fail makes     *)
(* under the policy the worker hands it.                                   *)
(***************************************************************************)
EXTENDS Integers

CONSTANTS
    maxRetryDelay,  \* the largest Duration, 1<<63 - 1
    Second,         \* time.Second, the default base delay
    MaxFailures     \* bound: attempts looked at

ASSUME DurationAssumption ==
    maxRetryDelay \in Nat /\ Second \in 1..maxRetryDelay /\ MaxFailures \in Nat

VARIABLES
    policy,    \* job.RetryPolicy
    failures,  \* current.Attempt, 0 before the first failure
    delay      \* RetryDelay(failures, policy)

backoffVars == <<policy, failures, delay>>

Durations == (-maxRetryDelay - 1)..maxRetryDelay

\* Two's complement: what the machine makes of an integer.
Wrap(n) == ((n + maxRetryDelay + 1) % (2 * maxRetryDelay + 2)) - maxRetryDelay - 1

\* Mutant of Double: without the overflow check.
DoubleWrapping(loop, max) ==
    IF loop.returned THEN loop
    ELSE IF max > 0 /\ loop.delay >= max THEN [delay |-> max, returned |-> TRUE]
    ELSE [delay |-> Wrap(loop.delay * 2), returned |-> FALSE]

\* One pass of the loop body; a returned value ends the loop.
Double(loop, max) ==
    IF loop.returned THEN loop
    ELSE IF max > 0 /\ loop.delay >= max THEN [delay |-> max, returned |-> TRUE]
    ELSE IF loop.delay > maxRetryDelay \div 2
    THEN [delay |-> IF max > 0 THEN max ELSE maxRetryDelay, returned |-> TRUE]
    ELSE [delay |-> Wrap(loop.delay * 2), returned |-> FALSE]

BaseDelay(p) == IF p.base <= 0 THEN Second ELSE p.base

\* for i := 1; i < attempt; i++
Loop(p, n) ==
    LET run[i \in 1..n] ==
           IF i = 1 THEN [delay |-> BaseDelay(p), returned |-> FALSE]
           ELSE Double(run[i - 1], p.max)
    IN run[n]

DelayAfter(p, n) ==
    IF p.max > 0 /\ BaseDelay(p) >= p.max THEN p.max
    ELSE LET loop == Loop(p, IF n < 1 THEN 1 ELSE n)
         IN IF loop.returned THEN loop.delay
            ELSE IF p.max > 0 /\ loop.delay > p.max THEN p.max ELSE loop.delay

BackoffInit ==
    /\ policy \in [base : Durations, max : Durations]
    /\ failures = 0
    /\ delay = DelayAfter(policy, 0)

BackoffNext ==
    /\ failures < MaxFailures
    /\ failures' = failures + 1
    /\ delay' = DelayAfter(policy, failures')
    /\ UNCHANGED policy

BackoffSpec == BackoffInit /\ [][BackoffNext]_backoffVars

-----------------------------------------------------------------------------
(* Properties *)

\* d doubled n - 1 times, in the integers.
Doubled(d, n) ==
    LET exact[i \in 1..n] == IF i = 1 THEN d ELSE 2 * exact[i - 1]
    IN exact[n]

\* RetryDelay is the exact doubling base * 2^(attempt-1), cut off at MaxDelay or,
\* without one, at the largest Duration, for every policy and attempt: it never
\* wraps to a negative delay.
DelayIsSaturatedDoubling ==
    LET exact == Doubled(BaseDelay(policy), IF failures = 0 THEN 1 ELSE failures)
        limit == IF policy.max > 0 THEN policy.max ELSE maxRetryDelay
    IN delay = IF exact < limit THEN exact ELSE limit
=============================================================================
