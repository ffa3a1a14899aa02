-------------------------- MODULE MCJobRepository --------------------------
(***************************************************************************)
(* Instances of the Job store.  One of four scenes plays:                  *)
(*   "store"    two Jobs in the store, with its in-memory twin and its     *)
(*              timeline;                                                  *)
(*   "cancel"   one Job in the store, which requests of operators cancel   *)
(*              at the version they reviewed;                              *)
(*   "retry"    two operators who retry a failed Job by hand;              *)
(*   "backoff"  one retry policy and the attempts that fail under it.      *)
(***************************************************************************)
EXTENDS MemoryRepository, JobTimeline, RetryDelay, OperatorCancel, ManualRetry, TLC

CONSTANTS k1, k2, o1, o2

VARIABLE scene                  \* which scene plays

MCKeys == {k1, k2}
MCOperators == {o1, o2}
\* The delays of a policy that doubles once and then is at its maximum.
MCDelay == [a \in 1..MaxAttempts |-> DelayAfter([base |-> 1, max |-> 2], a)]
Symmetry == Permutations(MCKeys) \cup Permutations(MCOperators)

\* A policy of one retry is replaced by one of two that needs an approval, which
\* there is.
MCPolicies ==
    <<[allows |-> TRUE, max |-> 1, fresh |-> FALSE, approval |-> 0],
      [allows |-> TRUE, max |-> 2, fresh |-> TRUE, approval |-> 1]>>

\* Of two children one after the other, the second may want the key of the first,
\* its identifier, both or none.
MCChildren == {<<"j1", "k1">>, <<"j2", "k2">>, <<"j2", "k1">>}

SceneInit ==
    /\ scene \in {"store", "cancel", "retry", "backoff"}
    /\ CancelInit /\ RetryInit /\ BackoffInit
    /\ scene # "backoff" => policy = [base |-> 1, max |-> 1]

SceneNext ==
    /\ UNCHANGED scene
    /\ \/ scene = "store" /\ Next /\ UNCHANGED <<requests, retryVars, backoffVars>>
       \/ scene = "cancel" /\ CancelNext /\ UNCHANGED <<jobs[k2], retryVars, backoffVars>>
       \/ scene = "retry" /\ RetryNext /\ UNCHANGED <<cancelVars, backoffVars>>
       \/ scene = "backoff" /\ BackoffNext /\ UNCHANGED <<cancelVars, retryVars>>

SceneSpec == SceneInit /\ [][SceneNext]_<<scene, cancelVars, retryVars, backoffVars>>
=============================================================================
