---------------------------- MODULE MCOperations ----------------------------
(***************************************************************************)
(* Changes and their Jobs from two sides.  One of two scenes plays, with   *)
(* variables of its own:                                                   *)
(*   "server"  the HTTP server, its rows and its restarts, with calls that *)
(*             fail, before or after they took effect;                     *)
(*   "view"    evidence collected about a Change, and the view shown of it.*)
(***************************************************************************)
EXTENDS OrchestrationServer, TLC

CONSTANTS alice, bob, carol

VARIABLES
    scene,                                                    \* which scene plays
    now, memory, dropped, store, desk, evaluated, reader      \* "view"

People == {alice, bob, carol}

MCOutputs ==
    {[health |-> <<"healthy">>, audit |-> <<"a1">>, at |-> 0],
     [health |-> <<"healthy", "unknown">>, audit |-> <<"a1">>, at |-> 0]}

MCObservations ==
    {[point |-> "p1", pointState |-> "READY", backups |-> 1, verifiedBackups |-> 1,
      outcome |-> "PASSED", verified |-> 1, expires |-> 2]}

View == INSTANCE OperationsWorkflow
    WITH ChangeIDs <- {"c1"}, Actors <- People, Requester <- alice,
         RequestRisks <- {"low", "critical", "denied"},
         Revisions <- {"r1", "r2"}, RevisionOf <- [c \in {"c1"} |-> "r1"],
         Outputs <- MCOutputs, Observations <- MCObservations,
         Attempts <- 2, LeaseTTL <- 1, MaxTime <- 2,
         MaxApprovals <- 3, MaxApprovalEvidenceRecords <- 2

Symmetry == Permutations(People \ {alice})

viewVars == <<now, memory, dropped, store, desk, evaluated, reader>>

SceneInit == scene \in {"server", "view"} /\ Init /\ View!WorkflowInit

SceneNext ==
    /\ UNCHANGED scene
    /\ \/ scene = "server" /\ Next /\ UNCHANGED viewVars
       \/ scene = "view" /\ View!WorkflowNext /\ UNCHANGED vars

SceneSpec == SceneInit /\ [][SceneNext]_<<scene, vars, viewVars>>

\* Approval evidence can be built for every change the server holds, at any time
\* of its life, exactly as long as its approvals are within the limit of a review
\* (BuildApprovalEvidence counting approvals as the policy did).
ApprovalEvidenceIsAvailable == View!ApprovalEvidenceIsAvailable

\* What a view shows is true of the stores: no ended Change next to a Job that is
\* not, and a complete workflow is one (ChangesJobs, applyWorkflowEvidence).
ViewIsTrue == View!ViewIsTrue

=============================================================================
