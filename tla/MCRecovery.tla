----------------------------- MODULE MCRecovery -----------------------------
(***************************************************************************)
(* Small instances of RecoveryCatalog: clocks of six half-second ticks, a  *)
(* verification that ages in one second, backups of which one builds on    *)
(* another, two drills and a restore.                                      *)
(***************************************************************************)
EXTENDS RecoveryCatalog

MCRank == [r1 |-> 1, r2 |-> 2, x1 |-> 3]

Spec == InitRecovery /\ [][NextRecovery]_recoveryVars
=============================================================================
