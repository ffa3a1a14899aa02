------------------------- MODULE MCIncidentOperator -------------------------
EXTENDS IncidentOperator, TLC

CONSTANTS o1, o2, e1, m1, m2

MCOperators == {o1, o2}
OperatorSymmetry == Permutations(MCOperators)

\* One identity: collected between two microseconds, and with other metadata.
MCEvidenceRefs == {[id |-> e1, meta |-> m1, collected |-> 1],
                   [id |-> e1, meta |-> m2, collected |-> 2]}
=============================================================================
