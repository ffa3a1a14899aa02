SPECIFICATION Spec
CONSTANTS
  SecondTicks = 2
  StartTime = 2
  MaxTime = 7
  LastRequest = 3
  MaxAge = 1
  MaxVersion = 5
  Rank <- MCRank
INVARIANTS
  ReadyPathIsRecoverable
  DrillKeepsItsTerms
  KeptProofHolds
CHECK_DEADLOCK FALSE
