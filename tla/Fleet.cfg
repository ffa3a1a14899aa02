CONSTANTS
  Planners = {p1, p2}
  MaxTime = 7
  Placements <- MCPlacements
  maxNetworkInterfacesPerNode = 2
  maxListed = 5
  capacityFreshnessWindow = 2
  observationSkew = 1
  TokenIDs = {t1, t2}
  Callers = {c1, c2}
  Nodes = {"n1"}
  minimumBootstrapTTL = 1
  maximumBootstrapTTL = 2
  delayedAfter = 1
  offlineAfter = 3
  leaseTTL = 1
  leaseGrace = 1
  TokenRequests <- MCTokenRequests
  ReportsAt <- MCReportsAt
  Assignments <- MCAssignments
  AdmissionSnapshot <- MCSnapshot
  MaxClock <- MCMaxClock
  MaxSkew = 1
SPECIFICATION Spec
SYMMETRY Alike
INVARIANTS PlansAreHonoured WorkFollowsDrain EnrollmentIsEarned
PROPERTIES SilenceOnlyAges
CHECK_DEADLOCK FALSE
