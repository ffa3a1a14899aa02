SPECIFICATION SceneSpec
CONSTANTS
  Jobs = {j1, j2}
  Executors = {w1, w2}
  Times = {1, 2}
  maxNetworkInterfacesPerNode = 2
  MaxExecutions = 4
  Initial <- MCInitial
  Templates <- MCTemplates
  Intents = {a, b}
  Actions = {"restart"}
  PolicyLifetime = 1
  MaxTime = 2
  MaxPolicies = 2
  MaxVersion = 3
  MaxRequests = 2
  Interfaces <- MCInterfaces
  NetworkZones <- MCZones
  Assignments <- MCAssignments
SYMMETRY Symmetry
INVARIANTS
  SnapshotStaysSound
  JobHasOneResult
  AdmittedWithinPolicy
  OfflineIntentKeepsItsBase
  GatewaySidesAreDisjoint
PROPERTY
  WritesFollowReview
CHECK_DEADLOCK FALSE
