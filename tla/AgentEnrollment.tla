-------------------------- MODULE AgentEnrollment ---------------------------
(***************************************************************************)
(* What an agent reports of its node, and what makes the report ready for  *)
(* admission (src/internal/agent: enrollment.go, inventory.go, capacity.go, *)
(* admission.go).                                                          *)
(*                                                                         *)
(* Every list of the report is a sequence, so that a repeated entry stays  *)
(* repeated.  Identifiers are written in the lower-case form in which the  *)
(* code compares them.  The syntax of texts, addresses, fingerprints and   *)
(* serial numbers is left out, and so is the order the code sorts the      *)
(* lists into; a link speed of 0 is unknown, a VLAN id of 0 absent.  The    *)
(* limits on the length of the lists are one constant.                     *)
(***************************************************************************)
EXTENDS CoreContracts, Sequences, Functions

CONSTANTS maxListed,                \* longest list of a report
          capacityFreshnessWindow,  \* oldest observation that still counts
          observationSkew           \* how far it may lie after the collection

NoTime == 0

EnrollmentContractV1 == "v1"
EnrollmentContractV2 == "v2"

NoReport == [hardware |-> <<>>, identity |-> <<>>]

Transports == {"ssh", "winrm", "offline-bundle"}

DistinctBy(list, Key(_)) ==
  \A i, j \in DOMAIN list : Key(list[i]) = Key(list[j]) => i = j

ListOfIDs(list) ==
  /\ Len(list) \in 1 .. maxListed
  /\ \A x \in Range(list) : validateIdentifier(x.id)
  /\ LET ID(x) == x.id IN DistinctBy(list, ID)

-----------------------------------------------------------------------------
(* inventory.go *)

normalizeHardware(h) ==
  /\ {h.machineID, h.productUUID, h.serial} /= {NoID}
  /\ h.architecture \in {"amd64", "arm64"}
  /\ 0 < h.sockets /\ h.sockets <= h.physical /\ h.physical <= h.logical
  /\ h.memory > 0
  /\ ListOfIDs(h.storage)
  /\ \A device \in Range(h.storage) :
       /\ device.kind \in {"hdd", "ssd", "nvme", "other"}
       /\ device.capacity > 0

maxLinkSpeed == 10000000    \* in Mbit/s

normalizeNetworkInterfaces(list) ==
  /\ ListOfIDs(list)
  /\ \A i \in Range(list) :
       /\ i.kind \in NetworkInterfaceKinds
       /\ i.state \in {"up", "down", "unknown"}
       /\ i.zone \in NetworkZoneKinds
       /\ i.mtu \in 68 .. 65535 /\ i.speed <= maxLinkSpeed
       /\ i.kind = "physical" => i.mac
       /\ Len(i.addresses) <= maxListed
       /\ IF i.kind = "vlan" THEN i.parent /= NoID /\ i.vlan \in 1 .. 4094
                             ELSE i.vlan = 0
       /\ i.parent /= NoID =>
            /\ i.kind \in {"vlan", "virtual"}
            /\ i.parent \in {j.id : j \in Range(list)} \ {i.id}
  /\ acyclicParents([id \in {i.id : i \in Range(list)} |->
                       CHOOSE i \in Range(list) : i.id = id])

normalizeIdentity(identity) ==
  /\ validateIdentifier(identity.agent)
  /\ validateIdentifier(identity.installation)
  /\ NoTime < identity.notBefore /\ identity.notBefore < identity.notAfter
  /\ identity.algorithm \in {"rsa", "ecdsa", "ed25519"}
  /\ Len(identity.dnsNames) <= maxListed

-----------------------------------------------------------------------------
(* capacity.go *)

capacityMetricDefinitions ==
  LET Metric(unit, target, maximum) ==
        [unit |-> unit, target |-> target, maximum |-> maximum]
      unbounded == 2147483647
  IN [cpu_utilization    |-> Metric("percent", "node", 100),
      memory_used        |-> Metric("bytes", "node", unbounded),
      storage_used       |-> Metric("bytes", "storage", unbounded),
      storage_iops       |-> Metric("ops", "storage", unbounded),
      storage_latency    |-> Metric("ms", "storage", unbounded),
      storage_queue      |-> Metric("count", "storage", unbounded),
      network_throughput |-> Metric("bps", "network", unbounded),
      network_latency    |-> Metric("ms", "network", unbounded),
      network_loss       |-> Metric("percent", "network", 100),
      database_latency   |-> Metric("ms", "database", unbounded),
      database_tps       |-> Metric("tps", "database", unbounded),
      service_queue      |-> Metric("count", "service", unbounded)]

ValidCapacityMetricValue(metric, value) ==
  value \in 0 .. capacityMetricDefinitions[metric].maximum

\* A usage is of something the same report lists, and fits into it.
validateObservationTarget(o, request) ==
  LET target == capacityMetricDefinitions[o.metric].target
  IN CASE target = "node" ->
            /\ o.target = request.node
            /\ o.metric = "memory_used" => o.value <= request.hardware.memory
       [] target = "storage" ->
            \E device \in Range(request.hardware.storage) :
              /\ device.id = o.target
              /\ o.metric = "storage_used" => o.value <= device.capacity
       [] target = "network" ->
            \E i \in Range(request.interfaces) :
              /\ i.id = o.target
              /\ o.metric = "network_throughput" /\ i.speed > 0
                   => o.value <= i.speed
       [] OTHER -> validateIdentifier(o.target)

normalizeCapacityObservations(request) ==
  LET Key(o) == <<o.metric, o.target, o.observedAt>>
  IN  /\ Len(request.observations) <= maxListed
      /\ \A o \in Range(request.observations) :
           /\ o.metric \in DOMAIN capacityMetricDefinitions
           /\ o.unit = capacityMetricDefinitions[o.metric].unit
           /\ o.evidence \in {"measured", "estimated", "benchmark"}
           /\ ValidCapacityMetricValue(o.metric, o.value)
           /\ o.observedAt \in 1 .. request.collectedAt + observationSkew
           /\ validateObservationTarget(o, request)
      /\ DistinctBy(request.observations, Key)

managementPathZone(zone) == zone \in {"management", "lan", "trusted"}

requiredMetrics(roles) ==
  {"cpu_utilization", "memory_used", "storage_used", "network_throughput"}
    \cup (IF "data-node" \in roles THEN {"database_latency"} ELSE {})

FreshUnlessAhead(request) ==
  request.observations /= <<>> /\
  \A o \in Range(request.observations) :
    request.collectedAt - o.observedAt <= capacityFreshnessWindow

Fresh(request) ==
  /\ request.observations /= <<>>
  /\ \A o \in Range(request.observations) :
       /\ o.observedAt <= request.collectedAt
       /\ request.collectedAt - o.observedAt <= capacityFreshnessWindow

\* The checks of a v2 report, all of them against the time of collection.
evaluateNormalizedEnrollmentPreconditions(request) ==
  /\ request.contract = EnrollmentContractV2
  /\ "agent" \in Range(request.roles)
  /\ "inventory" \in Range(request.capabilities)
  /\ request.identity.notBefore <= request.collectedAt
  /\ request.collectedAt < request.identity.notAfter
  /\ \E i \in Range(request.interfaces) :
       managementPathZone(i.zone) /\ i.state = "up" /\ i.addresses /= <<>>
  /\ requiredMetrics(Range(request.roles)) \subseteq
       {o.metric : o \in {p \in Range(request.observations) :
                            p.evidence = "measured"}}
  /\ Fresh(request)
  /\ \A o \in Range(request.observations) : o.evidence = "measured"
-----------------------------------------------------------------------------
(* enrollment.go *)

hasV2EnrollmentFields(request) ==
  \/ request.roles /= <<>>
  \/ request.site /= NoID
  \/ request.zone /= NoID
  \/ request.collectedAt /= NoTime
  \/ request.hardware /= NoReport.hardware
  \/ request.interfaces /= <<>>
  \/ request.identity /= NoReport.identity
  \/ request.observations /= <<>>

\* A blank capability is dropped from a v1 report and refused in a v2 one.
normalizeCapabilities(values, strict) ==
  /\ Len(values) <= maxListed
  /\ strict => NoID \notin Range(values)

normalizeRoles(values) ==
  Len(values) \in 1 .. maxListed /\ Range(values) \subseteq NodeRoles

normalizeEnrollmentV2(request) ==
  /\ validateIdentifier(request.site)
  /\ validateIdentifier(request.zone)
  /\ request.collectedAt /= NoTime
  /\ normalizeCapabilities(request.capabilities, TRUE)
  /\ normalizeRoles(request.roles)
  /\ request.hardware /= NoReport.hardware
  /\ normalizeHardware(request.hardware)
  /\ normalizeNetworkInterfaces(request.interfaces)
  /\ request.identity /= NoReport.identity
  /\ normalizeIdentity(request.identity)
  /\ normalizeCapacityObservations(request)

\* Whether the report is accepted; what it means stays the same.
NormalizeEnrollment(request) ==
  /\ request.node /= NoID /\ request.hostname /= NoID
  /\ \/ /\ request.contract \in {"", EnrollmentContractV1}
        /\ ~hasV2EnrollmentFields(request)
        /\ normalizeCapabilities(request.capabilities, FALSE)
     \/ /\ request.contract = EnrollmentContractV2
        /\ normalizeEnrollmentV2(request)

-----------------------------------------------------------------------------
(* admission.go *)

\* The roles assigned are those the node reported, each once, on the node,
\* in the scope the token was issued for, at the place the node reported.
BuildEnrollmentAdmissionPlan(grant, request, assignments, t) ==
  /\ grant.token /= NoID /\ grant.consumedAt /= NoTime
  /\ grant.transport \in Transports
  /\ grant.node = request.node
  /\ request.collectedAt <= grant.consumedAt
  /\ NormalizeEnrollment(request)
  /\ evaluateNormalizedEnrollmentPreconditions(request)
  /\ assignments /= {}
  /\ \A a \in assignments :
       /\ a.doc.node = grant.node
       /\ a.scope = grant.scope
       /\ a.doc.site = request.site
       /\ a.doc.zone = request.zone
       /\ \A b \in assignments : a.doc.role = b.doc.role => a = b
  /\ {a.doc.role : a \in assignments} = Range(request.roles)
  /\ ValidateRoleAssignments(assignments, t)
=============================================================================
