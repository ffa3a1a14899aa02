------------------------------ MODULE MCFleet -------------------------------
(* Node lifecycles and agents: a behavior is about one of the two. *)
EXTENDS Agents, NodeLifecycle, TLC

VARIABLE machine

fleetVars == <<machine, agentVars, lifecycleVars>>

MCPlacements ==
  {[kind |-> "stateful", adapter |-> "a", replicas |-> 1],
   [kind |-> "stateless", adapter |-> "", replicas |-> 0]}

Object(type, id, scope, doc) ==
  [type |-> type, id |-> id, scope |-> scope, owner |-> "global", doc |-> doc,
   generation |-> 1, version |-> 1, created |-> 1, updated |-> 1]

MCSnapshot ==
  {Object("scope", "global", "global",
          [id |-> "global", kind |-> "global", parent |-> NoID, delegated |-> {}]),
   Object("scope", "s1", "global",
          [id |-> "s1", kind |-> "site", parent |-> "global", delegated |-> {}]),
   Object("site", "site1", "s1", [id |-> "site1", scope |-> "s1"]),
   Object("management-zone", "z1", "s1",
          [id |-> "z1", scope |-> "s1", site |-> "site1"])}

Assigned(id, target, role, scope) ==
  Object("role-assignment", id, scope,
         [node |-> target, role |-> role, service |-> "svc",
          site |-> "site1", zone |-> "z1"])

MCAssignments ==
  LET agent == Assigned("a1", "n1", "agent", "s1")
      data  == Assigned("a2", "n1", "data-node", "s1")
  IN {{agent}, {agent, data}, {data},
      {agent, Assigned("a3", "n2", "data-node", "s1")},
      {Assigned("a4", "n1", "agent", "global")}}

MCMaxClock == [bootstrap |-> 3, registry |-> 6]

MCTokenRequests ==
  {[node |-> r[1], scope |-> "s1", transport |-> "ssh", ttl |-> r[2]] :
     r \in {<<"n1", 2>>, <<"n1", 3>>, <<"n2", 1>>}}

Interface(id, kind, zone, parent, vlan) ==
  [id |-> id, kind |-> kind, state |-> "up", zone |-> zone, mtu |-> 1500,
   mac |-> TRUE, addresses |-> <<"addr">>, speed |-> 10, parent |-> parent,
   vlan |-> vlan]

Measured(metric, target, value, at) ==
  [metric |-> metric, unit |-> capacityMetricDefinitions[metric].unit,
   target |-> target, value |-> value, evidence |-> "measured",
   observedAt |-> at]

\* A report that is ready, with its last measurement taken at another time.
Report(collected, observed) ==
  [contract |-> EnrollmentContractV2, node |-> "n1", hostname |-> "h1",
   site |-> "site1", zone |-> "z1", collectedAt |-> collected,
   capabilities |-> <<"inventory">>, roles |-> <<"agent">>,
   hardware |-> [machineID |-> "m", productUUID |-> NoID, serial |-> NoID,
                 architecture |-> "amd64", sockets |-> 1, physical |-> 2,
                 logical |-> 4, memory |-> 8,
                 storage |-> <<[id |-> "d1", kind |-> "ssd", capacity |-> 8]>>],
   interfaces |-> <<Interface("eth0", "physical", "lan", NoID, 0)>>,
   identity |-> [agent |-> "ag", installation |-> "in", notBefore |-> 1,
                 notAfter |-> 4, algorithm |-> "ecdsa", dnsNames |-> <<"n1">>],
   observations |->
     <<Measured("cpu_utilization", "n1", 50, collected),
       Measured("memory_used", "n1", 8, collected),
       Measured("storage_used", "d1", 8, collected),
       Measured("network_throughput", "eth0", 10, observed)>>]

LegacyReport ==
  [contract |-> "", node |-> "n1", hostname |-> "h1", site |-> NoID,
   zone |-> NoID, collectedAt |-> NoTime, capabilities |-> <<NoID, "exec">>,
   roles |-> <<>>, hardware |-> NoReport.hardware, interfaces |-> <<>>,
   identity |-> NoReport.identity, observations |-> <<>>]

MCReportsAt(t) ==
  LET base == Report(t, t)
  IN {Report(t, at) : at \in {x \in t - 3 .. t + 2 : x > 0}}
     \cup
     {LegacyReport, [LegacyReport EXCEPT !.capabilities = <<>>],
      [LegacyReport EXCEPT !.node = "n2"], [LegacyReport EXCEPT !.site = "site1"],
      [base EXCEPT !.node = "n2"],
      [base EXCEPT !.roles = <<"agent", "data-node">>],
      [base EXCEPT !.roles = <<"agent", "data-node">>,
                   !.observations =
                      Append(@, Measured("database_latency", "db", 1, t))],
      [base EXCEPT !.observations[1].evidence = "estimated"],
      [base EXCEPT !.observations[2].value = 9],
      [base EXCEPT !.observations[4].target = "eth1"],
      [base EXCEPT !.observations = Append(@, base.observations[1])],
      [base EXCEPT !.interfaces[1].state = "down"],
      [base EXCEPT !.interfaces =
         @ \o <<Interface("v1", "virtual", "lan", "v2", 0),
                Interface("v2", "virtual", "lan", "v1", 0)>>],
      [base EXCEPT !.interfaces =
         Append(@, Interface("v1", "vlan", "wan", "eth0", 7))]}

Init ==
  /\ machine \in {"agents", "lifecycle"}
  /\ AgentsInit
  /\ machine = "lifecycle" => subject = "registry"
  /\ LifecycleInit

Next ==
  /\ UNCHANGED machine
  /\ \/ machine = "agents" /\ AgentsNext /\ UNCHANGED lifecycleVars
     \/ machine = "lifecycle" /\ LifecycleNext /\ UNCHANGED agentVars

Spec == Init /\ [][Next]_fleetVars

Alike ==
  Permutations(Planners) \cup Permutations(Callers) \cup Permutations(TokenIDs)
=============================================================================
