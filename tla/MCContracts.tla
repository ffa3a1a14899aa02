----------------------------- MODULE MCContracts ----------------------------
(***************************************************************************)
(* The contracts of a deployment for TLC.  One of three scenes plays, with *)
(* variables of its own: the core object store ("store"), a site that is   *)
(* cut off and comes back ("offline"), or the authorization of its edge    *)
(* gateway ("gateway").                                                    *)
(***************************************************************************)
EXTENDS CoreObjects, SiteOffline, EdgeGateway, TLC

VARIABLE scene                                              \* which scene plays

-----------------------------------------------------------------------------
(* "store": four small deployments and the requests of their jobs *)

Stored(type, id, scope, owner, doc) ==
  [type |-> type, id |-> id, scope |-> scope, owner |-> owner, doc |-> doc,
   generation |-> 1, version |-> 1, created |-> 1, updated |-> 1]

Request(op, type, id, scope, owner, doc) ==
  [op |-> op, type |-> type, id |-> id, scope |-> scope, owner |-> owner,
   doc |-> doc]

Scope(id, kind, parent, delegated) ==
  [id |-> id, kind |-> kind, parent |-> parent, delegated |-> delegated]

Role(node, role, service, site, zone) ==
  [node |-> node, role |-> role, service |-> service, site |-> site,
   zone |-> zone]

Interface(id, node, name, kind, parent, vlan) ==
  [id |-> id, node |-> node, name |-> name, kind |-> kind, scope |-> "s1",
   site |-> "site1", zone |-> "net", parent |-> parent, vlan |-> vlan]

Observation(generation, at, status) ==
  [kind |-> "config", target |-> "n1", desired |-> "want", source |-> "n1",
   generation |-> generation, observedAt |-> at, status |-> status,
   state |-> status]

\* LegacyGlobalScopeObject
Global ==
  Stored("scope", "global", "global", "global",
         Scope("global", "global", NoID, {}))

SiteObjects ==
  {Stored("scope", "s1", "global", "global",
          Scope("s1", "site", "global", {"desired-state"})),
   Stored("site", "site1", "s1", "global", [id |-> "site1", scope |-> "s1"])}

JobsAreAlike == Permutations(Jobs) \cup Permutations(Executors)

MCInitial ==
  [hierarchy |->
     {Global,
      Stored("scope", "m1", "global", "global",
             Scope("m1", "management", "global", {"configuration"})),
      Stored("scope", "m2", "global", "global",
             Scope("m2", "management", "global", {}))},
   control |-> {Global} \cup SiteObjects,
   network |->
     {Global,
      Stored("role-assignment", "a1", "s1", "global",
             Role("n1", "worker-node", "svc", "site1", NoID)),
      Stored("network-zone", "net", "s1", "global",
             [id |-> "net", kind |-> "lan", scope |-> "s1", site |-> "site1"]),
      Stored("network-interface", "i1", "s1", "global",
             Interface("i1", "n1", "eth0", "virtual", NoID, 0))} \cup SiteObjects,
   observation |->
     {Global,
      Stored("desired-state", "want", "global", "global",
             [kind |-> "config", target |-> "n1", spec |-> "a"]),
      Stored("actual-state", "got", "global", "global",
             Observation(1, 1, "progressing"))}]

MCTemplates ==
  [hierarchy |->
     {Request("replace", "scope", "m1", "m2", "global",
              Scope("m1", "management", "m2", {"configuration"})),
      Request("replace", "scope", "m2", "m1", "global",
              Scope("m2", "management", "m1", {})),
      Request("replace", "scope", "m1", "global", "global",
              Scope("m1", "management", "global", {})),
      Request("create", "scope", "r1", "m1", "m1",
              Scope("r1", "resource", "m1", {})),
      Request("create", "management-zone", "z1", "m1", "global",
              [id |-> "z1", scope |-> "m1", site |-> NoID])},
   control |->
     {Request("create", "role-assignment", "a1", "global", "global",
              Role("n1", "global-controller", "c1", NoID, NoID)),
      Request("create", "role-assignment", "a2", "s1", "s1",
              Role("n2", "site-controller", "c1", "site1", NoID)),
      Request("create", "role-assignment", "a3", "s1", "global",
              Role("n3", "controller-cluster-member", "c2", "site1", NoID)),
      Request("create", "role-assignment", "a3", "s1", "global",
              Role("n3", "edge-gateway", "c2", "site1", NoID)),
      Request("replace", "scope", "s1", "global", "global",
              Scope("s1", "site", "global", {}))},
   network |->
     {Request("replace", "role-assignment", "a1", "s1", "global",
              Role("n2", "worker-node", "svc", "site1", NoID)),
      Request("create", "network-interface", "i2", "s1", "global",
              Interface("i2", "n1", "eth1", "vlan", "i1", 7)),
      Request("create", "network-interface", "i3", "s1", "global",
              Interface("i3", "n1", "eth2", "vlan", "i1", 7)),
      Request("create", "network-interface", "i2", "s1", "global",
              Interface("i2", "n1", "eth1", "virtual", "i1", 0)),
      Request("replace", "network-interface", "i1", "s1", "global",
              Interface("i1", "n1", "eth0", "virtual", "i2", 0))},
   observation |->
     {Request("replace", "actual-state", "got", "global", "global", observed) :
        observed \in {Observation(1, 2, "converged"), Observation(2, 1, "drifted"),
                      Observation(1, 1, "failed"), Observation(2, 2, "converged")}}
     \cup {Request("replace", "desired-state", "want", "global", "global",
                   [kind |-> "config", target |-> "n1", spec |-> spec]) :
             spec \in {"a", "b"}}]

-----------------------------------------------------------------------------
(* "gateway": two interfaces to choose sides from, a bond and another node *)

MCInterfaces ==
  {[id |-> id, zone |-> IF id = "lan0" THEN "z-lan" ELSE "z-wan",
    node |-> IF id = "far0" THEN "n2" ELSE "n1", site |-> "site1", scope |-> "s1"] :
     id \in {"wan0", "lan0", "bond0", "far0"}}

MCZones ==
  {[id |-> "z-lan", kind |-> "lan", site |-> "site1", scope |-> "s1"],
   [id |-> "z-wan", kind |-> "wan", site |-> "site1", scope |-> "s1"]}

MCAssignments ==
  {[id |-> id, scope |-> "s1", owner |-> "owner", generation |-> 1, version |-> 1,
    created |-> 1, updated |-> 1, service |-> "svc", site |-> "site1",
    role |-> IF id = "ra3" THEN "worker" ELSE "edge-gateway", node |-> "n1"] :
     id \in {"ra1", "ra2", "ra3"}}

SceneInit ==
  /\ scene \in {"store", "offline", "gateway"}
  /\ Init /\ OfflineInit /\ EdgeInit
  /\ scene /= "store" => backend = "memory" /\ workload = "hierarchy"

SceneNext ==
  /\ UNCHANGED scene
  /\ \/ scene = "store" /\ Next /\ UNCHANGED <<offlineVars, edgeVars>>
     \/ scene = "offline" /\ OfflineNext /\ UNCHANGED <<vars, edgeVars>>
     \/ scene = "gateway" /\ EdgeNext /\ UNCHANGED <<vars, offlineVars>>

SceneSpec == SceneInit /\ [][SceneNext]_<<scene, vars, offlineVars, edgeVars>>

Symmetry == JobsAreAlike \cup Permutations(Intents)
=============================================================================
