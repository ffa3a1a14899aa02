---------------------------- MODULE EdgeGateway -----------------------------
(***************************************************************************)
(* The authorization of edge gateway plans                                 *)
(* (src/internal/edgegateway/authorization.go).                            *)
(*                                                                         *)
(* Roles are assigned and interfaces re-parented, into cycles and across   *)
(* nodes if need be: the inventory is the caller's and not validated.      *)
(* Decoding and the plan's digest are left out, and so are the codes of    *)
(* the denials.                                                            *)
(***************************************************************************)
EXTENDS ObjectMetadata, FiniteSets

CONSTANTS Interfaces,   \* the network interfaces, without their parents
          Assignments,  \* the role assignments that may be made
          NetworkZones  \* the network zones

ASSUME EdgeAssumption == IsFiniteSet(Interfaces)

VARIABLES parents,      \* interface -> the identifier of its parent
          assigned,     \* the assignments in the inventory
          authorized    \* the request of the plan that was emitted

\* The forwarding baseline; the bounds of its change plans play no part here.
Baseline == INSTANCE NetworkPlan WITH MaxPhaseTimeout <- 1, MaxInterfaces <- 1,
                                      MaxForwarding <- 1, MaxProbes <- 1

edgeVars == <<parents, assigned, authorized>>

NotAuthorized == [operation |-> ""]

ZoneKinds ==
  {"unassigned", "wan", "lan", "management", "dmz", "cluster", "storage",
   "backup", "trusted"}

Capabilities ==
  [routing |-> "routing.plan", nat |-> "nat.plan",
   port_forwarding |-> "port_forwarding.plan"]

validateRequest(r) ==
  /\ r.operation \in DOMAIN Capabilities
  /\ r.mode = "plan"
  /\ \A id \in {r.node, r.scope, r.site, r.wan, r.lan} : validateIdentifier(id)

\* The assignments that make the target an edge gateway, in its own boundary.
explicitEdgeAssignment(r, assignments) ==
  {a \in assignments : /\ a.role = "edge-gateway"
                       /\ a.node = r.node /\ a.scope = r.scope /\ a.site = r.site
                       /\ ValidateMetadata(a)
                       /\ validateIdentifier(a.service)}

indexInterfaces(interfaces) ==
  /\ \A i \in interfaces : validateIdentifier(i.id) /\ validateIdentifier(i.zone)
  /\ \A i, j \in interfaces : i.id = j.id => i = j

indexZones(zones) ==
  /\ \A z \in zones : validateIdentifier(z.id) /\ z.kind \in ZoneKinds
  /\ \A z, y \in zones : z.id = y.id => z = y

Boundary(x) == <<x.node, x.site, x.scope>>

ParentOnly(i, interfaces) == IF i.parent = NoID THEN i.id ELSE i.parent

\* The interface at the end of the parents; NoID when a parent is missing, is
\* met again or lies across a boundary.
interfaceRoot(i, interfaces) ==
  LET Parents(x) ==
        {p \in interfaces : p.id = x.parent /\ Boundary(p) = Boundary(x)}
      up[n \in 0 .. Cardinality(interfaces)] ==
        IF n = 0 THEN {i} ELSE UNION {Parents(x) : x \in up[n - 1]}
      roots == {x \in UNION {up[n] : n \in DOMAIN up} : x.parent = NoID}
  IN  IF roots = {} THEN NoID ELSE (CHOOSE x \in roots : TRUE).id

zoneMatchesTarget(z, r) == z.site = r.site /\ z.scope = r.scope

BuildAuthorizationPlan(r, assignments, interfaces, zones) ==
  LET wan == CHOOSE i \in interfaces : i.id = r.wan
      lan == CHOOSE i \in interfaces : i.id = r.lan
      ZoneOf(i) == CHOOSE z \in zones : z.id = i.zone
  IN  /\ validateRequest(r)
      /\ Cardinality(explicitEdgeAssignment(r, assignments)) = 1
      /\ validateIdentifier(r.approval) /\ validateIdentifier(r.policy)
      /\ r.decision = "approved"
      /\ r.capability = Capabilities[r.operation]
      /\ r.wan /= r.lan
      /\ indexInterfaces(interfaces)
      /\ {r.wan, r.lan} \subseteq {i.id : i \in interfaces}
      /\ Boundary(wan) = Boundary(r) /\ Boundary(lan) = Boundary(r)
      /\ interfaceRoot(wan, interfaces) /= NoID
      /\ interfaceRoot(lan, interfaces) /= NoID
      /\ interfaceRoot(wan, interfaces) /= interfaceRoot(lan, interfaces)
      /\ indexZones(zones)
      /\ {wan.zone, lan.zone} \subseteq {z.id : z \in zones}
      /\ zoneMatchesTarget(ZoneOf(wan), r) /\ zoneMatchesTarget(ZoneOf(lan), r)
      /\ ZoneOf(wan).kind = "wan" /\ ZoneOf(lan).kind = "lan"
      /\ Baseline!AuthorizeForwarding([source |-> "WAN", destination |-> "LAN",
                                       enabled |-> TRUE, gateway |-> TRUE])
-----------------------------------------------------------------------------

Ids == {i.id : i \in Interfaces}

Inventory ==
  {[id |-> i.id, zone |-> i.zone, node |-> i.node, site |-> i.site, scope |-> i.scope,
    parent |-> parents[i.id]] : i \in Interfaces}

EdgeInit ==
  /\ parents = [id \in Ids |-> NoID]
  /\ assigned = {}
  /\ authorized = NotAuthorized

\* The owner of an interface changes its parent.
Reparent(id, parent) ==
  /\ authorized = NotAuthorized
  /\ parents' = [parents EXCEPT ![id] = parent]
  /\ UNCHANGED <<assigned, authorized>>

\* Role assignments come and go.
Reassign(a) ==
  /\ authorized = NotAuthorized
  /\ assigned' = IF a \in assigned THEN assigned \ {a} ELSE assigned \cup {a}
  /\ UNCHANGED <<parents, authorized>>

Authorize(r) ==
  /\ authorized = NotAuthorized
  /\ BuildAuthorizationPlan(r, assigned, Inventory, NetworkZones)
  /\ authorized' = r
  /\ UNCHANGED <<parents, assigned>>

Requests ==
  [node : {i.node : i \in Interfaces}, scope : {i.scope : i \in Interfaces},
   site : {i.site : i \in Interfaces}, mode : {"plan", "apply"},
   operation : DOMAIN Capabilities, wan : Ids, lan : Ids,
   capability : {Capabilities["routing"], Capabilities["nat"]},
   approval : {"approval1"}, policy : {NoID, "policy1"},
   decision : {"approved", "rejected"}]

EdgeNext ==
  \/ \E id \in Ids, parent \in Ids \cup {NoID, "missing"} : Reparent(id, parent)
  \/ \E a \in Assignments : Reassign(a)
  \/ \E r \in Requests : Authorize(r)

EdgeSpec == EdgeInit /\ [][EdgeNext]_edgeVars

-----------------------------------------------------------------------------
(* Properties *)

\* The interfaces that an interface rests on: the smallest set that holds it
\* and the parent of every member.
RestsOn(id) ==
  {x \in Ids : \A S \in SUBSET Ids :
     id \in S /\ (\A y \in S : parents[y] \in Ids => parents[y] \in S) => x \in S}

\* A plan is authorized only for one gateway role of the very node, and only
\* when the WAN and the LAN side share no interface at any depth, all of them
\* on that node: no shared trunk or bond carries both, whatever the parents
\* have become (BuildAuthorizationPlan, interfaceRoot).
GatewaySidesAreDisjoint ==
  authorized /= NotAuthorized =>
    LET wan == RestsOn(authorized.wan)
        lan == RestsOn(authorized.lan)
    IN  /\ wan \cap lan = {}
        /\ \A i \in Interfaces :
             i.id \in wan \cup lan => Boundary(i) = Boundary(authorized)
        /\ \E a \in assigned : /\ a.role = "edge-gateway"
                                /\ Boundary(a) = Boundary(authorized)
=============================================================================
