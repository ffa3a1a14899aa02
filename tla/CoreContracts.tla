--------------------------- MODULE CoreContracts ----------------------------
(***************************************************************************)
(* The typed documents of the distributed core and the validation of a     *)
(* complete snapshot (src/internal/corecontracts: topology.go, roles.go,   *)
(* state.go, network.go, objects.go).                                      *)
(*                                                                         *)
(* A snapshot is a set of stored objects: envelopes with a type and a      *)
(* document.  A topology is built from the documents of three types, each  *)
(* given as the set of its objects, so that two objects with one document  *)
(* stay two.  The authorities delegated to a scope are a set.              *)
(*                                                                         *)
(* A document is a record of the fields that other documents refer to or   *)
(* that a successor may not change.  Decoding, display names, addresses,   *)
(* MTU, link speed and MAC syntax are left out; names are written in the   *)
(* lower-case form in which the code compares them, and the payload of a   *)
(* desired or actual state is one value.                                   *)
(***************************************************************************)
EXTENDS ObjectMetadata, FiniteSets

-----------------------------------------------------------------------------
(* topology.go: the scope hierarchy with its sites and management zones *)

ScopeKinds == {"global", "management", "site", "resource"}

DelegatedAuthorities ==
  {"rbac", "policy", "configuration", "desired-state", "applications"}

OfType(snapshot, type) == {o \in snapshot : o.type = type}

\* No two objects of the set have documents with the same value of a field.
DistinctDocuments(objects, Key(_)) ==
  \A o, p \in objects : Key(o.doc) = Key(p.doc) => o = p

\* The documents of a set of objects as the map of the code, by document id.
ByID(objects) ==
  [id \in {o.doc.id : o \in objects} |->
     (CHOOSE o \in objects : o.doc.id = id).doc]

validateScope(scope) ==
  /\ validateIdentifier(scope.id)
  /\ scope.kind \in ScopeKinds
  /\ IF scope.kind = "global"
     THEN scope.parent = NoID /\ scope.delegated = {}
     ELSE validateIdentifier(scope.parent) /\ scope.parent /= scope.id
  /\ scope.delegated \subseteq DelegatedAuthorities

\* The scopes met on the way up from a scope, itself first.  The code walks
\* until it meets the global scope, a scope it does not know, or a cycle: in
\* as many steps as there are scopes.
Ancestors(t, id) ==
  LET up[n \in 0 .. Cardinality(DOMAIN t.scopes)] ==
        IF n = 0 THEN {id}
        ELSE up[n - 1] \cup
               {t.scopes[s].parent :
                  s \in {x \in up[n - 1] \cap DOMAIN t.scopes :
                           t.scopes[x].kind /= "global"}}
  IN  up[Cardinality(DOMAIN t.scopes)]

Contains(t, ancestor, descendant) ==
  /\ {ancestor, descendant} \subseteq DOMAIN t.scopes
  /\ ancestor \in Ancestors(t, descendant)

\* Only the grants made to the scope itself count.
IsDelegated(t, scope, authority) ==
  /\ scope \in DOMAIN t.scopes
  /\ authority \in t.scopes[scope].delegated

validatePathToRoot(t, id) == t.root \in Ancestors(t, id)

validateSite(t, site) ==
  /\ validateIdentifier(site.id)
  /\ site.scope \in DOMAIN t.scopes
  /\ t.scopes[site.scope].kind = "site"

validateManagementZone(t, zone) ==
  /\ validateIdentifier(zone.id)
  /\ zone.scope \in DOMAIN t.scopes
  /\ \/ zone.site = NoID
     \/ /\ zone.site \in DOMAIN t.sites
        /\ Contains(t, t.sites[zone.site].scope, zone.scope)

GlobalScopes(snapshot) ==
  {o \in OfType(snapshot, "scope") : o.doc.kind = "global"}

\* The index that the checks below and the other contracts look things up in.
TopologyOf(snapshot) ==
  [root   |-> (CHOOSE o \in GlobalScopes(snapshot) : TRUE).doc.id,
   scopes |-> ByID(OfType(snapshot, "scope")),
   sites  |-> ByID(OfType(snapshot, "site")),
   zones  |-> ByID(OfType(snapshot, "management-zone"))]

\* NewTopology succeeds: one global root, every scope under it, every site at
\* a site scope of its own, every management zone in a known place.
NewTopology(snapshot) ==
  LET scopes == OfType(snapshot, "scope")
      sites  == OfType(snapshot, "site")
      zones  == OfType(snapshot, "management-zone")
      ID(doc) == doc.id
      Place(doc) == doc.scope
  IN  /\ \A o \in scopes : validateScope(o.doc)
      /\ DistinctDocuments(scopes, ID)
      /\ Cardinality(GlobalScopes(snapshot)) = 1
      /\ \A o \in scopes \ GlobalScopes(snapshot) :
            \E p \in scopes : p.doc.id = o.doc.parent
      /\ LET t == TopologyOf(snapshot)
         IN  /\ \A o \in scopes : validatePathToRoot(t, o.doc.id)
             /\ \A o \in sites : validateSite(t, o.doc)
             /\ DistinctDocuments(sites, ID)
             /\ DistinctDocuments(sites, Place)
             /\ \A o \in zones : validateManagementZone(t, o.doc)
             /\ DistinctDocuments(zones, ID)

-----------------------------------------------------------------------------

ObjectTypes ==
  {"scope", "site", "management-zone", "network-zone", "network-interface",
   "role-assignment", "desired-state", "actual-state"}

NodeRoles ==
  {"management-node", "global-controller", "site-controller",
   "controller-cluster-member", "worker-node", "managed-node", "agent",
   "data-node", "consensus-node", "repository-node", "telemetry-node",
   "backup-repository-node", "edge-gateway"}

ControlPlaneRoles ==
  {"global-controller", "site-controller", "controller-cluster-member"}

ActualStateStatuses ==
  {"converged", "progressing", "drifted", "failed", "unknown"}

\* The owner of an object is the root, or a scope above the object's that was
\* itself granted the authority.
OwnedUnder(t, owner, scope, authority) ==
  /\ Contains(t, owner, scope)
  /\ owner = t.root \/ IsDelegated(t, owner, authority)

-----------------------------------------------------------------------------
(* roles.go *)

ValidateRoleAssignment(a, t) ==
  LET kind == t.scopes[a.scope].kind
      atSite == /\ a.doc.site /= NoID
                /\ t.sites[a.doc.site].scope = a.scope
  IN  /\ ValidateMetadata(a)
      /\ validateIdentifier(a.doc.node)
      /\ validateIdentifier(a.doc.service)
      /\ a.doc.role \in NodeRoles
      /\ a.scope \in DOMAIN t.scopes
      /\ OwnedUnder(t, a.owner, a.scope, "desired-state")
      /\ \/ a.doc.site = NoID
         \/ /\ a.doc.site \in DOMAIN t.sites
            /\ Contains(t, t.sites[a.doc.site].scope, a.scope)
      /\ CASE a.doc.role = "global-controller" ->
                kind = "global" /\ a.doc.site = NoID
           [] a.doc.role = "site-controller" ->
                kind = "site" /\ atSite
           [] a.doc.role = "controller-cluster-member" ->
                \/ kind = "global" /\ a.doc.site = NoID
                \/ kind = "site" /\ atSite
           [] a.doc.role = "edge-gateway" -> a.doc.site /= NoID
           [] OTHER -> TRUE
      /\ \/ a.doc.zone = NoID
         \/ /\ a.doc.zone \in DOMAIN t.zones
            /\ Contains(t, t.zones[a.doc.zone].scope, a.scope)
            /\ \/ NoID \in {a.doc.site, t.zones[a.doc.zone].site}
               \/ a.doc.site = t.zones[a.doc.zone].site

\* A role may move to another node or place, its identity may not change.
ValidateRoleAssignmentSuccessor(current, next, t) ==
  /\ ValidateRoleAssignment(current, t)
  /\ ValidateRoleAssignment(next, t)
  /\ current.doc.role = next.doc.role
  /\ current.doc.service = next.doc.service
  /\ ValidateSuccessor(current, next,
       <<current.doc.node, current.scope, current.owner,
         current.doc.site, current.doc.zone>>
         /= <<next.doc.node, next.scope, next.owner,
              next.doc.site, next.doc.zone>>)

\* The controllers of a scope share one service identity, which is no other
\* scope's, and no binding is repeated.
ValidateRoleAssignments(assignments, t) ==
  LET Controls(a) == a.doc.role \in ControlPlaneRoles
  IN  /\ \A a \in assignments : ValidateRoleAssignment(a, t)
      /\ \A a, b \in assignments :
           /\ <<a.doc.node, a.doc.role, a.doc.service>>
                = <<b.doc.node, b.doc.role, b.doc.service>> => a = b
           /\ Controls(a) /\ Controls(b) =>
                (a.scope = b.scope <=> a.doc.service = b.doc.service)

-----------------------------------------------------------------------------
(* state.go *)

ValidateDesiredState(o, t) ==
  /\ ValidateMetadata(o)
  /\ o.scope \in DOMAIN t.scopes
  /\ OwnedUnder(t, o.owner, o.scope, "desired-state")
  /\ validateIdentifier(o.doc.target)
  /\ validateIdentifier(o.doc.kind)

ValidateActualState(o, t) ==
  /\ ValidateMetadata(o)
  /\ o.scope \in DOMAIN t.scopes
  /\ Contains(t, o.owner, o.scope)
  /\ \A field \in {o.doc.target, o.doc.desired, o.doc.source, o.doc.kind} :
        validateIdentifier(field)
  /\ o.doc.status \in ActualStateStatuses
  /\ o.doc.observedAt > 0

-----------------------------------------------------------------------------
(* network.go *)

NetworkZoneKinds ==
  {"unassigned", "wan", "lan", "management", "dmz", "cluster", "storage",
   "backup", "trusted"}

NetworkInterfaceKinds == {"physical", "bond", "bridge", "vlan", "virtual"}

validateNetworkZone(zone, t) ==
  /\ validateIdentifier(zone.id)
  /\ zone.kind \in NetworkZoneKinds
  /\ zone.site \in DOMAIN t.sites
  /\ Contains(t, t.sites[zone.site].scope, zone.scope)

\* An interface lies inside its zone and its site, on a node that some role
\* assignment binds to the site.
validateNetworkInterface(i, zones, assignments, t) ==
  /\ validateIdentifier(i.id)
  /\ i.kind \in NetworkInterfaceKinds
  /\ i.site \in DOMAIN t.sites
  /\ Contains(t, t.sites[i.site].scope, i.scope)
  /\ i.zone \in DOMAIN zones
  /\ zones[i.zone].site = i.site
  /\ Contains(t, zones[i.zone].scope, i.scope)
  /\ \E a \in assignments : a.doc.site = i.site /\ a.doc.node = i.node
  /\ IF i.kind = "vlan" THEN i.parent /= NoID /\ i.vlan \in 1 .. 4094
                        ELSE i.vlan = 0
  /\ i.parent /= NoID => i.kind \in {"vlan", "virtual"}

\* Following the parents of an interface never comes back to it.
acyclicParents(interfaces) ==
  LET above[n \in 0 .. Cardinality(DOMAIN interfaces)] ==
        IF n = 0 THEN {i \in DOMAIN interfaces : interfaces[i].parent = NoID}
        ELSE above[n - 1] \cup
               {i \in DOMAIN interfaces : interfaces[i].parent \in above[n - 1]}
  IN  above[Cardinality(DOMAIN interfaces)] = DOMAIN interfaces

CONSTANT maxNetworkInterfacesPerNode

ValidateNetworkContracts(snapshot, t) ==
  LET zoneObjects == OfType(snapshot, "network-zone")
      objects     == OfType(snapshot, "network-interface")
      assignments == OfType(snapshot, "role-assignment")
      interfaces  == ByID(objects)
      ID(doc)     == doc.id
      Name(doc)   == <<doc.node, doc.name>>
  IN  /\ \A o \in zoneObjects : validateNetworkZone(o.doc, t)
      /\ DistinctDocuments(zoneObjects, ID)
      /\ \A o \in objects :
            validateNetworkInterface(o.doc, ByID(zoneObjects), assignments, t)
      /\ DistinctDocuments(objects, ID)
      /\ DistinctDocuments(objects, Name)
      /\ \A o \in objects :
            Cardinality({p \in objects : p.doc.node = o.doc.node})
              <= maxNetworkInterfacesPerNode
      /\ \A i \in {o.doc : o \in objects} :
           i.parent /= NoID =>
             /\ i.parent \in DOMAIN interfaces \ {i.id}
             /\ LET p == interfaces[i.parent]
                IN  <<p.node, p.site, p.scope>> = <<i.node, i.site, i.scope>>
             /\ \A j \in {o.doc : o \in objects} :
                  i.kind = "vlan" /\ j.kind = "vlan"
                    /\ <<i.node, i.parent, i.vlan>> = <<j.node, j.parent, j.vlan>>
                    => i = j
      /\ acyclicParents(interfaces)
-----------------------------------------------------------------------------
(* objects.go *)

\* The envelope of an object agrees with its document, and its owner may
\* decide over it.
validateTypedObject(o, t) ==
  CASE o.type = "scope" ->
         /\ o.doc.id = o.id
         /\ IF o.doc.kind = "global"
            THEN o.scope = o.id /\ o.owner = o.id
            ELSE /\ o.scope = o.doc.parent
                 /\ OwnedUnder(t, o.owner, o.id, "configuration")
    [] o.type \in {"site", "management-zone",
                   "network-zone", "network-interface"} ->
         /\ o.doc.id = o.id
         /\ o.doc.scope = o.scope
         /\ OwnedUnder(t, o.owner, o.scope, "configuration")
    [] o.type = "role-assignment" -> ValidateRoleAssignment(o, t)
    [] o.type = "desired-state"   -> ValidateDesiredState(o, t)
    [] o.type = "actual-state"    -> ValidateActualState(o, t)

validateStoredEnvelope(o) == ValidateMetadata(o) /\ o.type \in ObjectTypes

ValidateStoredObjects(snapshot) ==
  /\ snapshot /= {}
  /\ \A o \in snapshot : validateStoredEnvelope(o)
  /\ \A o, p \in snapshot : o.id = p.id => o = p
  /\ NewTopology(snapshot)
  /\ LET t == TopologyOf(snapshot)
     IN  /\ \A o \in snapshot : validateTypedObject(o, t)
         /\ ValidateRoleAssignments(OfType(snapshot, "role-assignment"), t)
         /\ ValidateNetworkContracts(snapshot, t)

replaceInSnapshot(snapshot, next) ==
  {o \in snapshot : o.id /= next.id} \cup {next}

\* What the replacement of a document may not change: the fields that give
\* the object its identity, and the order of observations.
validateTypedSuccessor(current, next, snapshot) ==
  LET objects == replaceInSnapshot(snapshot, next)
      before  == current.doc
      after   == next.doc
  IN  /\ NewTopology(objects)
      /\ CASE current.type = "scope" -> before.kind = after.kind
           [] current.type = "role-assignment" ->
                ValidateRoleAssignmentSuccessor(current, next, TopologyOf(objects))
           [] current.type = "network-zone" ->
                <<before.kind, before.site>> = <<after.kind, after.site>>
           [] current.type = "network-interface" ->
                <<before.node, before.kind, before.site>>
                  = <<after.node, after.kind, after.site>>
           [] current.type = "desired-state" ->
                <<before.kind, before.target>> = <<after.kind, after.target>>
           [] current.type = "actual-state" ->
                /\ <<before.kind, before.target, before.desired, before.source>>
                     = <<after.kind, after.target, after.desired, after.source>>
                /\ after.generation >= before.generation
                /\ after.observedAt >= before.observedAt
                /\ <<before.generation, before.observedAt>>
                     = <<after.generation, after.observedAt>> =>
                       <<before.status, before.state>> = <<after.status, after.state>>
           [] OTHER -> TRUE

\* The content of an object as it was asked for.
Content(o) == <<o.scope, o.owner, o.doc>>

\* The object a request stores, as a set: empty when the request is refused.
PrepareMutation(snapshot, r, now, version) ==
  LET current == {o \in snapshot : o.id = r.id}
      Next(generation, created) ==
        [id |-> r.id, type |-> r.type, scope |-> r.scope, owner |-> r.owner,
         doc |-> r.doc, generation |-> generation, version |-> version,
         created |-> created, updated |-> now]
      created == {n \in {Next(1, now)} :
                    current = {} /\ r.precondition = NoPrecondition}
      replaced ==
        {n \in {Next(c.generation +
                      (IF Content(c) /= Content(r) /\ r.type /= "actual-state"
                       THEN 1 ELSE 0), c.created) : c \in current} :
           \A c \in current :
             /\ r.precondition /= NoPrecondition
             /\ ValidateAgainst(r.precondition, c)
             /\ r.type = c.type
             /\ validateTypedSuccessor(c, n, snapshot)
             /\ ValidateSuccessor(c, n, /\ Content(c) /= Content(r)
                                        /\ r.type /= "actual-state")}
  IN  {n \in (IF r.op = "create" THEN created ELSE replaced) :
         ValidateStoredObjects(replaceInSnapshot(snapshot, n))}
=============================================================================
