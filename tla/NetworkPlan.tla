---------------------------- MODULE NetworkPlan ----------------------------
(***************************************************************************)
(* Network change plans (internal/networkpolicy/change_plan.go, policy.go): *)
(* what BuildChangePlan accepts.                                            *)
(*                                                                         *)
(* A plan is a record                                                       *)
(*   revision    the desired-state revision it was computed for             *)
(*   interfaces  interface id -> [zone, changed]                            *)
(*   probes      probe id -> [kind, interface, zone]                        *)
(*   forwarding  set of [source, destination, enabled, gateway]             *)
(*   timeouts    phase -> duration                                          *)
(* The lists of the code are keyed by id here, because a duplicate id is    *)
(* refused and the canonical order is the order of the ids. The plan itself *)
(* stands for its PlanID, a digest of all of it. Identifiers are model      *)
(* values: their spelling is not modelled.                                  *)
(***************************************************************************)
EXTENDS Integers, FiniteSets

CONSTANTS
    MaxPhaseTimeout,    \* maxPhaseTimeout, in ticks
    MaxInterfaces,      \* maxInterfacesPerPlan
    MaxForwarding,      \* maxForwardingIntents
    MaxProbes           \* maxProbesPerPlan

ASSUME PlanAssumption ==
    /\ MaxPhaseTimeout \in Nat
    /\ MaxInterfaces \in Nat
    /\ MaxForwarding \in Nat
    /\ MaxProbes \in Nat

Zones == {"WAN", "LAN", "MANAGEMENT", "DMZ", "CLUSTER", "STORAGE", "BACKUP"}
ProbeKinds == {"link_state", "zone_reachability", "control_plane"}
Phases == {"snapshot", "preflight", "apply_window", "probe", "rollback"}

\* Same-zone traffic is not routed; WAN needs the Edge Gateway role as well.
AuthorizeForwarding(intent) ==
    /\ intent.source \in Zones
    /\ intent.destination \in Zones
    /\ \/ intent.source = intent.destination
       \/ /\ intent.enabled
          /\ "WAN" \in {intent.source, intent.destination} => intent.gateway

ValidTimeouts(t) ==
    /\ \A phase \in Phases : t[phase] > 0 /\ t[phase] <= MaxPhaseTimeout
    /\ t["probe"] <= t["apply_window"]

ValidInterfaces(interfaces) ==
    /\ Cardinality(DOMAIN interfaces) \in 1..MaxInterfaces
    /\ \A i \in DOMAIN interfaces : interfaces[i].zone \in Zones
    /\ \E i \in DOMAIN interfaces : interfaces[i].changed

ValidForwarding(forwarding, interfaces) ==
    LET declared == {interfaces[i].zone : i \in DOMAIN interfaces}
    IN  /\ Cardinality(forwarding) <= MaxForwarding
        /\ \A f \in forwarding :
              /\ AuthorizeForwarding(f)
              /\ {f.source, f.destination} \subseteq declared
        /\ \A f, g \in forwarding :
              f.source = g.source /\ f.destination = g.destination => f = g

ValidProbes(probes, interfaces) ==
    /\ Cardinality(DOMAIN probes) \in 1..MaxProbes
    /\ \A p \in DOMAIN probes :
          /\ probes[p].kind \in ProbeKinds
          /\ probes[p].interface \in DOMAIN interfaces
          /\ probes[p].zone = interfaces[probes[p].interface].zone

\* A probe that shows that the control plane can still reach the node.
ManagementProbe(probe) ==
    probe.kind = "control_plane" /\ probe.zone \in {"MANAGEMENT", "LAN"}

\* Mutant of ProbeCoverage: an unchanged interface is enough.
ProbeCoverageOfSome(probes, interfaces) ==
    /\ \E i \in DOMAIN interfaces, p \in DOMAIN probes : probes[p].interface = i
    /\ \E p \in DOMAIN probes : ManagementProbe(probes[p])

ProbeCoverage(probes, interfaces) ==
    /\ \A i \in DOMAIN interfaces :
          interfaces[i].changed => \E p \in DOMAIN probes : probes[p].interface = i
    /\ \E p \in DOMAIN probes : ManagementProbe(probes[p])

\* What BuildChangePlan accepts; what it accepts it returns unchanged.
ValidPlan(plan) ==
    /\ ValidTimeouts(plan.timeouts)
    /\ ValidInterfaces(plan.interfaces)
    /\ ValidForwarding(plan.forwarding, plan.interfaces)
    /\ ValidProbes(plan.probes, plan.interfaces)
    /\ ProbeCoverage(plan.probes, plan.interfaces)
=============================================================================
