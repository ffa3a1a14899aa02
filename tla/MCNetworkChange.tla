-------------------------- MODULE MCNetworkChange ---------------------------
EXTENDS NetworkChange

CONSTANTS i1, i2, p1, p2

MCClockErrors == {-1, 0, 2}
Timeouts == [snapshot |-> 1, preflight |-> 2, apply_window |-> 2, probe |-> 2, rollback |-> 1]
Management == [zone |-> "MANAGEMENT", changed |-> TRUE]
Control == [kind |-> "control_plane", interface |-> i1, zone |-> "MANAGEMENT"]
Link == [kind |-> "link_state", interface |-> i2, zone |-> "WAN"]

\* Two interfaces, both changed, each with its probe.
TwoInterfaces ==
    [revision |-> 1,
     interfaces |-> [i \in {i1, i2} |-> IF i = i1 THEN Management ELSE [zone |-> "WAN", changed |-> TRUE]],
     probes |-> [p \in {p1, p2} |-> IF p = p1 THEN Control ELSE Link],
     forwarding |-> {[source |-> "WAN", destination |-> "MANAGEMENT", enabled |-> TRUE, gateway |-> TRUE]},
     timeouts |-> Timeouts]

\* The WAN interface is changed and nothing probes it: not a valid plan.
Unprobed == [TwoInterfaces EXCEPT !.probes = [p \in {p1} |-> Control]]

\* A later revision: one interface on the LAN, slower phases.
OneInterface ==
    [revision |-> 2,
     interfaces |-> [i \in {i1} |-> [zone |-> "LAN", changed |-> TRUE]],
     probes |-> [p \in {p1} |-> [Control EXCEPT !.zone = "LAN"]],
     forwarding |-> {},
     timeouts |-> [Timeouts EXCEPT !.snapshot = 2, !.probe = 1, !.rollback = 2]]

MCPlans == {TwoInterfaces, OneInterface, Unprobed}
MCCheckNames == {p1, p2}
=============================================================================
