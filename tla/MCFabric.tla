------------------------------- MODULE MCFabric -------------------------------
(***************************************************************************)
(* Small fabrics for TLC: two leaves, and the stages of a deployment as    *)
(* initial rules.                                                          *)
(***************************************************************************)
EXTENDS Fabric

\* One host per leaf, or a second host on the first leaf.
TwoHosts == {<<1, 1>>, <<2, 1>>}
ThreeHosts == {<<1, 1>>, <<1, 2>>, <<2, 2>>}

\* Host packets of one and of two whole cells (an IPv4 header alone is one).
OnePayload == {<<<<"data", 1>>>>}
TwoPayloads == {<<<<"data", 1>>>>, <<<<"data", 1>>, <<"data", 2>>>>}

\* ONOS's own rules, there as soon as a switch is connected.
Connected == {AclRule(s) : s \in Switch}

\* ... with every host's unicast rules, the rest of the setup yet to come.
HostsLearned == Connected \cup UNION {HostRules(h) : h \in Host}

\* ... of which MetricsComponent is done.
MetricsOnly == HostsLearned \cup UNION {MetricRules(s) : s \in Switch}

\* ... and the rules of L2BridgingComponent and MetricsComponent on every switch.
AllSetUp ==
  HostsLearned
    \cup UNION {BridgingEntries(s, Switch) \cup MetricRules(s) : s \in Switch}

\* ... on every switch but leaf 2, which has come up last and has its group only.
NearlySetUp == AllSetUp \ (BridgingRules(2) \cup MetricRules(2))

\* Broadcasts are set up, no host is known yet.  The sink rules, which mean nothing to
\* packets without records, are left out.
Flooding == Connected \cup UNION {Group(s, Switch) \cup {BroadcastRule(s)} : s \in Switch}

NoHosts == {}
=============================================================================
