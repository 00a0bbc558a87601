------------------------------ MODULE FlowRules ------------------------------
(***************************************************************************)
(* The switches and hosts of the fabric, and the flow rules and multicast  *)
(* groups the ONOS application writes for them.                            *)
(***************************************************************************)
EXTENDS Naturals, Sequences

CONSTANTS
  Leaves,        \* ids of the leaf switches; the spine s0 has id 0
  Host           \* hosts, each named by where it is plugged in: <<leaf, port>>

Spine == 0
Switch == Leaves \cup {Spine}

Broadcast == <<0, 0>>
Lldp == <<0, 1>>
Address == Host \cup {Broadcast, Lldp}

Rule == [table : {"l2_ternary_table", "sw_sink", "sw_metric", "l2_exact_table",
                  "record_table", "acl_table"},
         sw : Switch, key : Seq(Address)]

BroadcastRule(s) == [table |-> "l2_ternary_table", sw |-> s, key |-> <<Broadcast>>]
SinkRule(s) == [table |-> "sw_sink", sw |-> s, key |-> <<>>]
MetricRule(s) == [table |-> "sw_metric", sw |-> s, key |-> <<>>]
UnicastRule(s, h) == [table |-> "l2_exact_table", sw |-> s, key |-> <<h>>]
RecordRule(s, src, dst) == [table |-> "record_table", sw |-> s, key |-> <<src, dst>>]
AclRule(s) == [table |-> "acl_table", sw |-> s, key |-> <<>>]


\* learnHost walks deviceFlows, which has an entry for every switch.
HostRules(h) == {UnicastRule(s, h) : s \in Switch}

\* toggleRecording writes the same rule to every leaf.
RecordRules(src, dst) == {RecordRule(s, src, dst) : s \in Leaves}

\* The multicast group of a switch, an entry of ONOS's group store: there is none
\* while the switch has no interfaces in the network configuration.
GroupEntry(s) == [table |-> "multicast_group", sw |-> s, key |-> <<Broadcast>>]
Group(s, configured) == IF s \in configured THEN {GroupEntry(s)} ELSE {}

\* setUpDevice of L2BridgingComponent and of MetricsComponent; the spine is no sink.
BridgingRules(s) == {BroadcastRule(s)} \cup (IF s = Spine THEN {} ELSE {SinkRule(s)})
BridgingEntries(s, configured) == Group(s, configured) \cup BridgingRules(s)
MetricRules(s) == {MetricRule(s)}

Entry == Rule \cup {GroupEntry(s) : s \in Switch}

OfTable(t, rules) == {r \in rules : r.table = t}
=============================================================================
