------------------------------- MODULE Networks -------------------------------
(***************************************************************************)
(* The four networks the run.py scripts bring up: l2, l3, linear and       *)
(* p4-cpu, as their configure_topo, configure_hosts and configure_switches *)
(* describe them, with the runtime configurations of their topo            *)
(* directories and the tables and actions of their P4 programs.            *)
(*                                                                         *)
(* A MAC or IPv4 address is its bytes.  A host has a port of a switch, a   *)
(* gateway or none, and static ARP entries.                                *)
(***************************************************************************)
EXTENDS Integers, Sequences, TLC

Mac(n) == <<0, 0, 0, 0, n, 0>>
Lan(n) == <<192, 168, 1, n>>
Wan(n) == <<10, 0, 0, n>>
None == <<>>

Host(ip, mac, sw, port, gateway, arp) ==
  [ip |-> ip, mac |-> mac, at |-> <<sw, port>>, gateway |-> gateway, arp |-> arp]

Link(s, p, r, q) == {<<s, p>>, <<r, q>>}

\* Values and entries of a runtime configuration.
Num(i) == [type |-> "int", n |-> i]
Address(bytes) == [type |-> IF Len(bytes) = 4 THEN "ip" ELSE "mac", bytes |-> bytes]
Prefix(ip) == [type |-> "list", items |-> <<Address(ip), Num(24)>>]
ToPort(p) == [port |-> Num(p)]

Entry(table, match, action, params) ==
  [kind |-> "table", table |-> table, match |-> match, default_action |-> match = None,
   priority |-> 0, action_name |-> action, action_params |-> params]

Configuration(program, tables, groups) ==
  [target |-> "bmv2", p4info |-> program, bmv2_json |-> program, table_entries |-> tables,
   multicast_group_entries |-> groups, clone_session_entries |-> <<>>]

\* Tables and actions of a P4 program.
Exact(bits) == [type |-> "EXACT", bits |-> bits]
Lpm(bits) == [type |-> "LPM", bits |-> bits]
Table(name, alias, fields) == [name |-> name, alias |-> alias, fields |-> fields]
Action(name, alias, params) == [name |-> name, alias |-> alias, params |-> params]

-----------------------------------------------------------------------------
(***************************************************************************)
(* l2: two hosts on one switch, in one network and with each other's       *)
(* addresses.                                                              *)
(***************************************************************************)
L2Info ==
  [tables |-> {Table("L2_Ingress.ethernet_exact", "ethernet_exact", [dstAddr |-> Exact(48)])},
   actions |-> {Action("L2_Ingress.mac_forward", "mac_forward", [port |-> 9])}]

ToMac(mac, p) ==
  Entry("L2_Ingress.ethernet_exact", [dstAddr |-> Address(mac)], "L2_Ingress.mac_forward", ToPort(p))

L2Conf == Configuration("l2", <<ToMac(Mac(1), 1), ToMac(Mac(2), 2)>>, <<>>)

L2Hosts ==
  [h1 |-> Host(Lan(2), Mac(1), "s1", 1, None, {<<Lan(3), Mac(2)>>}),
   h2 |-> Host(Lan(3), Mac(2), "s1", 2, None, {<<Lan(2), Mac(1)>>})]
L2Switches == <<"s1">>
L2Program == [s1 |-> "l2"]
L2Links == {}
L2Commands == <<"mkdir", "p4c l2">>
L2Programmed == <<"s1">>

-----------------------------------------------------------------------------
(***************************************************************************)
(* l3: two networks of a host each on one router, its addresses given.     *)
(***************************************************************************)
L3Info ==
  [tables |-> {Table("L3_Ingress.ipv4_lpm", "ipv4_lpm", [dstAddr |-> Lpm(32)])},
   actions |-> {Action("L3_Ingress.drop", "drop", None),
                Action("L3_Ingress.ipv4_forward", "ipv4_forward", [dstAddr |-> 48, port |-> 9])}]

L3Drop == Entry("L3_Ingress.ipv4_lpm", None, "L3_Ingress.drop", None)
ToNetwork(net, mac, p) ==
  Entry("L3_Ingress.ipv4_lpm", [dstAddr |-> Prefix(net)], "L3_Ingress.ipv4_forward",
        [dstAddr |-> Address(mac), port |-> Num(p)])

L3Conf ==
  Configuration("l3", <<L3Drop, ToNetwork(Lan(0), Mac(1), 1), ToNetwork(Wan(0), Mac(2), 2)>>, <<>>)

L3Hosts ==
  [h1 |-> Host(Lan(2), Mac(1), "r1", 1, Lan(1), {<<Lan(1), <<0, 0, 0, 0, 1, 16>>>>}),
   h2 |-> Host(Wan(2), Mac(2), "r1", 2, Wan(1), {<<Wan(1), <<0, 0, 0, 0, 2, 16>>>>})]
L3Switches == <<"r1">>
L3Program == [r1 |-> "l3"]
L3Links == {}
L3Commands == <<"mkdir", "p4c l3">>
L3Programmed == <<"r1">>

-----------------------------------------------------------------------------
(***************************************************************************)
(* linear: two networks of two hosts, each on a switch, and a router that  *)
(* answers ARP for all of them.                                            *)
(***************************************************************************)
BridgeInfo ==
  [tables |-> {Table("L2_Ingress.mac_table", "mac_table", [dstAddr |-> Exact(48)])},
   actions |-> {Action("L2_Ingress.mac_forward", "mac_forward", [port |-> 9])}]

RouterInfo ==
  [tables |-> {Table("L3_Ingress.mac_table", "mac_table", [dstIp |-> Exact(32)]),
               Table("L3_Ingress.ipv4_lpm", "ipv4_lpm", [dstIp |-> Lpm(32)])},
   actions |-> {Action("L3_Ingress.forward", "forward", [macAddr |-> 48]),
                Action("L3_Ingress.set_dst_egress", "set_dst_egress", [port |-> 9]),
                Action("L3_Ingress.drop", "drop", None)}]

Uplink == Entry("L2_Ingress.mac_table", None, "L2_Ingress.mac_forward", ToPort(1))
Bridged(mac, p) ==
  Entry("L2_Ingress.mac_table", [dstAddr |-> Address(mac)], "L2_Ingress.mac_forward", ToPort(p))
Flood == [kind |-> "multicast", id |-> 1, replicas |-> {1, 2, 3}]

BridgeConf(gatewayMac, first) ==
  Configuration("linear/l2",
    <<Uplink, Bridged(gatewayMac, 1), Bridged(Mac(first), 2), Bridged(Mac(first + 1), 3)>>, <<Flood>>)

Owner(ip, mac) ==
  Entry("L3_Ingress.mac_table", [dstIp |-> Address(ip)], "L3_Ingress.forward", [macAddr |-> Address(mac)])
RouterDrop == Entry("L3_Ingress.ipv4_lpm", None, "L3_Ingress.drop", None)
Route(net, p) ==
  Entry("L3_Ingress.ipv4_lpm", [dstIp |-> Prefix(net)], "L3_Ingress.set_dst_egress", ToPort(p))

GatewayMac(n) == <<16 * n, 0, 0, 0, 0, 0>>

RouterConf ==
  Configuration("linear/l3",
    <<Owner(Lan(1), GatewayMac(1)), Owner(Lan(2), Mac(1)), Owner(Lan(3), Mac(2)),
      Owner(Wan(1), GatewayMac(2)), Owner(Wan(2), Mac(3)), Owner(Wan(3), Mac(4)),
      RouterDrop, Route(Lan(0), 1), Route(Wan(0), 2)>>, <<>>)

LinearHosts ==
  [h1 |-> Host(Lan(2), Mac(1), "s1", 2, Lan(1), {}), h2 |-> Host(Lan(3), Mac(2), "s1", 3, Lan(1), {}),
   h3 |-> Host(Wan(2), Mac(3), "s2", 2, Wan(1), {}), h4 |-> Host(Wan(3), Mac(4), "s2", 3, Wan(1), {})]
LinearSwitches == <<"r1", "s1", "s2">>
LinearProgram == [r1 |-> "linear/l3", s1 |-> "linear/l2", s2 |-> "linear/l2"]
LinearLinks == {Link("s1", 1, "r1", 1), Link("s2", 1, "r1", 2)}
LinearCommands == <<"mkdir", "p4c l2", "p4c l3">>
LinearProgrammed == <<"r1", "s1", "s2">>

-----------------------------------------------------------------------------
(***************************************************************************)
(* p4-cpu: one network of eight hosts, two on each of four leaves around a *)
(* star, with each other's addresses.  Its program is built beforehand.    *)
(***************************************************************************)
CpuInfo ==
  [tables |-> {Table("L2_Ingress.ethernet_exact", "ethernet_exact", [dstAddr |-> Exact(48)]),
               Table("L2_Egress.sw_metrics", "sw_metrics", None)},
   actions |-> {Action("L2_Ingress.mac_forward", "mac_forward", [port |-> 9]),
                Action("L2_Ingress.fwd_main", "fwd_main", None),
                Action("L2_Ingress.drop", "drop", None),
                Action("L2_Egress.set_metrics", "set_metrics", [dpid |-> 48, sw |-> 8])}]

Dpid(byte) == <<byte, 0, 0, 0, 0, 0>>
Metrics(dpid, sw) ==
  Entry("L2_Egress.sw_metrics", None, "L2_Egress.set_metrics", [dpid |-> Address(dpid), sw |-> Num(sw)])
CpuDefault(action) == Entry("L2_Ingress.ethernet_exact", None, action, None)

\* Host i is on port 1 or 2 of leaf (i + 1) \div 2, the leaf n on port n of s0.
StarConf ==
  Configuration("p4-cpu/l2",
    <<CpuDefault("L2_Ingress.drop"), Metrics(Dpid(170), 0)>>
      \o [i \in 1..8 |-> ToMac(Mac(i), (i + 1) \div 2)], <<>>)
LeafConf(n) ==
  Configuration("p4-cpu/l2",
    <<CpuDefault("L2_Ingress.fwd_main"), Metrics(Dpid(17 * n), n),
      ToMac(Mac(2 * n - 1), 1), ToMac(Mac(2 * n), 2)>>, <<>>)

\* fill_arp_table: all the others'.
FillArpTable(i) == {<<Lan(j + 1), Mac(j)>> : j \in (1..8) \ {i}}

CpuLeaf == <<"s1", "s2", "s3", "s4">>
CpuHost(i) ==
  Host(Lan(i + 1), Mac(i), CpuLeaf[(i + 1) \div 2], 2 - (i % 2), None, FillArpTable(i))

CpuHosts ==
  [h10 |-> CpuHost(1), h11 |-> CpuHost(2), h20 |-> CpuHost(3), h21 |-> CpuHost(4),
   h30 |-> CpuHost(5), h31 |-> CpuHost(6), h40 |-> CpuHost(7), h41 |-> CpuHost(8)]
CpuSwitches == <<"s0", "s1", "s2", "s3", "s4">>
CpuProgram == [s \in {"s0", "s1", "s2", "s3", "s4"} |-> "p4-cpu/l2"]
CpuLinks == {Link("s0", n, CpuLeaf[n], 3) : n \in 1..4}
CpuCommands == <<"mkdir">>
CpuProgrammed == <<"s0", "s1", "s2", "s3", "s4">>

-----------------------------------------------------------------------------
\* What a script runs first, the switches in the order Mininet makes them and
\* with their programs, and the order it programs them in.
Network(script, commands, switches, program, links, hosts, programmed) ==
  [script |-> script, commands |-> commands, made |-> switches, program |-> program,
   links |-> links, hosts |-> hosts, programs |-> programmed]

L2Network == Network("l2", L2Commands, L2Switches, L2Program, L2Links, L2Hosts, L2Programmed)
L3Network == Network("l3", L3Commands, L3Switches, L3Program, L3Links, L3Hosts, L3Programmed)
LinearNetwork ==
  Network("linear", LinearCommands, LinearSwitches, LinearProgram, LinearLinks, LinearHosts,
          LinearProgrammed)
CpuNetwork ==
  Network("p4-cpu", CpuCommands, CpuSwitches, CpuProgram, CpuLinks, CpuHosts, CpuProgrammed)

\* The files configure_switches opens: topo/<switch>_runtime.json.
RuntimeJson(script, sw) == script \o "/" \o sw

RuntimeFiles ==
  ("l2/s1" :> L2Conf) @@ ("l3/r1" :> L3Conf)
    @@ ("linear/r1" :> RouterConf) @@ ("linear/s1" :> BridgeConf(GatewayMac(1), 1))
    @@ ("linear/s2" :> BridgeConf(GatewayMac(2), 3))
    @@ ("p4-cpu/s0" :> StarConf) @@ ("p4-cpu/s1" :> LeafConf(1)) @@ ("p4-cpu/s2" :> LeafConf(2))
    @@ ("p4-cpu/s3" :> LeafConf(3)) @@ ("p4-cpu/s4" :> LeafConf(4))

ProgramInfos ==
  ("l2" :> L2Info) @@ ("l3" :> L3Info) @@ ("linear/l2" :> BridgeInfo)
    @@ ("linear/l3" :> RouterInfo) @@ ("p4-cpu/l2" :> CpuInfo)
=============================================================================
