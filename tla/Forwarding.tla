------------------------------ MODULE Forwarding ------------------------------
(***************************************************************************)
(* What the networks of the run.py scripts do with packets once the user   *)
(* has the prompt: the P4 programs of l2, l3, linear and p4-cpu over the   *)
(* entries program_switch has left on each switch, and the hosts as        *)
(* configure_hosts has set them up.                                        *)
(*                                                                         *)
(* A host pings another, or sends it a probe (p4-cpu/records/send.py).     *)
(* Hosts and links are modelled as far as these networks use them: no host *)
(* is asked for its address, for the router answers or all are given.      *)
(***************************************************************************)
EXTENDS Exercise

CONSTANT Hosts   \* the names of hosts, of all setups

Programs == {"l2", "l3", "linear/l2", "linear/l3", "p4-cpu/l2"}

\* As Mininet wires them: nodes have names of their own, switches count their ports
\* from 1, and no port has two links.
Wired(z) ==
  /\ DOMAIN z.hosts \cap Elements(z.made) = {}
  /\ \A link \in z.links : \A end \in link : end[1] \in Elements(z.made) /\ end[2] # NoPort
  /\ \A v, w \in z.links : v = w \/ v \cap w = {}
  /\ \A h \in DOMAIN z.hosts :
       /\ z.hosts[h].at \notin UNION z.links
       /\ z.hosts[h].at[1] \in Elements(z.made) /\ z.hosts[h].at[2] # NoPort
  /\ \A t \in z.talks : \A talk \in t : {talk[1], talk[2]} \subseteq DOMAIN z.hosts

\* Where hosts talk, every switch runs one of the programs modelled here.
ASSUME ForwardingAssumption ==
  \A z \in Setups :
    /\ DOMAIN z.hosts \subseteq Hosts
    /\ z.script # "exercise" => Wired(z)
    /\ z.talks # {} => \A s \in Elements(z.made) : z.program[s] \in Programs

VARIABLES
  arp,       \* each host's ARP table: pairs of an IPv4 and a MAC address
  pending,   \* <<host, address, what>> waiting for an ARP reply
  frames,    \* on their way
  talked,    \* <<from, to, what>>: pings and probes sent
  got        \* what hosts have received

netVars == <<arp, pending, frames, talked, got>>
allVars == <<vars, netVars>>

Broadcast == <<255, 255, 255, 255, 255, 255>>
Ttl == 64
MaxRec == 5      \* MAX_REC of p4-cpu/p4src/l2.p4
Dropped == 511
H == setup.hosts
HostNames == DOMAIN H

NetInit ==
  /\ Init
  /\ arp = [h \in Hosts |-> {}]
  /\ pending = {} /\ frames = {} /\ talked = {} /\ got = {}

-----------------------------------------------------------------------------
(***************************************************************************)
(* Tables: what of the entries a table has, and its own default action.    *)
(***************************************************************************)
EntriesIn(entries, table) == {e \in entries : Len(e.key) = 3 /\ e.key[1] = table}
DefaultAmong(entries, table, own) ==
  LET set == {e.does : e \in {e \in entries : e.key = <<table, "default">>}}
  IN  IF set = {} THEN own ELSE CHOOSE does \in set : TRUE

NoAction == <<"NoAction", <<>>>>
Drop(control) == <<control \o ".drop", <<>>>>

ExactMatch(entries, table, field, value, own) ==
  LET hits == {e \in EntriesIn(entries, table) : e.key[2][field] = <<value>>}
  IN  IF hits = {} THEN DefaultAmong(entries, table, own) ELSE (CHOOSE e \in hits : TRUE).does

\* Prefixes here are of whole bytes.
InPrefix(value, match) == \A i \in 1..(match[2] \div 8) : value[i] = match[1][i]

LongestPrefix(entries, table, field, value, own) ==
  LET hits == {e \in EntriesIn(entries, table) : InPrefix(value, e.key[2][field])}
  IN  IF hits = {} THEN DefaultAmong(entries, table, own)
      ELSE (CHOOSE e \in hits : \A f \in hits : e.key[2][field][2] >= f.key[2][field][2]).does

\* The port an action chooses; a packet no action chose one for goes to port 0.
PortOf(does) ==
  CASE does[1] \in {"L2_Ingress.mac_forward", "L3_Ingress.set_dst_egress", "L3_Ingress.ipv4_forward"} ->
         DecodeNum(does[2].port)
    [] does[1] = "L2_Ingress.fwd_main" -> 3
    [] does[1] \in {"L2_Ingress.drop", "L3_Ingress.drop"} -> Dropped
    [] OTHER -> 0

-----------------------------------------------------------------------------
(***************************************************************************)
(* The programs: the port a frame leaves switch s by and what it has       *)
(* become, when it came in by port p.                                      *)
(***************************************************************************)
Out(port, f) == {<<port, f>>}

\* l2/l2.p4.
L2(s, p, f) ==
  Out(PortOf(ExactMatch(installed[s], "L2_Ingress.ethernet_exact", "dstAddr", f.dst, Drop("L2_Ingress"))), f)

Ipv4ForwardAsIs(f, mac) ==   \* mutant: the next hop's address is not put in
  [f EXCEPT !.src = f.dst, !.body.ttl = (@ - 1) % 256]

\* A router's change of the addresses and of the TTL, a byte.
Ipv4Forward(f, mac) == [f EXCEPT !.src = f.dst, !.dst = mac, !.body.ttl = (@ - 1) % 256]

\* l3/l3.p4.
L3(s, p, f) ==
  IF f.type # "ip" THEN Out(0, f)
  ELSE LET does == LongestPrefix(installed[s], "L3_Ingress.ipv4_lpm", "dstAddr", f.body.dst, Drop("L3_Ingress"))
       IN  Out(PortOf(does), IF PortOf(does) = Dropped THEN f ELSE Ipv4Forward(f, does[2].dstAddr))

\* linear/l2.p4: 48w0xFFFFFFFFFF is not the broadcast address; at egress a frame
\* is not sent back where it came from.
MulticastMac == <<0, 255, 255, 255, 255, 255>>
Replicas(s) == UNION {e.does[2] : e \in {e \in installed[s] : e.key = <<"multicast_group", 1>>}}
Bridge(s, p, f) ==
  LET to == IF f.dst = MulticastMac THEN Replicas(s)
            ELSE {PortOf(ExactMatch(installed[s], "L2_Ingress.mac_table", "dstAddr", f.dst, NoAction))}
  IN  {<<q, f>> : q \in to \ {p}}

\* linear/l3.p4: the port is chosen by the network, then the owner's MAC address
\* is either the answer to an ARP request or put in the packet.  What is neither
\* is looked up by the address metadata begin with.
NoAddress == <<0, 0, 0, 0>>
ArpReplyAsAsked(f, mac) ==   \* mutant: the protocol addresses are not swapped
  [f EXCEPT !.dst = f.src, !.src = mac,
            !.body = [op |-> "reply", sha |-> mac, spa |-> f.body.spa,
                      tha |-> f.body.sha, tpa |-> f.body.tpa]]

ArpReply(f, mac) ==
  [f EXCEPT !.dst = f.src, !.src = mac,
            !.body = [op |-> "reply", sha |-> mac, spa |-> f.body.tpa,
                      tha |-> f.body.sha, tpa |-> f.body.spa]]

Router(s, p, f) ==
  LET dstIp == CASE f.type = "ip" -> f.body.dst [] f.type = "arp" -> f.body.tpa [] OTHER -> NoAddress
      port == PortOf(LongestPrefix(installed[s], "L3_Ingress.ipv4_lpm", "dstIp", dstIp, Drop("L3_Ingress")))
      does == ExactMatch(installed[s], "L3_Ingress.mac_table", "dstIp", dstIp, Drop("L3_Ingress"))
  IN  IF does[1] = "L3_Ingress.drop" THEN Out(Dropped, f)
      ELSE IF f.type = "ip" THEN Out(port, Ipv4Forward(f, does[2].macAddr))
      ELSE IF f.type = "arp" /\ f.body.op = "request" THEN Out(p, ArpReply(f, does[2].macAddr))
      ELSE Out(port, f)

\* p4-cpu/p4src/l2.p4: a probe's record goes on top of the stack, the oldest off
\* its end.  The parser asks for one cell more than there are records; bmv2 ends
\* parsing where the packet ends, and goes on with the cells it has found.
\* A switch that has not been given its dpid writes nothing.
DpidAmong(entries) ==
  LET does == DefaultAmong(entries, "L2_Egress.sw_metrics", NoAction)
  IN  IF does = NoAction THEN <<>> ELSE does[2].dpid

SetMetricsLast(s, f) ==   \* mutant: push_back
  [f EXCEPT !.body = [records |-> (@.records + 1) % 256, data |-> Append(@.data, DpidAmong(installed[s]))]]

SetMetrics(s, f) ==
  LET data == <<DpidAmong(installed[s])>> \o f.body.data
  IN  [f EXCEPT !.body = [records |-> (@.records + 1) % 256, data |-> SubSeq(data, 1, Min({Len(data), MaxRec}))]]

CpuL2(s, p, f) ==
  Out(PortOf(ExactMatch(installed[s], "L2_Ingress.ethernet_exact", "dstAddr", f.dst, NoAction)),
      IF f.type = "probe" THEN SetMetrics(s, f) ELSE f)

Process(s, p, f) ==
  CASE setup.program[s] = "l2" -> L2(s, p, f)
    [] setup.program[s] = "l3" -> L3(s, p, f)
    [] setup.program[s] = "linear/l2" -> Bridge(s, p, f)
    [] setup.program[s] = "linear/l3" -> Router(s, p, f)
    [] setup.program[s] = "p4-cpu/l2" -> CpuL2(s, p, f)

-----------------------------------------------------------------------------
(***************************************************************************)
(* Links.                                                                  *)
(***************************************************************************)
Wires == setup.links \cup {{H[h].at, <<h, NoPort>>} : h \in HostNames}
Far(end) == UNION {w \ {end} : w \in {w \in Wires : end \in w}}

\* A frame's way over a link from where it was, unless it is dropped.
Crossing(from, out) ==
  {[out[2] EXCEPT !.at = to, !.trail = Append(@, from)] :
     to \in {to \in Far(<<from[1], out[1]>>) : out[1] # Dropped}}

\* A switch without a pipeline forwards nothing.
Forward(f) ==
  /\ f.at[1] \in pipeline
  /\ frames' = (frames \ {f}) \cup
                 UNION {Crossing(f.at, out) : out \in Process(f.at[1], f.at[2], f)}
  /\ UNCHANGED <<vars, arp, pending, talked, got>>

-----------------------------------------------------------------------------
(***************************************************************************)
(* Hosts.                                                                  *)
(***************************************************************************)
SameNetwork(a, b) == SubSeq(a, 1, 3) = SubSeq(b, 1, 3)
NextHop(h, ip) == IF SameNetwork(ip, H[h].ip) THEN ip ELSE H[h].gateway
Known(h, ip) == {e[2] : e \in {e \in arp[h] : e[1] = ip}}

Frame(h, dst, type, body) ==
  [src |-> H[h].mac, dst |-> dst, type |-> type, body |-> body, at |-> H[h].at, trail |-> <<>>]

Echo(from, to, kind) == [kind |-> kind, src |-> from, dst |-> to, ttl |-> Ttl]

ArpRequest(h, ip) ==
  Frame(h, Broadcast, "arp",
        [op |-> "request", sha |-> H[h].mac, spa |-> H[h].ip, tha |-> <<>>, tpa |-> ip])

\* A datagram goes to its next hop, or waits for the answer to an ARP request.
Sent(h, d) ==
  LET hop == NextHop(h, d.dst)
  IN  IF Known(h, hop) = {} THEN {ArpRequest(h, hop)}
      ELSE {Frame(h, mac, "ip", d) : mac \in Known(h, hop)}
Waits(h, d) ==
  {w \in {<<h, NextHop(h, d.dst), d>>} : Known(h, NextHop(h, d.dst)) = {}}

May(talk) == talk \notin talked /\ \E t \in setup.talks : talked \cup {talk} \subseteq t

Ping(h, g) ==
  /\ IsRunner /\ phase = "cli" /\ May(<<h, g, "ping">>)
  /\ talked' = talked \cup {<<h, g, "ping">>}
  /\ LET d == Echo(H[h].ip, H[g].ip, "request")
     IN  frames' = frames \cup Sent(h, d) /\ pending' = pending \cup Waits(h, d)
  /\ UNCHANGED <<vars, arp, got>>

\* send.py: an empty header, to the MAC address it was given.
SendProbe(h, g) ==
  /\ IsRunner /\ phase = "cli" /\ May(<<h, g, "probe">>)
  /\ talked' = talked \cup {<<h, g, "probe">>}
  /\ frames' = frames \cup {Frame(h, H[g].mac, "probe", [records |-> 0, data |-> <<>>])}
  /\ UNCHANGED <<vars, arp, pending, got>>

\* A frame has come to a host that it is for, or that it is not for.
ArrivesAt(h, f) == f.at = <<h, NoPort>>
ForHost(h, f) == f.dst = H[h].mac /\ (f.type = "ip" => f.body.dst = H[h].ip)
Taken(f) == got' = got \cup {f}

LearnArp(h, f) ==
  /\ ArrivesAt(h, f) /\ ForHost(h, f) /\ f.type = "arp"
  /\ Taken(f)
  /\ arp' = [arp EXCEPT ![h] = @ \cup {<<f.body.spa, f.body.sha>>}]
  /\ LET released == {w \in pending : w[1] = h /\ w[2] = f.body.spa}
     IN  /\ frames' = (frames \ {f}) \cup {Frame(h, f.body.sha, "ip", w[3]) : w \in released}
         /\ pending' = pending \ released
  /\ UNCHANGED <<vars, talked>>

Answer(h, f) ==
  /\ ArrivesAt(h, f) /\ ForHost(h, f) /\ f.type = "ip" /\ f.body.kind = "request"
  /\ Taken(f)
  /\ LET d == Echo(H[h].ip, f.body.src, "reply")
     IN  frames' = (frames \ {f}) \cup Sent(h, d) /\ pending' = pending \cup Waits(h, d)
  /\ UNCHANGED <<vars, arp, talked>>

\* What receive.py, or ping, shows; or a frame that is not for the host.
Take(h, f) ==
  /\ ArrivesAt(h, f)
  /\ ~(ForHost(h, f) /\ (f.type = "ip" => f.body.kind = "request") /\ f.type # "probe")
  /\ Taken(f)
  /\ frames' = frames \ {f}
  /\ UNCHANGED <<vars, arp, pending, talked>>

-----------------------------------------------------------------------------
(***************************************************************************)
(* configure_hosts comes between starting the switches and programming     *)
(* them; every other step of the script leaves hosts and frames alone.     *)
(***************************************************************************)
ConfigureHosts ==
  /\ ProgramHosts /\ IsRunner
  /\ arp' = [h \in Hosts |-> IF h \in HostNames THEN H[h].arp ELSE {}]
  /\ UNCHANGED <<pending, frames, talked, got>>

Runs ==
  /\ Script \/ LeaveCli \/ OtherPrograms \/ \E s \in Switch : Bind(s) \/ Die(s) \/ RunCli(s)
  /\ ~(IsRunner /\ phase = "hosts")
  /\ UNCHANGED netVars

Deliver ==
  \E f \in frames :
    \/ Forward(f)
    \/ \E h \in Hosts : LearnArp(h, f) \/ Answer(h, f) \/ Take(h, f)

NetNext ==
  \/ Runs \/ ConfigureHosts \/ Deliver
  \/ \E h, g \in Hosts : Ping(h, g) \/ SendProbe(h, g)

\* Exercise's fairness, and frames are delivered.
NetFairness ==
  WF_allVars(Script /\ ~HeldUp /\ Runs) /\ WF_allVars(ConfigureHosts) /\ WF_allVars(Deliver)

NetSpec == NetInit /\ [][NetNext]_allVars /\ NetFairness

-----------------------------------------------------------------------------
(***************************************************************************)
(* Properties.                                                             *)
(***************************************************************************)
\* The tables of the networks lead from every host to every other and back:
\* a ping is answered and a probe arrives, as long as the network is up.
Arrived(talk) ==
  \E f \in got :
    /\ talk[3] = "ping" => /\ f.at[1] = talk[1] /\ f.type = "ip"
                           /\ f.body.kind = "reply" /\ f.body.src = H[talk[2]].ip
    /\ talk[3] = "probe" => f.at[1] = talk[2] /\ f.type = "probe" /\ f.src = H[talk[1]].mac
Answered == <>[](phase = "cli" => \A talk \in talked : Arrived(talk))

\* No frame comes back to where it has been: neither the default port of the
\* switches nor the flooding of multicast frames makes a loop.
NoLoop == \A f \in frames : \A i \in DOMAIN f.trail : f.trail[i] # f.at

\* What it takes for this: the links are those of a tree, routers are at its root,
\* and what comes from above goes no way but down.  A bridge sends nothing back;
\* a switch of exact entries has one that leads down for each address that the one
\* above sends it.
Contents(z, s) == Stages[z.conf[s]][Len(Requests[z.conf[s]]) + 1]
ExactPrograms == {"l2", "p4-cpu/l2"}
ExactTable == "L2_Ingress.ethernet_exact"
ExactDefault(program) == IF program = "l2" THEN Drop("L2_Ingress") ELSE NoAction
ExactPort(z, s, mac) ==
  PortOf(ExactMatch(Contents(z, s), ExactTable, "dstAddr", mac, ExactDefault(z.program[s])))

\* The links as pairs of ends, the upper one first.
Downward(z, depth) == {w \in (UNION z.links) \X (UNION z.links) :
                         {w[1], w[2]} \in z.links /\ depth[w[1][1]] < depth[w[2][1]]}

LeadsDown(z, link) ==
  LET s == link[1][1]
      r == link[2][1]
  IN  /\ z.program[s] \in ExactPrograms
      /\ PortOf(DefaultAmong(Contents(z, s), ExactTable, ExactDefault(z.program[s]))) # link[1][2]
      /\ \A e \in EntriesIn(Contents(z, s), ExactTable) :
           PortOf(e.does) = link[1][2] => ExactPort(z, r, e.key[2].dstAddr[1]) # link[2][2]

IsTree(z, depth) ==
  /\ \A link \in z.links : \E w \in Downward(z, depth) : link = {w[1], w[2]}
  /\ \A v, w \in Downward(z, depth) : v[2][1] = w[2][1] => v = w
  /\ \A w \in Downward(z, depth) :
       \/ z.program[w[2][1]] = "linear/l2"
       \/ z.program[w[2][1]] \in ExactPrograms /\ LeadsDown(z, w)

Tree(z) == \E depth \in [Elements(z.made) -> 0..Len(z.made)] : IsTree(z, depth)
AllTrees == \A z \in Setups : z.script # "exercise" => Tree(z)

\* A host gets only what is for it, and learns only true addresses.
NoStray ==
  /\ \A f \in got : ForHost(f.at[1], f)
  /\ \A h, g \in HostNames : \A mac \in Known(h, H[g].ip) : mac = H[g].mac

\* What it takes for this, whatever the topology: each address that a host is
\* given, or that a router gives, is its owner's, and no table sends to a host's
\* port what is not for that host.
Ips(z) == {z.hosts[h].ip : h \in DOMAIN z.hosts}
Askable(z) == Ips(z) \cup {z.hosts[h].gateway : h \in DOMAIN z.hosts}

NobodyElses(z, ip, mac) ==
  mac # MulticastMac /\ \A h \in DOMAIN z.hosts : mac = z.hosts[h].mac => ip = z.hosts[h].ip
Owned(z, ip, mac) ==
  NobodyElses(z, ip, mac) /\ \A h \in DOMAIN z.hosts : ip = z.hosts[h].ip => mac = z.hosts[h].mac

HostsAddressed(z) ==
  /\ \A h \in DOMAIN z.hosts :
       /\ z.program[z.hosts[h].at[1]] # "linear/l3"
       /\ z.hosts[h].gateway \notin Ips(z)
       /\ Owned(z, z.hosts[h].ip, z.hosts[h].mac)
       /\ \A e \in z.hosts[h].arp : Owned(z, e[1], e[2])

\* By the destination's MAC address, on the switch's own ports to hosts.
SwitchAddressed(z, s, table, own) ==
  \A h \in DOMAIN z.hosts :
    z.hosts[h].at[1] = s =>
      /\ PortOf(DefaultAmong(Contents(z, s), table, own)) # z.hosts[h].at[2]
      /\ \A e \in EntriesIn(Contents(z, s), table) :
           PortOf(e.does) = z.hosts[h].at[2] => e.key[2].dstAddr = <<z.hosts[h].mac>>

\* By its IPv4 address: the entry's next hop is no other host, and the host at
\* the entry's port.
L3Addressed(z, s) ==
  \A ip \in Ips(z) :
    LET does == LongestPrefix(Contents(z, s), "L3_Ingress.ipv4_lpm", "dstAddr", ip, Drop("L3_Ingress"))
    IN  PortOf(does) # Dropped =>
          /\ NobodyElses(z, ip, does[2].dstAddr)
          /\ \A h \in DOMAIN z.hosts : z.hosts[h].at = <<s, PortOf(does)>> => does[2].dstAddr = z.hosts[h].mac

RouterAddressed(z, s) ==
  \A ip \in Askable(z) :
    LET does == ExactMatch(Contents(z, s), "L3_Ingress.mac_table", "dstIp", ip, Drop("L3_Ingress"))
    IN  does[1] # "L3_Ingress.drop" => Owned(z, ip, does[2].macAddr)

Addressed(z) ==
  /\ HostsAddressed(z)
  /\ \A s \in Elements(z.made) :
       /\ z.program[s] \in ExactPrograms => SwitchAddressed(z, s, ExactTable, ExactDefault(z.program[s]))
       /\ z.program[s] = "linear/l2" => SwitchAddressed(z, s, "L2_Ingress.mac_table", NoAction)
       /\ z.program[s] = "l3" => L3Addressed(z, s)
       /\ z.program[s] = "linear/l3" => RouterAddressed(z, s)
AllAddressed == \A z \in Setups : z.script # "exercise" => Addressed(z)

\* What a host receives tells its way: the TTL of a datagram the number of its
\* routers, and what receive.py shows of a probe the switches it has come through,
\* the last one first, by the dpids their configurations give them: as many as
\* MAX_REC, the oldest fall off.  This is so however long the way is, whatever
\* the tables are and whichever switches die behind it.
Routers == {s \in InNetwork : setup.program[s] \in {"l3", "linear/l3"}}
Recorders == {s \in InNetwork : setup.program[s] = "p4-cpu/l2"}
Since(f, j, switches) == Cardinality({k \in DOMAIN f.trail : k >= j /\ f.trail[k][1] \in switches})
TellsTheWay(f) ==
  /\ f.type = "ip" => f.body.ttl = (Ttl - Since(f, 1, Routers)) % 256
  /\ f.type = "probe" =>
       /\ f.body.records = Since(f, 1, Recorders) % 256
       /\ Len(f.body.data) = Min({Since(f, 1, Recorders), MaxRec})
       /\ \A j \in DOMAIN f.trail :
            LET s == f.trail[j][1]
                nth == Since(f, j, Recorders)
            IN  s \in Recorders /\ nth <= MaxRec => f.body.data[nth] = DpidAmong(Stage(s, Sends(s)))
ArrivalsTellTheWay == \A f \in got : TellsTheWay(f)
=============================================================================
