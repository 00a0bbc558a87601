-------------------------------- MODULE Fabric --------------------------------
(***************************************************************************)
(* The leaf-and-spine fabric of onos-p4-cpu: the P4 pipeline of every      *)
(* switch (p4src/main.p4), the rules and groups the ONOS application wants *)
(* there, and the packets in flight.                                       *)
(*                                                                         *)
(* A packet copy is at one switch at a time, first before its ingress      *)
(* pipeline and then, queued, before its egress pipeline; rules may be     *)
(* written between the two.  The application writes rules and groups to    *)
(* ONOS's stores, and ONOS makes each switch follow them one entry at a    *)
(* time, in no particular order.                                           *)
(***************************************************************************)
EXTENDS FlowRules, RecordHeader, FiniteSets

CONSTANTS
  Payloads,      \* what hosts send behind the ethernet header, as cells
  Kinds,         \* kinds of packets the hosts and the controller send
  InitialHosts,  \* hosts ONOS knows at the start
  InitialRules,  \* rules and groups in the store and on the switches at the start
  LateConfig,    \* switches whose interfaces may be configured late
  Operations,    \* operations of the application that happen
  MaxPackets,    \* bound: packets sent in one behaviour
  MaxOps,        \* bound: operations in one behaviour
  Careful        \* the operator keeps the order of the README: see SetUp

CpuPort == 255
NoPort == 511           \* mark_to_drop
Uplink == 3             \* a leaf's port to the spine
HostPort(p) == p < 3    \* main.p4 tells host ports from the uplink this way

ASSUME TopologyAssumption ==
  /\ Leaves \subseteq 1..CpuPort - 1      \* s0's port to a leaf is the leaf's id
  /\ Host \subseteq Leaves \X {1, 2}
  /\ InitialHosts \subseteq Host /\ LateConfig \subseteq Switch
  /\ Payloads \subseteq Seq(Cell) \ {<<>>}
  /\ Kinds \subseteq {"ip", "arp", "probe", "lldp"}
  /\ Operations \subseteq {"bridging", "metrics", "learn", "enable", "stop", "cleanup"}
  /\ MaxPackets \in Nat
  /\ MaxOps \in Nat
  /\ Careful \in BOOLEAN

\* Mutant: a leaf's uplink taken to end at the switch its port is numbered after.
PeerByPort(s, p) == IF s = Spine THEN <<p, Uplink>> ELSE <<p, s>>

\* Where the link at port p of switch s ends: the peer and the peer's port.
Peer(s, p) == IF s = Spine THEN <<p, Uplink>> ELSE <<Spine, s>>

\* The ports of a switch with a link or a host.
PortsOf(s) == IF s = Spine THEN Leaves
              ELSE {Uplink} \cup {h[2] : h \in {g \in Host : g[1] = s}}

-----------------------------------------------------------------------------
\* The rules the telemetry header needs on its way.
TelemetryRules == {SinkRule(s) : s \in Leaves} \cup {MetricRule(s) : s \in Switch}
                    \cup {AclRule(s) : s \in Leaves}

\* Mutant: the spine is given the port that leads to it.
FlowPortToSpine(s, h) == IF s # Spine /\ h[1] = s THEN h[2] ELSE Uplink

\* The port of an l2_exact_table entry, as populateDeviceFlows lists it.
FlowPort(s, h) == IF s = Spine THEN h[1] ELSE IF h[1] = s THEN h[2] ELSE Uplink

\* Mutant: the multicast group of a leaf holds its hosts only.
HostGroupPorts(s) == IF s = Spine THEN Leaves ELSE {1, 2}

\* insertMulticastGroup: every interface of the switch, less a leaf's ports 4 and 5.
GroupPorts(s) == IF s = Spine THEN Leaves ELSE {1, 2, Uplink}

ASSUME InitialRulesAssumption ==
  /\ InitialRules \subseteq Entry
  /\ OfTable("record_table", InitialRules) = {}
  /\ SinkRule(Spine) \notin InitialRules
  /\ OfTable("l2_exact_table", InitialRules) \subseteq UNION {HostRules(h) : h \in InitialHosts}

-----------------------------------------------------------------------------
VARIABLES
  store,      \* ONOS's flow and group stores: the entries wanted on the switches
  tables,     \* the entries that are on the switches
  groupsLeft, \* cleanUp's groups, to be removed after the sleep
  copies,     \* packet copies in flight
  sent,       \* packets sent so far
  ops,        \* operations done so far
  delivered,  \* what hosts received
  reports,    \* what MetricRecorder extracted from recorded packet-ins
  packetIns   \* the other packet-ins

vars == <<store, tables, groupsLeft, copies, sent, ops, delivered, reports, packetIns>>

control == <<store, tables, groupsLeft, ops>>
seen == <<delivered, reports, packetIns>>

(***************************************************************************)
(* A packet copy.  rec, n, stack and rest are the telemetry header:        *)
(* records_t valid, its count, the extracted cells and the unparsed ones.  *)
(* orig is what the host sent and trail the switches passed: neither is in *)
(* the program, both only serve the properties.                            *)
(***************************************************************************)
NewCopy(pid, kind, src, dst, s, port, rec, body) ==
  [pid |-> pid, kind |-> kind, src |-> src, dst |-> dst, at |-> s, inPort |-> port,
   stage |-> "ingress", inst |-> "normal", outPort |-> NoPort, sink |-> FALSE,
   rec |-> rec, n |-> 0, stack |-> <<>>, rest |-> body, orig |-> body, trail |-> <<>>]

Init ==
  /\ store = InitialRules
  /\ tables = InitialRules
  /\ groupsLeft = {}
  /\ copies = {}
  /\ sent = 0
  /\ ops = 0
  /\ delivered = {}
  /\ reports = {}
  /\ packetIns = {[kind |-> "arp", src |-> h, at |-> h[1], inPort |-> h[2]] : h \in InitialHosts}

-----------------------------------------------------------------------------
(***************************************************************************)
(* The ingress pipeline, ParserImpl included.                              *)
(***************************************************************************)

\* The parser's share: the copy with its header stack extracted.
Parsed(c) ==
  [c EXCEPT !.stage = "egress",
            !.stack = IF c.rec THEN Stack(c.n, c.rest) ELSE <<>>,
            !.rest = IF c.rec THEN Unparsed(c.n, c.rest) ELSE c.rest]

\* sw_sink is keyed by instance_type, which is 0 in every ingress pipeline.
IsSink(c) == SinkRule(c.at) \in tables

\* record_table, looked up for IPv4 packets that enter from a host and carry no records yet.
StartsRecording(c) ==
  /\ IsSink(c)
  /\ ~c.rec
  /\ c.kind = "ip"
  /\ HostPort(c.inPort)
  /\ RecordRule(c.at, c.src, c.dst) \in tables

\* start_rec leaves the stack empty and the count at 0.
Recorded(c) == c.rec \/ StartsRecording(c)

\* Mutant: what comes out of the fabric is not cloned.
ClonedAtSource(c) == AclRule(c.at) \in tables /\ IsSink(c) /\ Recorded(c) /\ HostPort(c.inPort)

\* clone_to_cpu, called for recorded packets at a sink and by ACL entries for
\* ARP and LLDP.  The ACL entry comes with the clone session both calls need.
ClonedToCpu(c) ==
  /\ AclRule(c.at) \in tables
  /\ \/ IsSink(c) /\ Recorded(c)
     \/ c.kind \in {"arp", "lldp"}

\* Mutant: the clone is the packet as the ingress pipeline leaves it.
CpuCloneAfterIngress(c) ==
  [Parsed(c) EXCEPT !.inst = "clone", !.outPort = CpuPort, !.rec = Recorded(c),
                    !.n = IF StartsRecording(c) THEN 0 ELSE c.n]

\* An ingress-to-egress clone is the packet as it came in, with fresh metadata.
CpuClone(c) == [Parsed(c) EXCEPT !.inst = "clone", !.outPort = CpuPort]

\* The packet itself, as the traffic manager queues it.  An l2_exact_table miss
\* drops it unless l2_ternary_table then names a multicast group, and the switch has it.
Forwarded(c) ==
  LET out == [Parsed(c) EXCEPT !.sink = IsSink(c), !.rec = Recorded(c),
                                !.n = IF StartsRecording(c) THEN 0 ELSE c.n]
  IN  IF UnicastRule(c.at, c.dst) \in tables
        THEN {[out EXCEPT !.outPort = FlowPort(c.at, c.dst)]}
      ELSE IF c.dst = Broadcast /\ {BroadcastRule(c.at), GroupEntry(c.at)} \subseteq tables
        THEN {[out EXCEPT !.inst = "replica", !.outPort = p] : p \in GroupPorts(c.at)}
      ELSE {}

\* Mutant: every packet-out leaves through the uplink.
PacketOutToUplink(c) == [Parsed(c) EXCEPT !.outPort = Uplink]

\* A packet-out skips the tables: its header names the port.
PacketOutCopy(c) == [Parsed(c) EXCEPT !.outPort = c.src[2]]

Ingress(c) ==
  /\ c.stage = "ingress"
  /\ copies' = (copies \ {c}) \cup
       IF c.inPort = CpuPort
         THEN {PacketOutCopy(c)}
         ELSE Forwarded(c) \cup IF ClonedToCpu(c) THEN {CpuClone(c)} ELSE {}
  /\ UNCHANGED <<control, sent, seen>>

-----------------------------------------------------------------------------
(***************************************************************************)
(* The egress pipeline, DeparserImpl and the link behind the port.         *)
(***************************************************************************)

\* Mutant: records are not counted.
PushedUncounted(c) ==
  IF c.rec /\ MetricRule(c.at) \in tables
    THEN [c EXCEPT !.stack = PushFront(Metric(c.at), c.stack)] ELSE c

\* sw_metric and the count, which is incremented on a table miss too.
Pushed(c) ==
  IF ~c.rec THEN c
  ELSE [c EXCEPT !.stack = IF MetricRule(c.at) \in tables
                             THEN PushFront(Metric(c.at), c.stack) ELSE c.stack,
                 !.n = Byte(c.n + 1)]

\* Only the packet itself is stripped, never a clone or a replica.
Stripped(c) == c.rec /\ c.sink /\ HostPort(c.outPort) /\ c.inst = "normal"

\* The cells the deparser puts on the wire.
Body(c) ==
  LET p == Pushed(c)
  IN  Emit(IF Stripped(c) THEN ClearRecords(p.stack) ELSE p.stack, p.rest)

ToCpu(c) ==
  /\ c.outPort = CpuPort
  /\ IF c.rec
       THEN /\ reports' = reports \cup
                 {[pid |-> c.pid, kind |-> c.kind, src |-> c.src, dst |-> c.dst, from |-> c.at,
                   cells |-> ReadRecords(Pushed(c).n, Body(c))]}
            /\ UNCHANGED packetIns
       ELSE /\ packetIns' = packetIns \cup
                 {[kind |-> c.kind, src |-> c.src, at |-> c.at, inPort |-> c.inPort]}
            /\ UNCHANGED reports
  /\ copies' = copies \ {c}
  /\ UNCHANGED delivered

\* A replica for the port the packet came in at is dropped.
DropReplica(c) ==
  /\ c.outPort # CpuPort
  /\ c.inst = "replica" /\ c.outPort = c.inPort
  /\ copies' = copies \ {c}
  /\ UNCHANGED seen

\* Mutant: replicas go back through the port the packet came in at.
GoesOutOrBack(c) == c.outPort # CpuPort

GoesOut(c) == c.outPort # CpuPort /\ ~(c.inst = "replica" /\ c.outPort = c.inPort)

ToHost(c) ==
  /\ GoesOut(c)
  /\ <<c.at, c.outPort>> \in Host
  /\ delivered' = delivered \cup
       {[pid |-> c.pid, kind |-> c.kind, src |-> c.src, dst |-> c.dst,
         host |-> <<c.at, c.outPort>>, header |-> c.rec /\ ~Stripped(c), recorded |-> c.rec,
         body |-> Body(c), orig |-> c.orig, trail |-> Append(c.trail, c.at)]}
  /\ copies' = copies \ {c}
  /\ UNCHANGED <<reports, packetIns>>

ToSwitch(c) ==
  /\ GoesOut(c)
  /\ <<c.at, c.outPort>> \notin Host
  /\ copies' = (copies \ {c}) \cup
       IF c.outPort \in PortsOf(c.at)
         THEN {[c EXCEPT !.at = Peer(c.at, c.outPort)[1], !.inPort = Peer(c.at, c.outPort)[2],
                         !.stage = "ingress", !.inst = "normal", !.outPort = NoPort,
                         !.sink = FALSE, !.rec = c.rec /\ ~Stripped(c), !.n = Pushed(c).n,
                         !.stack = <<>>, !.rest = Body(c), !.trail = Append(@, c.at)]}
         ELSE {}
  /\ UNCHANGED seen

Egress(c) ==
  /\ c.stage = "egress"
  /\ ToCpu(c) \/ DropReplica(c) \/ ToHost(c) \/ ToSwitch(c)
  /\ UNCHANGED <<control, sent>>

-----------------------------------------------------------------------------
(***************************************************************************)
(* Hosts and the controller's packet-outs.                                 *)
(***************************************************************************)
Launch(c) ==
  /\ sent < MaxPackets
  /\ c.kind \in Kinds
  /\ sent' = sent + 1
  /\ copies' = copies \cup {c}
  /\ UNCHANGED <<control, seen>>

\* IPv4 to another host.
SendIp(h, d) ==
  /\ d # h
  /\ \E p \in Payloads : Launch(NewCopy(sent, "ip", h, d, h[1], h[2], FALSE, p))

\* An ARP request, broadcast.
SendArp(h) ==
  \E p \in Payloads : Launch(NewCopy(sent, "arp", h, Broadcast, h[1], h[2], FALSE, p))

\* records/send.py: an empty records header, made by the host itself.
SendProbe(h, d) ==
  /\ d # h
  /\ Launch(NewCopy(sent, "probe", h, d, h[1], h[2], TRUE, <<>>))

\* ONOS's link discovery: out of port p of switch s.
PacketOut(s, p) ==
  \E body \in Payloads : Launch(NewCopy(sent, "lldp", <<s, p>>, Lldp, s, CpuPort, FALSE, body))

-----------------------------------------------------------------------------
(***************************************************************************)
(* The application.  Every operation writes ONOS's stores only.            *)
(***************************************************************************)
Operate(operation, entries) ==
  /\ operation \in Operations /\ ops < MaxOps
  /\ ops' = ops + 1
  /\ store' = entries
  /\ UNCHANGED <<tables, copies, sent, seen>>

Write(operation, entries) == Operate(operation, entries) /\ UNCHANGED groupsLeft

\* setUpDevice adds the group and the rules, with the interfaces configured by then.
SetUpBridging(s) ==
  \E late \in SUBSET LateConfig :
    Write("bridging", store \cup BridgingEntries(s, Switch \ late))

SetUpMetrics(s) == Write("metrics", store \cup MetricRules(s))

\* HostLocationProvider learns of a host from any ARP packet-in.
KnownHosts == {h \in Host : \E p \in packetIns : p.kind = "arp" /\ p.src = h}

LearnHost(h) == h \in KnownHosts /\ Write("learn", store \cup HostRules(h))

(***************************************************************************)
(* The README has recording started after "make run" is complete and the   *)
(* hosts ping each other; nothing in the code waits for that.  Careful     *)
(* says that the operator does, and that the application is not unloaded   *)
(* while recorded packets or the rules that record them are around.        *)
(***************************************************************************)
SetUp == TelemetryRules \subseteq store \cap tables

Recording == OfTable("record_table", store \cup tables)

\* The commands refuse hosts ONOS does not know.
EnableRecording(src, dst) == /\ {src, dst} \subseteq KnownHosts
                             /\ Careful => SetUp
                             /\ Write("enable", store \cup RecordRules(src, dst))

StopRecording(src, dst) == /\ {src, dst} \subseteq KnownHosts
                           /\ Write("stop", store \ RecordRules(src, dst))

\* MainComponent.cleanUp removes the rules of this application, not ONOS's own, sleeps ...
CleanUp ==
  /\ groupsLeft = {}
  /\ Careful => Recording = {} /\ \A c \in copies : ~(c.kind = "ip" /\ c.rec)
  /\ groupsLeft' = OfTable("multicast_group", store)
  /\ Operate("cleanup", OfTable("acl_table", store) \cup OfTable("multicast_group", store))

\* ... for a second, whether the switches have followed or not, and removes the groups.
RemoveGroups ==
  /\ groupsLeft # {}
  /\ groupsLeft' = {}
  /\ store' = store \ groupsLeft
  /\ UNCHANGED <<tables, ops, copies, sent, seen>>

\* ONOS adds or removes one entry on its switch.
SyncAdd(r) == /\ r \in store \ tables
              /\ tables' = tables \cup {r}
              /\ UNCHANGED <<store, groupsLeft, copies, sent, ops, seen>>

SyncRemove(r) == /\ r \in tables \ store
                 /\ tables' = tables \ {r}
                 /\ UNCHANGED <<store, groupsLeft, copies, sent, ops, seen>>

-----------------------------------------------------------------------------
Forward == \E c \in copies : Ingress(c) \/ Egress(c)

Sync == \/ \E r \in store : SyncAdd(r)
        \/ \E r \in tables : SyncRemove(r)

Traffic == \/ \E h, d \in Host : SendIp(h, d)
           \/ \E h \in Host : SendArp(h)
           \/ \E h, d \in Host : SendProbe(h, d)
           \/ \E s \in Switch : \E p \in PortsOf(s) : PacketOut(s, p)

Application == \/ \E s \in Switch : SetUpBridging(s)
               \/ \E s \in Switch : SetUpMetrics(s)
               \/ \E h \in Host : LearnHost(h)
               \/ \E src, dst \in Host : EnableRecording(src, dst)
               \/ \E src, dst \in Host : StopRecording(src, dst)
               \/ CleanUp \/ RemoveGroups

Next == Forward \/ Sync \/ Traffic \/ Application

Spec == Init /\ [][Next]_vars

\* A switch goes on processing the packets it has queued.
FairSpec == Spec /\ WF_vars(Forward)

-----------------------------------------------------------------------------
Source == Host \cup (Switch \X Nat)
Stage == {"ingress", "egress"}
Instance == {"normal", "clone", "replica"}
Count == 0..255
Cells == Seq(Cell)
Trail == Seq(Switch)

Copy == [pid : Nat, kind : Kinds, src : Source, dst : Address, at : Switch, inPort : Nat,
         stage : Stage, inst : Instance, outPort : Nat, sink : BOOLEAN, rec : BOOLEAN,
         n : Count, stack : Cells, rest : Cells, orig : Cells, trail : Trail]

Delivery == [pid : Nat, kind : Kinds, src : Source, dst : Address, host : Host,
             header : BOOLEAN, recorded : BOOLEAN, body : Cells, orig : Cells, trail : Trail]

Report == [pid : Nat, kind : Kinds, src : Source, dst : Address, from : Switch, cells : Cells]

PacketIn == [kind : Kinds \cup {"arp"}, src : Source, at : Switch, inPort : Nat]

\* Every variable keeps its type; a header stack never outgrows data[].
TypeOK ==
  /\ store \subseteq Entry
  /\ tables \subseteq Entry
  /\ groupsLeft \subseteq {GroupEntry(s) : s \in Switch}
  /\ copies \subseteq Copy
  /\ \A c \in copies : Len(c.stack) <= MaxRec
  /\ sent \in 0..MaxPackets
  /\ ops \in 0..MaxOps
  /\ delivered \subseteq Delivery
  /\ reports \subseteq Report
  /\ packetIns \subseteq PacketIn

(***************************************************************************)
(* The telemetry header is transparent: a unicast IPv4 packet reaches the  *)
(* host it is for, and only that host, without a records header and with   *)
(* exactly the bytes that were sent, whether it was recorded or not, and   *)
(* whatever is switched on or off while it travels.                        *)
(***************************************************************************)
PayloadIntact ==
  \A d \in delivered : d.kind = "ip" => d.host = d.dst /\ ~d.header /\ d.body = d.orig

(***************************************************************************)
(* onos-p4-cpu/README.md, lines 8 and 9: the header is never sent to a     *)
(* host (a host that makes one itself aside).                              *)
(***************************************************************************)
HeaderStaysInside == \A d \in delivered : d.kind # "probe" => ~d.header

(***************************************************************************)
(* What MetricRecorder is given for a host's packet is one full path,      *)
(* newest switch first: the destination's leaf, the spine, the source's    *)
(* leaf.  Never a partial path, and no payload byte read as a metric.      *)
(***************************************************************************)
ReportIsPath ==
  \A r \in reports : r.kind = "ip" =>
    /\ r.src[1] # r.dst[1] /\ r.from = r.dst[1]
    /\ r.cells = <<Metric(r.dst[1]), Metric(Spine), Metric(r.src[1])>>

(***************************************************************************)
(* No recorded packet is stripped and delivered across the fabric without  *)
(* its records: they are reported once, or the clone that carries them is  *)
(* still queued for the controller.                                        *)
(***************************************************************************)
StrippedIsReported ==
  \A d \in delivered : d.kind = "ip" /\ d.recorded /\ d.src[1] # d.dst[1] =>
    Cardinality({r \in reports : r.pid = d.pid})
      + Cardinality({c \in copies : c.pid = d.pid /\ c.inst = "clone" /\ c.rec}) = 1

(***************************************************************************)
(* main.p4, line 455: "If egress port is host, this switch becomes sink":  *)
(* a packet's records are reported by the switch that hands the packet to  *)
(* a host, so once, and in full.  That is so for what the switches record, *)
(* but not for a probe a host sends across the fabric (records/send.py):   *)
(* the guard of line 462 reads egress_port in the ingress pipeline, where  *)
(* it is always 0.                                                         *)
(***************************************************************************)
ReportedBySinkOnly == \A r \in reports : r.from = r.dst[1]

(***************************************************************************)
(* Flooding: a broadcast reaches a host at most once, never the one that   *)
(* sent it, and unchanged; no copy passes a switch twice.                  *)
(***************************************************************************)
BroadcastOnce ==
  /\ \A d \in delivered : d.dst = Broadcast =>
       /\ d.host # d.src
       /\ d.body = d.orig
       /\ \A e \in delivered : e.pid = d.pid /\ e.host = d.host => e = d
  /\ \A c \in copies : \A i \in 1..Len(c.trail) : c.trail[i] # c.at

(***************************************************************************)
(* What the controller learns from packet-ins is true: an LLDP packet-in   *)
(* names the two ends of a real link, and an ARP packet-in from a host     *)
(* port of a leaf is from the host at that port.                           *)
(***************************************************************************)
DiscoveryIsTrue ==
  \A p \in packetIns :
    /\ p.kind = "lldp" => /\ p.src[1] = Spine \/ p.src[2] = Uplink
                          /\ Peer(p.src[1], p.src[2]) = <<p.at, p.inPort>>
    /\ p.kind = "arp" /\ p.at # Spine /\ HostPort(p.inPort) => p.src = <<p.at, p.inPort>>

(***************************************************************************)
(* A unicast packet in flight arrives, as long as the rules for its        *)
(* destination stay on the switches: recording and setting up never make   *)
(* the pipeline lose it.                                                   *)
(***************************************************************************)
InFlightTo(p, d) ==
  \E c \in copies : c.pid = p /\ c.kind = "ip" /\ c.dst = d /\ c.inst = "normal"

Arrived(p, d) == \E e \in delivered : e.pid = p /\ e.host = d

UnicastArrives ==
  \A p \in 0..MaxPackets - 1 : \A d \in Host :
    InFlightTo(p, d) ~> (Arrived(p, d) \/ ~(HostRules(d) \subseteq tables))

(***************************************************************************)
(* A broadcast reaches every other host, or some switch is without its     *)
(* broadcast rule or its group, before or meanwhile: during the setup, or  *)
(* when cleanUp removes the groups while rules that name them are left.    *)
(***************************************************************************)
Floods(s) == {BroadcastRule(s), GroupEntry(s)} \subseteq tables

JustSentArp(p, h) ==
  \E c \in copies : c.pid = p /\ c.kind = "arp" /\ c.src = h /\ c.trail = <<>> /\ c.stage = "ingress"

BroadcastReachesAll ==
  \A p \in 0..MaxPackets - 1 : \A h \in Host :
    JustSentArp(p, h) ~> \/ \A g \in Host \ {h} : Arrived(p, g)
                         \/ \E s \in Switch : ~Floods(s)

-----------------------------------------------------------------------------
(***************************************************************************)
(* What makes the header transparent, as an inductive invariant.           *)
(***************************************************************************)

\* The records a packet has gathered when it arrives where it is.
Gathered(c) == IF c.at = c.src[1] THEN <<>>
               ELSE IF c.at = Spine THEN <<Metric(c.src[1])>>
               ELSE <<Metric(Spine), Metric(c.src[1])>>

\* The cells it arrives with.
Arriving(c) == IF c.rec THEN Gathered(c) \o c.orig ELSE c.orig

\* Source leaf, then spine and destination leaf if that is another one.
OnPath(c) == \/ c.at = c.src[1] /\ c.inPort = c.src[2]
             \/ c.src[1] # c.dst[1] /\ c.at = Spine /\ c.inPort = c.src[1]
             \/ c.src[1] # c.dst[1] /\ c.at = c.dst[1] /\ c.inPort = Uplink

Waiting(c) == /\ c.stage = "ingress" /\ c.inst = "normal"
              /\ c.rest = Arriving(c)
              /\ c.rec => c.at # c.src[1]

Queued(c) == /\ c.stage = "egress"
             /\ c.stack = IF c.rec THEN Stack(c.n, Arriving(c)) ELSE <<>>
             /\ c.rest = IF c.rec THEN Unparsed(c.n, Arriving(c)) ELSE c.orig
             /\ \/ /\ c.inst = "normal" /\ c.outPort = FlowPort(c.at, c.dst)
                   /\ c.sink => c.at # Spine
                   /\ c.rec /\ c.at # Spine => c.sink
                \/ /\ c.inst = "clone" /\ c.outPort = CpuPort
                   /\ c.at # Spine
                   /\ c.rec => c.at # c.src[1]

CopyOK(c) == /\ c.src \in Host /\ c.dst \in Host
             /\ c.orig \in Seq(Cell) \ {<<>>}
             /\ OnPath(c)
             /\ c.rec => c.n = Len(Gathered(c))
             /\ Waiting(c) \/ Queued(c)

\* Recording, in the tables or under way, only where the header can be removed again.
RecordingIsSafe ==
  Recording # {} \/ (\E c \in copies : c.kind = "ip" /\ c.rec) => SetUp

TransparencyInv ==
  /\ SinkRule(Spine) \notin store \cup tables
  /\ RecordingIsSafe
  /\ \A c \in copies : c.kind = "ip" => CopyOK(c)
  /\ PayloadIntact
  /\ ReportIsPath
=============================================================================
