---------------------------- MODULE FabricWayProofs ----------------------------
(***************************************************************************)
(* Proofs about Fabric: the way of every packet, whatever its kind, and    *)
(* what follows from it: what packet-ins tell is true, a broadcast reaches *)
(* a host at most once, what is stripped is reported once, and a probe is  *)
(* reported twice.                                                         *)
(***************************************************************************)
EXTENDS FabricProofs, FiniteSetTheorems

(***************************************************************************)
(* The way of a packet, whatever the rules are and whoever sent it: every  *)
(* copy in flight is on one of three legs from where the packet entered.   *)
(***************************************************************************)
LegOK(c) ==
  \/ c.trail = <<>> /\ c.at = c.src[1] /\ c.inPort = c.src[2]
  \/ c.trail = <<c.src[1]>> /\ c.at = Spine /\ c.inPort = c.src[1]
  \/ c.trail = <<c.src[1], Spine>> /\ c.at \in Leaves \ {c.src[1]} /\ c.inPort = Uplink

\* A host's packet to a host.
Unicast(c) ==
  /\ c.kind \in {"ip", "probe"} /\ c.src \in Host /\ c.dst \in Host
  /\ LegOK(c)
  /\ c.at \in {c.src[1], c.dst[1]} \/ (c.at = Spine /\ c.src[1] # c.dst[1])
  /\ c.stage = "ingress" => c.inst = "normal"
  /\ c.stage = "egress" => \/ c.inst = "normal" /\ c.outPort = FlowPort(c.at, c.dst)
                           \/ c.inst = "clone" /\ c.outPort = CpuPort

\* A host's broadcast.
Flooded(c) ==
  /\ c.kind = "arp" /\ c.src \in Host /\ c.dst = Broadcast
  /\ LegOK(c)
  /\ ~c.rec /\ c.stack = <<>> /\ c.rest = c.orig
  /\ c.stage = "ingress" => c.inst = "normal"
  /\ c.stage = "egress" => \/ c.inst = "replica" /\ c.outPort \in GroupPorts(c.at)
                           \/ c.inst = "clone" /\ c.outPort = CpuPort

\* A packet-out, before and behind the link it is to discover.
Discovering(c) ==
  /\ c.kind = "lldp" /\ c.dst = Lldp
  /\ c.src[1] \in Switch /\ c.src[2] \in PortsOf(c.src[1])
  /\ ~c.rec
  /\ \/ /\ c.trail = <<>> /\ c.at = c.src[1] /\ c.inPort = CpuPort
        /\ c.stage = "egress" => c.outPort = c.src[2]
     \/ /\ c.trail = <<c.src[1]>> /\ <<c.at, c.inPort>> = Peer(c.src[1], c.src[2])
        /\ c.src[1] = Spine \/ c.src[2] = Uplink
        /\ c.stage = "egress" => c.outPort = CpuPort

\* l2_exact_table has no entry for a group address.
NoGroupRules ==
  \A s \in Switch : \A a \in {Broadcast, Lldp} : UnicastRule(s, a) \notin store \cup tables

WaysInv ==
  /\ NoGroupRules
  /\ \A c \in copies : Unicast(c) \/ Flooded(c) \/ Discovering(c)

\* The addresses of hosts are none of the groups'.
LEMMA GroupAddresses ==
  /\ Broadcast \notin Host /\ Lldp \notin Host /\ Broadcast # Lldp
  /\ \A h \in Host, s \in Switch : \A a \in {Broadcast, Lldp} : UnicastRule(s, a) \notin HostRules(h)
<1>1. Broadcast[1] = 0 /\ Lldp[1] = 0 /\ Broadcast # Lldp
  BY DEF Broadcast, Lldp
<1>2. Broadcast \notin Host /\ Lldp \notin Host
  BY <1>1, Topology DEF Spine
<1>3. ASSUME NEW h \in Host, NEW s \in Switch, NEW a \in {Broadcast, Lldp},
             UnicastRule(s, a) \in HostRules(h)
      PROVE  FALSE
  <2>1. PICK t \in Switch : UnicastRule(s, a) = UnicastRule(t, h)
    BY <1>3 DEF HostRules
  <2>2. <<a>> = <<h>>
    BY <2>1 DEF UnicastRule
  <2>3. QED
    BY <1>2, <2>2
<1>4. QED
  BY <1>1, <1>2, <1>3

\* No operation writes such an entry.
LEMMA ControlKeepsGroups ==
  ASSUME NoGroupRules, Application \/ Sync
  PROVE  NoGroupRules' /\ UNCHANGED <<copies, sent, delivered, reports, packetIns>>
<1>1. ASSUME NEW operation, NEW rules, Write(operation, store \cup rules) \/ Write(operation, store \ rules),
             \A s \in Switch : \A a \in {Broadcast, Lldp} : UnicastRule(s, a) \notin rules
      PROVE  NoGroupRules' /\ UNCHANGED <<copies, sent, delivered, reports, packetIns>>
  BY <1>1 DEF Operate, Write, NoGroupRules, seen
<1>2. \A s, a, t : /\ UnicastRule(s, a) \notin BridgingRules(t) \cup MetricRules(t)
                   /\ \A late : UnicastRule(s, a) \notin Group(t, late)
                   /\ \A h : UnicastRule(s, a) \notin RecordRules(t, h)
                   /\ UnicastRule(s, a).table = "l2_exact_table"
  BY DEF UnicastRule, BridgingRules, MetricRules, RecordRules, BroadcastRule, SinkRule,
         MetricRule, RecordRule, Group, GroupEntry
<1>3. ASSUME NEW s \in Switch, SetUpBridging(s) \/ SetUpMetrics(s)
      PROVE  NoGroupRules' /\ UNCHANGED <<copies, sent, delivered, reports, packetIns>>
  <2>1. CASE SetUpBridging(s)
    <3>1. PICK late \in SUBSET LateConfig :
            Write("bridging", store \cup BridgingEntries(s, Switch \ late))
      BY <2>1 DEF SetUpBridging
    <3>2. \A t \in Switch : \A a \in {Broadcast, Lldp} :
            UnicastRule(t, a) \notin BridgingEntries(s, Switch \ late)
      BY <1>2 DEF BridgingEntries
    <3>3. QED
      BY <1>1, <3>1, <3>2
  <2>2. CASE SetUpMetrics(s)
    BY <1>1, <1>2, <2>2 DEF SetUpMetrics
  <2>3. QED
    BY <1>3, <2>1, <2>2
<1>4. ASSUME NEW h \in Host, LearnHost(h)
      PROVE  NoGroupRules' /\ UNCHANGED <<copies, sent, delivered, reports, packetIns>>
  BY <1>1, <1>4, GroupAddresses DEF LearnHost
<1>5. ASSUME NEW src \in Host, NEW dst \in Host, EnableRecording(src, dst) \/ StopRecording(src, dst)
      PROVE  NoGroupRules' /\ UNCHANGED <<copies, sent, delivered, reports, packetIns>>
  <2>1. \A s \in Switch : \A a \in {Broadcast, Lldp} : UnicastRule(s, a) \notin RecordRules(src, dst)
    BY <1>2
  <2>2. CASE EnableRecording(src, dst)
    BY <1>1, <2>1, <2>2 DEF EnableRecording
  <2>3. CASE StopRecording(src, dst)
    BY <1>1, <2>1, <2>3 DEF StopRecording
  <2>4. QED
    BY <1>5, <2>2, <2>3
<1>6. CASE CleanUp
  BY <1>6 DEF CleanUp, Operate, NoGroupRules, OfTable, UnicastRule, seen
<1>9. CASE RemoveGroups
  BY <1>9 DEF RemoveGroups, NoGroupRules, seen
<1>7. CASE Sync
  BY <1>7 DEF Sync, SyncAdd, SyncRemove, NoGroupRules, seen
<1>8. QED
  BY <1>3, <1>4, <1>5, <1>6, <1>7, <1>9 DEF Application

-----------------------------------------------------------------------------
\* What the ingress pipeline queues, field by field.
LEMMA QueuedFields ==
  ASSUME NEW c \in Copy, NEW d,
         d = PacketOutCopy(c) \/ d \in Forwarded(c) \/ d = CpuClone(c)
  PROVE  /\ d.pid = c.pid /\ d.kind = c.kind /\ d.src = c.src /\ d.dst = c.dst /\ d.orig = c.orig
         /\ d.at = c.at /\ d.inPort = c.inPort /\ d.trail = c.trail /\ d.stage = "egress"
         /\ ~c.rec => d.stack = <<>> /\ d.rest = c.rest
         /\ c.rec => d.stack = Stack(c.n, c.rest) /\ d.rest = Unparsed(c.n, c.rest)
<1>1. CASE d = PacketOutCopy(c)
  BY <1>1 DEF PacketOutCopy, Parsed, Copy
<1>2. CASE d = CpuClone(c)
  BY <1>2 DEF CpuClone, Parsed, Copy
<1>3. CASE d \in Forwarded(c)
  <2>1. PICK out : out = [Parsed(c) EXCEPT !.sink = IsSink(c), !.rec = Recorded(c),
                                           !.n = IF StartsRecording(c) THEN 0 ELSE c.n]
    OBVIOUS
  <2>2. \/ d = [out EXCEPT !.outPort = FlowPort(c.at, c.dst)]
        \/ \E p \in GroupPorts(c.at) : d = [out EXCEPT !.inst = "replica", !.outPort = p]
    BY <1>3, <2>1 DEF Forwarded
  <2>3. QED
    BY <2>1, <2>2 DEF Parsed, Copy
<1>4. QED
  BY <1>1, <1>2, <1>3

\* ... and for which port.
LEMMA QueuedPorts ==
  ASSUME NEW c \in Copy, NEW d
  PROVE  /\ d = PacketOutCopy(c) => d.inst = c.inst /\ d.outPort = c.src[2] /\ d.rec = c.rec
         /\ d = CpuClone(c) =>
              d.inst = "clone" /\ d.outPort = CpuPort /\ d.rec = c.rec /\ d.n = c.n
         /\ d \in Forwarded(c) =>
              /\ d.rec = Recorded(c) /\ d.sink = IsSink(c)
              /\ d.n = IF StartsRecording(c) THEN 0 ELSE c.n
              /\ \/ /\ UnicastRule(c.at, c.dst) \in tables
                    /\ d.inst = c.inst /\ d.outPort = FlowPort(c.at, c.dst)
                 \/ /\ c.dst = Broadcast
                    /\ d.inst = "replica" /\ d.outPort \in GroupPorts(c.at)
<1>1. d = PacketOutCopy(c) => d.inst = c.inst /\ d.outPort = c.src[2] /\ d.rec = c.rec
  BY DEF PacketOutCopy, Parsed, Copy
<1>2. d = CpuClone(c) =>
        d.inst = "clone" /\ d.outPort = CpuPort /\ d.rec = c.rec /\ d.n = c.n
  BY DEF CpuClone, Parsed, Copy
<1>3. ASSUME d \in Forwarded(c)
      PROVE  /\ d.rec = Recorded(c) /\ d.sink = IsSink(c)
             /\ d.n = IF StartsRecording(c) THEN 0 ELSE c.n
             /\ \/ /\ UnicastRule(c.at, c.dst) \in tables
                   /\ d.inst = c.inst /\ d.outPort = FlowPort(c.at, c.dst)
                \/ /\ c.dst = Broadcast
                   /\ d.inst = "replica" /\ d.outPort \in GroupPorts(c.at)
  <2>1. PICK out : out = [Parsed(c) EXCEPT !.sink = IsSink(c), !.rec = Recorded(c),
                                           !.n = IF StartsRecording(c) THEN 0 ELSE c.n]
    OBVIOUS
  <2>2. \/ /\ UnicastRule(c.at, c.dst) \in tables
           /\ d = [out EXCEPT !.outPort = FlowPort(c.at, c.dst)]
        \/ /\ c.dst = Broadcast
           /\ \E p \in GroupPorts(c.at) : d = [out EXCEPT !.inst = "replica", !.outPort = p]
    BY <1>3, <2>1 DEF Forwarded
  <2>3. /\ out.inst = c.inst /\ out.rec = Recorded(c) /\ out.sink = IsSink(c)
        /\ out.n = IF StartsRecording(c) THEN 0 ELSE c.n
    BY <2>1 DEF Parsed, Copy
  <2>4. QED
    BY <2>1, <2>2, <2>3 DEF Parsed, Copy
<1>4. QED
  BY <1>1, <1>2, <1>3

\* Where a copy may have come in.
LEMMA LegFacts ==
  ASSUME NEW c, c.src \in Host, LegOK(c)
  PROVE  /\ c.inPort # CpuPort /\ c.inPort # NoPort
         /\ c.src[1] \in Leaves /\ c.src[1] # Spine /\ c.src[2] \in {1, 2}
         /\ c.at \in Switch /\ (c.at # Spine => c.at \in Leaves)
         /\ c.src = <<c.src[1], c.src[2]>>
<1>1. /\ c.src[1] \in Leaves /\ c.src[2] \in {1, 2} /\ c.src[1] # Spine
      /\ c.src = <<c.src[1], c.src[2]>>
  BY Topology
<1>2. \A l \in Leaves : l # CpuPort /\ l # NoPort
  BY TopologyAssumption DEF CpuPort, NoPort
<1>3. CASE c.at = c.src[1] /\ c.inPort = c.src[2]
  BY <1>1, <1>3 DEF CpuPort, NoPort, Switch
<1>4. CASE c.at = Spine /\ c.inPort = c.src[1]
  BY <1>1, <1>2, <1>4 DEF Switch
<1>5. CASE c.at \in Leaves \ {c.src[1]} /\ c.inPort = Uplink
  BY <1>1, <1>5 DEF CpuPort, NoPort, Uplink, Switch
<1>6. QED
  BY <1>3, <1>4, <1>5 DEF LegOK

LEMMA IngressKeepsWays ==
  ASSUME TypeOK, WaysInv, NEW c \in copies, Ingress(c)
  PROVE  WaysInv'
<1>1. c \in Copy /\ c.stage = "ingress" /\ NoGroupRules
  BY DEF TypeOK, Ingress, WaysInv
<1>2. NoGroupRules'
  BY <1>1 DEF Ingress, control, NoGroupRules
<1>3. \A d \in copies' \ copies :
        IF c.inPort = CpuPort THEN d = PacketOutCopy(c)
        ELSE d \in Forwarded(c) \/ (ClonedToCpu(c) /\ d = CpuClone(c))
  BY DEF Ingress
<1>4. SUFFICES ASSUME NEW d \in copies' \ copies
               PROVE  Unicast(d) \/ Flooded(d) \/ Discovering(d)
  BY <1>2 DEF WaysInv
<1>5. /\ d.kind = c.kind /\ d.src = c.src /\ d.dst = c.dst /\ d.orig = c.orig
      /\ d.at = c.at /\ d.inPort = c.inPort /\ d.trail = c.trail /\ d.stage = "egress"
      /\ ~c.rec => d.stack = <<>> /\ d.rest = c.rest
  BY <1>1, <1>3, QueuedFields
<1>6. LegOK(c) => LegOK(d)
  BY <1>5 DEF LegOK
<1>7. c.kind # "ip" /\ ~c.rec => ~Recorded(c)
  BY DEF Recorded, StartsRecording
<1>8. CASE Unicast(c)
  <2>1. c.src \in Host /\ c.dst \in Host /\ LegOK(c) /\ c.inst = "normal"
    BY <1>1, <1>8 DEF Unicast
  <2>2. c.inPort # CpuPort /\ c.dst # Broadcast
    BY <2>1, LegFacts, GroupAddresses
  <2>3. d \in Forwarded(c) \/ d = CpuClone(c)
    BY <1>3, <2>2
  <2>4. \/ d.inst = "normal" /\ d.outPort = FlowPort(c.at, c.dst)
        \/ d.inst = "clone" /\ d.outPort = CpuPort
    BY <1>1, <2>1, <2>2, <2>3, QueuedPorts
  <2>5. QED
    BY <1>5, <1>6, <1>8, <2>4 DEF Unicast
<1>9. CASE Flooded(c)
  <2>1. /\ c.kind = "arp" /\ c.src \in Host /\ LegOK(c) /\ c.dst = Broadcast /\ ~c.rec
        /\ c.rest = c.orig
    BY <1>9 DEF Flooded
  <2>2. c.inPort # CpuPort /\ c.at \in Switch /\ UnicastRule(c.at, c.dst) \notin tables
    BY <1>1, <2>1, LegFacts DEF NoGroupRules
  <2>3. d \in Forwarded(c) \/ d = CpuClone(c)
    BY <1>3, <2>2
  <2>4. /\ ~d.rec
        /\ \/ d.inst = "replica" /\ d.outPort \in GroupPorts(c.at)
           \/ d.inst = "clone" /\ d.outPort = CpuPort
    BY <1>1, <1>7, <2>1, <2>2, <2>3, QueuedPorts
  <2>5. QED
    BY <1>5, <1>6, <2>1, <2>4 DEF Flooded
<1>10. CASE Discovering(c)
  <2>1. /\ c.kind = "lldp" /\ c.dst = Lldp /\ ~c.rec
        /\ c.src[1] \in Switch /\ c.src[2] \in PortsOf(c.src[1])
    BY <1>10 DEF Discovering
  <2>2. CASE c.inPort = CpuPort
    <3>1. d.outPort = c.src[2] /\ d.rec = c.rec
      BY <1>1, <1>3, <2>2, QueuedPorts
    <3>2. c.trail = <<>> /\ c.at = c.src[1]
      <4>1. Peer(c.src[1], c.src[2])[2] # CpuPort
        BY <2>1, Topology DEF Peer, Uplink, CpuPort, Switch
      <4>2. QED
        BY <1>10, <2>2, <4>1 DEF Discovering
    <3>3. QED
      BY <1>5, <2>1, <2>2, <3>1, <3>2 DEF Discovering
  <2>3. CASE c.inPort # CpuPort
    <3>1. /\ c.trail = <<c.src[1]>> /\ <<c.at, c.inPort>> = Peer(c.src[1], c.src[2])
          /\ c.src[1] = Spine \/ c.src[2] = Uplink
      BY <1>10, <2>3 DEF Discovering
    <3>2. c.at \in Switch
      BY <1>1 DEF Copy
    <3>3. UnicastRule(c.at, c.dst) \notin tables /\ c.dst # Broadcast
      BY <1>1, <2>1, <3>2, GroupAddresses DEF NoGroupRules
    <3>4. d = CpuClone(c)
      BY <1>1, <1>3, <2>3, <3>3, QueuedPorts
    <3>5. d.outPort = CpuPort /\ d.rec = c.rec
      BY <1>1, <3>4, QueuedPorts
    <3>6. QED
      BY <1>5, <2>1, <3>1, <3>5 DEF Discovering
  <2>4. QED
    BY <2>2, <2>3
<1>11. QED
  BY <1>8, <1>9, <1>10 DEF WaysInv

\* The copy that comes out of a link.
Crossed(c) ==
  [c EXCEPT !.at = Peer(c.at, c.outPort)[1], !.inPort = Peer(c.at, c.outPort)[2],
            !.stage = "ingress", !.inst = "normal", !.outPort = NoPort,
            !.sink = FALSE, !.rec = c.rec /\ ~Stripped(c), !.n = Pushed(c).n,
            !.stack = <<>>, !.rest = Body(c), !.trail = Append(@, c.at)]

LEMMA CrossedFields ==
  ASSUME NEW c \in Copy
  PROVE  /\ Crossed(c).pid = c.pid /\ Crossed(c).kind = c.kind /\ Crossed(c).src = c.src
         /\ Crossed(c).dst = c.dst /\ Crossed(c).orig = c.orig
         /\ Crossed(c).at = Peer(c.at, c.outPort)[1]
         /\ Crossed(c).inPort = Peer(c.at, c.outPort)[2]
         /\ Crossed(c).stage = "ingress" /\ Crossed(c).inst = "normal"
         /\ Crossed(c).rec = (c.rec /\ ~Stripped(c))
         /\ Crossed(c).n = Pushed(c).n /\ Crossed(c).stack = <<>> /\ Crossed(c).rest = Body(c)
         /\ Crossed(c).trail = Append(c.trail, c.at)
  BY DEF Crossed, Copy

\* A trail as it grows.
LEMMA Trails ==
  ASSUME NEW a \in Switch, NEW b \in Switch
  PROVE  /\ Append(<<>>, a) = <<a>> /\ Append(<<a>>, b) = <<a, b>>
         /\ <<a>> # <<>> /\ <<a, b>> # <<>> /\ <<a>> # <<a, b>>
         /\ Len(<<a>>) = 1 /\ Len(<<a, b>>) = 2
<1>1. Append(<<>>, a) = <<a>>
  OBVIOUS
<1>2. Append(<<a>>, b) = <<a, b>>
  <2>1. <<a>> \in Seq(Switch) /\ <<a, b>> \in Seq(Switch)
    OBVIOUS
  <2>2. PICK t \in Seq(Switch), u \in Seq(Switch) :
          /\ t = <<a>> /\ Len(t) = 1 /\ t[1] = a
          /\ u = <<a, b>> /\ Len(u) = 2 /\ u[1] = a /\ u[2] = b
    BY <2>1
  <2>3. PICK v : v = Append(t, b)
    OBVIOUS
  <2>4. v \in Seq(Switch) /\ Len(v) = Len(t) + 1 /\ v[Len(t) + 1] = b
        /\ \A i \in 1..Len(t) : v[i] = t[i]
    BY <2>3, AppendProperties
  <2>5. Len(v) = 2 /\ v[1] = a /\ v[2] = b
    BY <2>2, <2>4
  <2>6. Len(v) = Len(u) /\ \A i \in 1..Len(v) : v[i] = u[i]
    BY <2>2, <2>5
  <2>7. v = u
    BY <2>4, <2>6, SeqEqual
  <2>8. QED
    BY <2>2, <2>3, <2>7
<1>3. Len(<<a>>) = 1 /\ Len(<<a, b>>) = 2 /\ Len(<<>>) = 0
  OBVIOUS
<1>4. QED
  BY <1>1, <1>2, <1>3

\* What carries no records leaves as it came.
LEMMA Unrecorded ==
  ASSUME NEW c \in Copy, ~c.rec, c.stack = <<>>
  PROVE  ~Stripped(c) /\ Body(c) = c.rest /\ Pushed(c) = c
<1>1. <<>> \o c.rest = c.rest
  <2>1. c.rest \in Seq(Cell)
    BY DEF Copy, Cells
  <2>2. QED
    BY <2>1, ConcatEmptySeq
<1>2. QED
  BY <1>1 DEF Stripped, Body, Pushed, Emit

\* A host's packet towards its destination.
LEMMA UnicastGoesOn ==
  ASSUME NEW c \in Copy, Unicast(c), c.stage = "egress", c.outPort # CpuPort,
         <<c.at, c.outPort>> \notin Host
  PROVE  Unicast(Crossed(c))
<1>1. /\ c.kind \in {"ip", "probe"} /\ c.src \in Host /\ c.dst \in Host /\ LegOK(c)
      /\ c.outPort = FlowPort(c.at, c.dst)
      /\ c.at \in {c.src[1], c.dst[1]} \/ (c.at = Spine /\ c.src[1] # c.dst[1])
  BY DEF Unicast
<1>2. /\ c.src[1] \in Leaves /\ c.src[1] # Spine /\ c.dst[1] \in Leaves /\ c.dst[1] # Spine
      /\ c.dst = <<c.dst[1], c.dst[2]>>
  BY <1>1, Topology
<1>3. c.at # c.dst[1]
  BY <1>1, <1>2 DEF FlowPort
<1>4. \A d : d = Crossed(c) =>
        /\ d.kind = c.kind /\ d.src = c.src /\ d.dst = c.dst
        /\ d.at = Peer(c.at, c.outPort)[1] /\ d.inPort = Peer(c.at, c.outPort)[2]
        /\ d.stage = "ingress" /\ d.inst = "normal" /\ d.trail = Append(c.trail, c.at)
  BY CrossedFields
<1>5. CASE c.at = Spine
  <2>1. c.trail = <<c.src[1]>>
    BY <1>1, <1>2, <1>5, Topology DEF LegOK
  <2>2. Peer(c.at, c.outPort) = <<c.dst[1], Uplink>>
    BY <1>1, <1>5 DEF FlowPort, Peer
  <2>3. Append(c.trail, c.at) = <<c.src[1], Spine>>
    BY <1>2, <1>5, <2>1, Trails DEF Switch
  <2>4. c.dst[1] \in Leaves \ {c.src[1]}
    BY <1>1, <1>2, <1>5
  <2>5. QED
    BY <1>1, <1>4, <2>2, <2>3, <2>4 DEF Unicast, LegOK
<1>6. CASE c.at # Spine
  <2>1. c.at = c.src[1] /\ c.trail = <<>>
    BY <1>1, <1>3, <1>6 DEF LegOK
  <2>2. Peer(c.at, c.outPort) = <<Spine, c.src[1]>>
    BY <1>6, <2>1 DEF Peer
  <2>3. Append(c.trail, c.at) = <<c.src[1]>>
    BY <1>2, <2>1, Trails DEF Switch
  <2>4. QED
    BY <1>1, <1>3, <1>4, <2>1, <2>2, <2>3 DEF Unicast, LegOK
<1>7. QED
  BY <1>5, <1>6

\* Where a replica leaves its switch.
LEMMA ReplicaLeaves ==
  ASSUME NEW c \in Copy, Flooded(c), c.stage = "egress", c.outPort # CpuPort,
         ~(c.inst = "replica" /\ c.outPort = c.inPort), c.outPort \in PortsOf(c.at),
         <<c.at, c.outPort>> \notin Host
  PROVE  /\ c.inst = "replica"
         /\ \/ c.at = c.src[1] /\ c.outPort = Uplink /\ c.trail = <<>>
            \/ c.at = Spine /\ c.outPort \in Leaves \ {c.src[1]} /\ c.trail = <<c.src[1]>>
<1>1. c.inst = "replica" /\ c.outPort # c.inPort /\ LegOK(c) /\ c.src \in Host
  BY DEF Flooded
<1>2. c.src[1] \in Leaves /\ c.src[1] # Spine
  BY <1>1, Topology
<1>3. CASE c.at = Spine
  BY <1>1, <1>2, <1>3, Topology DEF LegOK, PortsOf
<1>4. CASE c.at # Spine
  <2>1. c.outPort = Uplink
    <3>1. c.outPort \in {Uplink} \cup {h[2] : h \in {g \in Host : g[1] = c.at}}
      BY <1>4 DEF PortsOf
    <3>2. ASSUME NEW h \in Host, h[1] = c.at, c.outPort = h[2] PROVE FALSE
      BY <3>2, Topology
    <3>3. QED
      BY <3>1, <3>2
  <2>2. QED
    BY <1>1, <1>4, <2>1 DEF LegOK
<1>5. QED
  BY <1>1, <1>3, <1>4

\* A broadcast goes on from the source's leaf to the spine, and from there to the others.
LEMMA FloodGoesOn ==
  ASSUME NEW c \in Copy, Flooded(c), c.stage = "egress", c.outPort # CpuPort,
         ~(c.inst = "replica" /\ c.outPort = c.inPort), c.outPort \in PortsOf(c.at),
         <<c.at, c.outPort>> \notin Host
  PROVE  Flooded(Crossed(c))
<1>1. /\ c.kind = "arp" /\ c.src \in Host /\ c.dst = Broadcast /\ ~c.rec /\ c.stack = <<>>
      /\ c.rest = c.orig
  BY DEF Flooded
<1>2. ~Stripped(c) /\ Body(c) = c.orig
  BY <1>1, Unrecorded
<1>3. \A d : d = Crossed(c) =>
        /\ d.kind = c.kind /\ d.src = c.src /\ d.dst = c.dst /\ d.orig = c.orig
        /\ d.at = Peer(c.at, c.outPort)[1] /\ d.inPort = Peer(c.at, c.outPort)[2]
        /\ d.stage = "ingress" /\ d.inst = "normal" /\ d.trail = Append(c.trail, c.at)
        /\ ~d.rec /\ d.stack = <<>> /\ d.rest = c.orig
  BY <1>1, <1>2, CrossedFields
<1>4. c.src[1] \in Leaves /\ c.src[1] # Spine
  BY <1>1, Topology
<1>5. CASE c.at = c.src[1] /\ c.outPort = Uplink /\ c.trail = <<>>
  <2>1. Peer(c.at, c.outPort) = <<Spine, c.src[1]>> /\ Append(c.trail, c.at) = <<c.src[1]>>
    BY <1>4, <1>5, Trails DEF Peer, Switch
  <2>2. QED
    BY <1>1, <1>3, <2>1 DEF Flooded, LegOK
<1>6. CASE c.at = Spine /\ c.outPort \in Leaves \ {c.src[1]} /\ c.trail = <<c.src[1]>>
  <2>1. /\ Peer(c.at, c.outPort) = <<c.outPort, Uplink>>
        /\ Append(c.trail, c.at) = <<c.src[1], Spine>>
    BY <1>4, <1>6, Topology, Trails DEF Peer, Switch
  <2>2. QED
    BY <1>1, <1>3, <1>6, <2>1 DEF Flooded, LegOK
<1>7. QED
  BY <1>5, <1>6, ReplicaLeaves

\* A packet-out crosses the link of its port, and no other.
LEMMA DiscoveryGoesOn ==
  ASSUME NEW c \in Copy, Discovering(c), c.stage = "egress", c.outPort # CpuPort,
         <<c.at, c.outPort>> \notin Host
  PROVE  Discovering(Crossed(c))
<1>1. /\ c.kind = "lldp" /\ c.dst = Lldp /\ ~c.rec
      /\ c.src[1] \in Switch /\ c.src[2] \in PortsOf(c.src[1])
      /\ c.trail = <<>> /\ c.at = c.src[1] /\ c.outPort = c.src[2]
  BY DEF Discovering
<1>2. c.src[1] = Spine \/ c.src[2] = Uplink
  <2>1. ASSUME NEW h \in Host, h[1] = c.at, c.outPort = h[2] PROVE FALSE
    BY <2>1, Topology
  <2>2. QED
    BY <1>1, <2>1 DEF PortsOf
<1>3. \A d : d = Crossed(c) =>
        /\ d.kind = c.kind /\ d.src = c.src /\ d.dst = c.dst
        /\ d.at = Peer(c.at, c.outPort)[1] /\ d.inPort = Peer(c.at, c.outPort)[2]
        /\ d.stage = "ingress" /\ d.trail = Append(c.trail, c.at) /\ ~d.rec
  BY <1>1, CrossedFields
<1>4. Append(c.trail, c.at) = <<c.src[1]>>
  BY <1>1, Trails
<1>5. \A q : q = Peer(c.at, c.outPort) => q = <<q[1], q[2]>>
  BY DEF Peer
<1>6. QED
  BY <1>1, <1>2, <1>3, <1>4, <1>5 DEF Discovering

LEMMA EgressKeepsWays ==
  ASSUME TypeOK, WaysInv, NEW c \in copies, Egress(c)
  PROVE  WaysInv'
<1>1. c \in Copy /\ c.stage = "egress" /\ NoGroupRules
  BY DEF TypeOK, Egress, WaysInv
<1>2. NoGroupRules'
  BY <1>1 DEF Egress, control, NoGroupRules
<1>3. CASE ToCpu(c) \/ DropReplica(c) \/ ToHost(c)
  <2>1. copies' \subseteq copies
    BY <1>3 DEF ToCpu, DropReplica, ToHost
  <2>2. QED
    BY <1>2, <2>1 DEF WaysInv
<1>4. CASE ToSwitch(c)
  <2>1. /\ c.outPort # CpuPort /\ ~(c.inst = "replica" /\ c.outPort = c.inPort)
        /\ <<c.at, c.outPort>> \notin Host
        /\ \A d \in copies' \ copies : c.outPort \in PortsOf(c.at) /\ d = Crossed(c)
    BY <1>4 DEF ToSwitch, GoesOut, Crossed
  <2>2. \A d \in copies' \ copies : Unicast(d) \/ Flooded(d) \/ Discovering(d)
    BY <1>1, <2>1, UnicastGoesOn, FloodGoesOn, DiscoveryGoesOn DEF WaysInv
  <2>3. QED
    BY <1>2, <2>2 DEF WaysInv
<1>5. QED
  BY <1>3, <1>4 DEF Egress

\* What is sent is at the beginning of its way.
LEMMA SentIsOnItsWay ==
  ASSUME TypeOK, Traffic
  PROVE  \E c : /\ Launch(c) /\ c.pid = sent
                /\ Unicast(c) \/ Flooded(c) \/ Discovering(c)
                /\ c.stage = "ingress" /\ c.inst = "normal" /\ c.trail = <<>>
<1>1. ASSUME NEW h \in Host, NEW d \in Host, NEW kind \in {"ip", "probe"}, NEW c,
             /\ c.pid = sent /\ c.kind = kind /\ c.src = h /\ c.dst = d /\ c.at = h[1]
             /\ c.inPort = h[2] /\ c.stage = "ingress" /\ c.inst = "normal" /\ c.trail = <<>>
      PROVE  /\ c.pid = sent /\ Unicast(c)
             /\ c.stage = "ingress" /\ c.inst = "normal" /\ c.trail = <<>>
  BY <1>1 DEF Unicast, LegOK
<1>2. CASE \E h, d \in Host : SendIp(h, d)
  <2>1. PICK h \in Host, d \in Host, p \in Payloads :
          Launch(NewCopy(sent, "ip", h, d, h[1], h[2], FALSE, p))
    BY <1>2 DEF SendIp
  <2>2. PICK c : c = NewCopy(sent, "ip", h, d, h[1], h[2], FALSE, p)
    OBVIOUS
  <2>3. c.pid = sent /\ Unicast(c) /\ c.stage = "ingress" /\ c.inst = "normal" /\ c.trail = <<>>
    BY <1>1, <2>2 DEF NewCopy
  <2>4. QED
    BY <2>1, <2>2, <2>3
<1>3. CASE \E h, d \in Host : SendProbe(h, d)
  <2>1. PICK h \in Host, d \in Host :
          Launch(NewCopy(sent, "probe", h, d, h[1], h[2], TRUE, <<>>))
    BY <1>3 DEF SendProbe
  <2>2. PICK c : c = NewCopy(sent, "probe", h, d, h[1], h[2], TRUE, <<>>)
    OBVIOUS
  <2>3. c.pid = sent /\ Unicast(c) /\ c.stage = "ingress" /\ c.inst = "normal" /\ c.trail = <<>>
    BY <1>1, <2>2 DEF NewCopy
  <2>4. QED
    BY <2>1, <2>2, <2>3
<1>4. CASE \E h \in Host : SendArp(h)
  <2>1. PICK h \in Host, p \in Payloads :
          Launch(NewCopy(sent, "arp", h, Broadcast, h[1], h[2], FALSE, p))
    BY <1>4 DEF SendArp
  <2>2. PICK c : c = NewCopy(sent, "arp", h, Broadcast, h[1], h[2], FALSE, p)
    OBVIOUS
  <2>3. /\ c.pid = sent /\ Flooded(c)
        /\ c.stage = "ingress" /\ c.inst = "normal" /\ c.trail = <<>>
    BY <2>2 DEF NewCopy, Flooded, LegOK
  <2>4. QED
    BY <2>1, <2>2, <2>3
<1>5. CASE \E s \in Switch : \E p \in PortsOf(s) : PacketOut(s, p)
  <2>1. PICK s \in Switch : \E q \in PortsOf(s) : PacketOut(s, q)
    BY <1>5
  <2>. PICK q \in PortsOf(s) : \E p \in Payloads :
          Launch(NewCopy(sent, "lldp", <<s, q>>, Lldp, s, CpuPort, FALSE, p))
    BY <2>1 DEF PacketOut
  <2>5. PICK p \in Payloads : Launch(NewCopy(sent, "lldp", <<s, q>>, Lldp, s, CpuPort, FALSE, p))
    OBVIOUS
  <2>2. PICK c : c = NewCopy(sent, "lldp", <<s, q>>, Lldp, s, CpuPort, FALSE, p)
    OBVIOUS
  <2>3. /\ c.pid = sent /\ Discovering(c)
        /\ c.stage = "ingress" /\ c.inst = "normal" /\ c.trail = <<>>
    BY <2>2 DEF NewCopy, Discovering
  <2>4. QED
    BY <2>2, <2>3, <2>5
<1>6. QED
  BY <1>2, <1>3, <1>4, <1>5 DEF Traffic

LEMMA InitWays == Init => WaysInv
<1> SUFFICES ASSUME Init PROVE WaysInv
  OBVIOUS
<1>1. ASSUME NEW s \in Switch, NEW a \in {Broadcast, Lldp}, UnicastRule(s, a) \in InitialRules
      PROVE  FALSE
  <2>1. UnicastRule(s, a) \in OfTable("l2_exact_table", InitialRules)
    BY <1>1 DEF OfTable, UnicastRule
  <2>2. PICK h \in InitialHosts : UnicastRule(s, a) \in HostRules(h)
    BY <2>1, InitialRulesAssumption
  <2>3. QED
    BY <2>2, GroupAddresses, TopologyAssumption
<1>2. QED
  BY <1>1 DEF Init, WaysInv, NoGroupRules

(***************************************************************************)
(* Every copy in flight is where a packet of its kind may be, on the way   *)
(* that the source's leaf, the spine and the other leaf make.              *)
(***************************************************************************)
THEOREM Ways == Spec => []WaysInv
<1>1. TypeOK /\ WaysInv /\ [Next]_vars => WaysInv'
  <2> SUFFICES ASSUME TypeOK, WaysInv, [Next]_vars PROVE WaysInv'
    OBVIOUS
  <2>1. CASE Forward
    BY <2>1, IngressKeepsWays, EgressKeepsWays DEF Forward
  <2>2. CASE Traffic
    BY <2>2, SentIsOnItsWay DEF Launch, WaysInv, NoGroupRules, control
  <2>3. CASE Sync \/ Application
    BY <2>3, ControlKeepsGroups DEF WaysInv
  <2>4. CASE UNCHANGED vars
    BY <2>4 DEF vars, WaysInv, NoGroupRules
  <2>5. QED
    BY <2>1, <2>2, <2>3, <2>4 DEF Next
<1>2. QED
  BY <1>1, InitWays, TypeCorrect, PTL DEF Spec

-----------------------------------------------------------------------------
(***************************************************************************)
(* What the controller learns from packet-ins.                             *)
(***************************************************************************)
LEMMA PacketInsTell ==
  ASSUME NEW c \in Copy, Unicast(c) \/ Flooded(c) \/ Discovering(c),
         c.stage = "egress", c.outPort = CpuPort
  PROVE  /\ c.kind = "lldp" => /\ c.src[1] = Spine \/ c.src[2] = Uplink
                               /\ Peer(c.src[1], c.src[2]) = <<c.at, c.inPort>>
         /\ c.kind = "arp" /\ c.at # Spine /\ HostPort(c.inPort) => c.src = <<c.at, c.inPort>>
<1>1. CASE Unicast(c)
  BY <1>1 DEF Unicast
<1>2. CASE Flooded(c)
  <2>1. c.kind = "arp" /\ c.src \in Host /\ LegOK(c)
    BY <1>2 DEF Flooded
  <2>2. c.src = <<c.src[1], c.src[2]>>
    BY <2>1, LegFacts
  <2>3. QED
    BY <2>1, <2>2 DEF LegOK, HostPort, Uplink
<1>3. CASE Discovering(c)
  <2>1. c.src[2] # CpuPort
    BY <1>3, Topology DEF Discovering, PortsOf, Uplink, CpuPort
  <2>2. QED
    BY <1>3, <2>1 DEF Discovering
<1>4. QED
  BY <1>1, <1>2, <1>3

(***************************************************************************)
(* What the controller learns of links and hosts from packet-ins is true,  *)
(* for every fabric, whatever its rules are and whenever they change.      *)
(***************************************************************************)
THEOREM DiscoveryTells == Spec => []DiscoveryIsTrue
<1>1. Init => DiscoveryIsTrue
  <2> SUFFICES ASSUME Init, NEW p \in packetIns
               PROVE  p.kind = "arp" /\ p.src = <<p.at, p.inPort>>
    BY DEF DiscoveryIsTrue
  <2>1. PICK h \in InitialHosts : p = [kind |-> "arp", src |-> h, at |-> h[1], inPort |-> h[2]]
    BY DEF Init
  <2>2. h = <<h[1], h[2]>>
    BY TopologyAssumption, Topology
  <2>3. QED
    BY <2>1, <2>2
<1>2. TypeOK /\ WaysInv /\ DiscoveryIsTrue /\ [Next]_vars => DiscoveryIsTrue'
  <2> SUFFICES ASSUME TypeOK, WaysInv, DiscoveryIsTrue, [Next]_vars PROVE DiscoveryIsTrue'
    OBVIOUS
  <2>1. CASE UNCHANGED packetIns
    BY <2>1 DEF DiscoveryIsTrue
  <2>2. ASSUME NEW c \in copies, Egress(c), ToCpu(c) PROVE DiscoveryIsTrue'
    <3>1. /\ c \in Copy /\ c.stage = "egress" /\ c.outPort = CpuPort
          /\ Unicast(c) \/ Flooded(c) \/ Discovering(c)
      BY <2>2 DEF TypeOK, Egress, ToCpu, WaysInv
    <3>2. PICK p : p = [kind |-> c.kind, src |-> c.src, at |-> c.at, inPort |-> c.inPort]
      OBVIOUS
    <3>3. packetIns' \subseteq packetIns \cup {p}
      BY <2>2, <3>2 DEF ToCpu
    <3>4. /\ p.kind = "lldp" => /\ p.src[1] = Spine \/ p.src[2] = Uplink
                                /\ Peer(p.src[1], p.src[2]) = <<p.at, p.inPort>>
          /\ p.kind = "arp" /\ p.at # Spine /\ HostPort(p.inPort) => p.src = <<p.at, p.inPort>>
      BY <3>1, <3>2, PacketInsTell
    <3>5. QED
      BY <3>3, <3>4 DEF DiscoveryIsTrue
  <2>3. CASE Forward
    BY <2>1, <2>2, <2>3 DEF Forward, Ingress, Egress, DropReplica, ToHost, ToSwitch, seen
  <2>4. CASE Traffic
    BY <2>1, <2>4, SentIsOnItsWay DEF Launch, seen
  <2>5. CASE Sync \/ Application
    BY <2>1, <2>5, ControlKeepsGroups DEF WaysInv
  <2>6. QED
    BY <2>1, <2>3, <2>4, <2>5 DEF Next, vars
<1>3. QED
  BY <1>1, <1>2, TypeCorrect, Ways, PTL DEF Spec

-----------------------------------------------------------------------------
(***************************************************************************)
(* A packet keeps its number, and no other has it.                         *)
(***************************************************************************)
Traces == copies \cup delivered \cup reports

SamePacket(x, y) == x.kind = y.kind /\ x.src = y.src /\ x.dst = y.dst

PacketsInv ==
  /\ \A x \in Traces : x.pid < sent
  /\ \A x, y \in Traces : x.pid = y.pid => SamePacket(x, y)

\* What a switch makes of a copy is of the same packet.
LEMMA ForwardTraces ==
  ASSUME TypeOK, NEW c \in copies, Ingress(c) \/ Egress(c)
  PROVE  /\ sent' = sent
         /\ copies \ copies' \subseteq {c}
         /\ delivered \subseteq delivered' /\ reports \subseteq reports'
         /\ \A x : x \in copies' \ copies \/ x \in delivered' \ delivered \/ x \in reports' \ reports
                    => x.pid = c.pid /\ SamePacket(x, c)
<1>1. c \in Copy
  BY DEF TypeOK
<1>2. /\ sent' = sent
      /\ copies \ copies' \subseteq {c}
      /\ delivered \subseteq delivered' /\ reports \subseteq reports'
  BY DEF Ingress, Egress, ToCpu, DropReplica, ToHost, ToSwitch, seen
<1>3. CASE Ingress(c)
  <2>1. UNCHANGED <<delivered, reports>>
    BY <1>3 DEF Ingress, seen
  <2>2. ASSUME NEW x \in copies' \ copies PROVE x.pid = c.pid /\ SamePacket(x, c)
    <3>1. x = PacketOutCopy(c) \/ x \in Forwarded(c) \/ x = CpuClone(c)
      BY <1>3, <2>2 DEF Ingress
    <3>2. QED
      BY <1>1, <3>1, QueuedFields DEF SamePacket
  <2>3. QED
    BY <1>2, <2>1, <2>2
<1>4. CASE Egress(c) /\ ToCpu(c)
  <2>1. copies' \subseteq copies /\ UNCHANGED delivered
    BY <1>4 DEF ToCpu
  <2>2. ASSUME NEW x \in reports' \ reports PROVE x.pid = c.pid /\ SamePacket(x, c)
    BY <1>4, <2>2 DEF ToCpu, SamePacket
  <2>3. QED
    BY <1>2, <2>1, <2>2
<1>5. CASE Egress(c) /\ DropReplica(c)
  BY <1>2, <1>5 DEF DropReplica, seen
<1>6. CASE Egress(c) /\ ToHost(c)
  <2>1. copies' \subseteq copies /\ UNCHANGED reports
    BY <1>6 DEF ToHost
  <2>2. ASSUME NEW x \in delivered' \ delivered PROVE x.pid = c.pid /\ SamePacket(x, c)
    BY <1>6, <2>2 DEF ToHost, SamePacket
  <2>3. QED
    BY <1>2, <2>1, <2>2
<1>7. CASE Egress(c) /\ ToSwitch(c)
  <2>1. UNCHANGED <<delivered, reports>>
    BY <1>7 DEF ToSwitch, seen
  <2>2. \A x \in copies' \ copies : x = Crossed(c)
    BY <1>7 DEF ToSwitch, Crossed
  <2>3. QED
    BY <1>1, <1>2, <2>1, <2>2, CrossedFields DEF SamePacket
<1>8. QED
  BY <1>3, <1>4, <1>5, <1>6, <1>7 DEF Egress

\* What is in flight, was delivered or was reported under one number is of one
\* packet: of one kind, from one sender, to one destination. No number is used
\* again.
THEOREM PacketsKeepTheirNumber == Spec => []PacketsInv
<1>1. Init => PacketsInv
  BY DEF Init, PacketsInv, Traces
<1>2. TypeOK /\ WaysInv /\ PacketsInv /\ [Next]_vars => PacketsInv'
  <2> SUFFICES ASSUME TypeOK, WaysInv, PacketsInv, [Next]_vars PROVE PacketsInv'
    OBVIOUS
  <2>1. ASSUME NEW c \in copies, Ingress(c) \/ Egress(c) PROVE PacketsInv'
    <3>1. c \in Traces
      BY DEF Traces
    <3>2. \A x \in Traces' : x \in Traces \/ (x.pid = c.pid /\ SamePacket(x, c))
      BY <2>1, ForwardTraces DEF Traces
    <3>3. sent' = sent
      BY <2>1, ForwardTraces
    <3>4. \A x \in Traces' : x.pid < sent
      BY <3>1, <3>2 DEF PacketsInv
    <3>5. \A x, y \in Traces' : x.pid = y.pid => SamePacket(x, y)
      BY <3>1, <3>2 DEF PacketsInv, SamePacket
    <3>6. QED
      BY <3>3, <3>4, <3>5 DEF PacketsInv
  <2>2. CASE Traffic
    <3>1. PICK c : Launch(c) /\ c.pid = sent
      BY <2>2, SentIsOnItsWay
    <3>2. sent \in Nat /\ sent' = sent + 1 /\ \A x \in Traces' : x \in Traces \/ x = c
      BY <3>1 DEF Launch, seen, Traces, TypeOK
    <3>3. \A x \in Traces : x.pid \in Nat /\ x.pid < sent
      BY DEF PacketsInv, Traces, TypeOK, Copy, Delivery, Report
    <3>4. \A x \in Traces' : x.pid < sent'
      BY <3>1, <3>2, <3>3
    <3>5. \A x, y \in Traces' : x.pid = y.pid => SamePacket(x, y)
      BY <3>1, <3>2, <3>3 DEF PacketsInv, SamePacket
    <3>6. QED
      BY <3>4, <3>5 DEF PacketsInv
  <2>3. CASE UNCHANGED <<copies, sent, delivered, reports>>
    BY <2>3 DEF PacketsInv, Traces
  <2>4. CASE Sync \/ Application
    BY <2>3, <2>4, ControlKeepsGroups DEF WaysInv
  <2>5. QED
    BY <2>1, <2>2, <2>3, <2>4 DEF Next, Forward, vars
<1>3. QED
  BY <1>1, <1>2, TypeCorrect, Ways, PTL DEF Spec

-----------------------------------------------------------------------------
(***************************************************************************)
(* Flooding.  A copy of a broadcast may still reach some of the hosts: no  *)
(* two copies the same one, and none a host that has the broadcast.        *)
(***************************************************************************)
Reaches(c, h) ==
  IF c.stage = "ingress"
  THEN c.trail = <<>> \/ c.at = h[1] \/ (c.at = Spine /\ h[1] # c.src[1])
  ELSE /\ c.inst = "replica"
       /\ \/ <<c.at, c.outPort>> = h
          \/ h[1] # c.src[1] /\ c.at = c.src[1] /\ c.outPort = Uplink
          \/ h[1] # c.src[1] /\ c.at = Spine /\ c.outPort = h[1]

Reach(c) == {h \in Host \ {c.src} : Reaches(c, h)}

FloodInv ==
  /\ \A c, d \in copies :
       c.kind = "arp" /\ d.kind = "arp" /\ c.pid = d.pid /\ c # d => Reach(c) \cap Reach(d) = {}
  /\ \A c \in copies, e \in delivered :
       c.kind = "arp" /\ e.kind = "arp" /\ c.pid = e.pid => e.host \notin Reach(c)
  /\ \A e, f \in delivered :
       e.kind = "arp" /\ f.kind = "arp" /\ e.pid = f.pid /\ e.host = f.host => e = f
  /\ \A e \in delivered : e.dst = Broadcast => e.kind = "arp"
  /\ \A e \in delivered : e.kind = "arp" => e.host # e.src /\ e.body = e.orig

\* What replaces a copy shares out the hosts it could reach.
LEMMA FloodSplits ==
  ASSUME FloodInv, NEW c \in copies, UNCHANGED delivered, c \notin copies',
         \A d \in copies' \ copies :
            d.kind = "arp" => c.kind = "arp" /\ d.pid = c.pid /\ Reach(d) \subseteq Reach(c),
         \A d, e \in copies' \ copies :
            d.kind = "arp" /\ e.kind = "arp" /\ d # e => Reach(d) \cap Reach(e) = {}
  PROVE  FloodInv'
<1>1. ASSUME NEW d \in copies', NEW e \in copies',
             d.kind = "arp", e.kind = "arp", d.pid = e.pid, d # e
      PROVE  Reach(d) \cap Reach(e) = {}
  <2>1. CASE d \in copies /\ e \in copies
    BY <1>1, <2>1 DEF FloodInv
  <2>2. CASE d \in copies /\ e \notin copies
    <3>1. Reach(d) \cap Reach(c) = {} /\ Reach(e) \subseteq Reach(c)
      BY <1>1, <2>2 DEF FloodInv
    <3>2. QED
      BY <3>1
  <2>3. CASE d \notin copies /\ e \in copies
    <3>1. Reach(c) \cap Reach(e) = {} /\ Reach(d) \subseteq Reach(c)
      BY <1>1, <2>3 DEF FloodInv
    <3>2. QED
      BY <3>1
  <2>4. CASE d \notin copies /\ e \notin copies
    BY <1>1, <2>4
  <2>5. QED
    BY <2>1, <2>2, <2>3, <2>4
<1>2. ASSUME NEW d \in copies', NEW e \in delivered, d.kind = "arp", e.kind = "arp", d.pid = e.pid
      PROVE  e.host \notin Reach(d)
  BY <1>2 DEF FloodInv
<1>3. QED
  BY <1>1, <1>2 DEF FloodInv

\* The copies that replication makes go different ways.
LEMMA ReplicasShare ==
  ASSUME NEW c \in Copy, Flooded(c), c.stage = "ingress",
         NEW d, d \in Forwarded(c) \/ d = CpuClone(c),
         UnicastRule(c.at, c.dst) \notin tables
  PROVE  /\ Reach(d) \subseteq Reach(c)
         /\ \A e : e \in Forwarded(c) /\ d \in Forwarded(c) /\ e # d => Reach(d) \cap Reach(e) = {}
         /\ d = CpuClone(c) => Reach(d) = {}
<1>1. c.src \in Host /\ LegOK(c) /\ c.dst = Broadcast
  BY DEF Flooded
<1>2. /\ c.src[1] \in Leaves /\ c.src[1] # Spine /\ c.at \in Switch
      /\ \A h \in Host : h[1] # Spine /\ h[2] # Uplink
  <2>1. \A h \in Host : h[1] # Spine /\ h[2] # Uplink
    BY Topology DEF Uplink
  <2>2. QED
    BY <1>1, <2>1, LegFacts
<1>3. /\ d.src = c.src /\ d.at = c.at /\ d.stage = "egress" /\ d.trail = c.trail
      /\ d = CpuClone(c) => d.inst = "clone"
  BY QueuedFields, QueuedPorts
<1>4. d = CpuClone(c) => Reach(d) = {}
  BY <1>3 DEF Reach, Reaches
<1>5. c.at # Spine => c.trail = <<>> \/ c.at # c.src[1]
  BY <1>1 DEF LegOK
<1>6. \A h \in Host : Reaches(d, h) => Reaches(c, h)
  BY <1>1, <1>2, <1>3, <1>5 DEF Reaches, LegOK
<1>7. ASSUME NEW e, e \in Forwarded(c), d \in Forwarded(c), e # d, NEW h \in Host,
             Reaches(d, h), Reaches(e, h)
      PROVE  FALSE
  <2>1. e.src = c.src /\ e.at = c.at /\ e.stage = "egress"
    BY <1>7, QueuedFields
  <2>2. d.outPort # e.outPort
    <3>1. PICK out : out = [Parsed(c) EXCEPT !.sink = IsSink(c), !.rec = Recorded(c),
                                             !.n = IF StartsRecording(c) THEN 0 ELSE c.n]
      OBVIOUS
    <3>2. \A f \in Forwarded(c) : \E p \in GroupPorts(c.at) :
             f = [out EXCEPT !.inst = "replica", !.outPort = p]
      BY <3>1 DEF Forwarded
    <3>3. PICK p \in GroupPorts(c.at), q \in GroupPorts(c.at) :
            /\ d = [out EXCEPT !.inst = "replica", !.outPort = p]
            /\ e = [out EXCEPT !.inst = "replica", !.outPort = q]
      BY <1>7, <3>2
    <3>4. p # q
      BY <1>7, <3>3
    <3>5. d.outPort = p /\ e.outPort = q
      BY <3>1, <3>3 DEF Parsed, Copy
    <3>6. QED
      BY <3>4, <3>5
  <2>3. QED
    BY <1>2, <1>3, <1>7, <2>1, <2>2 DEF Reaches
<1>8. QED
  BY <1>3, <1>4, <1>6, <1>7 DEF Reach

LEMMA IngressKeepsFlood ==
  ASSUME TypeOK, WaysInv, FloodInv, NEW c \in copies, Ingress(c)
  PROVE  FloodInv'
<1>1. c \in Copy /\ c.stage = "ingress" /\ UNCHANGED delivered
  BY DEF TypeOK, Ingress, seen
<1>2. \A d \in copies' \ copies :
        d = PacketOutCopy(c) \/ d \in Forwarded(c) \/ d = CpuClone(c)
  BY DEF Ingress
<1>3. \A d : d = PacketOutCopy(c) \/ d \in Forwarded(c) \/ d = CpuClone(c) =>
        d.kind = c.kind /\ d.pid = c.pid /\ d.stage = "egress"
  BY <1>1, QueuedFields
<1>4. c \notin copies'
  BY <1>1, <1>3 DEF Ingress
<1>5. CASE c.kind # "arp"
  BY <1>1, <1>2, <1>3, <1>4, <1>5, FloodSplits
<1>6. CASE c.kind = "arp"
  <2>1. Flooded(c)
    BY <1>6 DEF WaysInv, Unicast, Discovering
  <2>2. c.inPort # CpuPort /\ c.at \in Switch
    BY <2>1, LegFacts DEF Flooded
  <2>3. UnicastRule(c.at, c.dst) \notin tables
    BY <2>1, <2>2 DEF WaysInv, NoGroupRules, Flooded
  <2>4. \A d \in copies' \ copies : d \in Forwarded(c) \/ d = CpuClone(c)
    BY <2>2 DEF Ingress
  <2>5. \A d \in copies' \ copies : Reach(d) \subseteq Reach(c)
    BY <1>1, <2>1, <2>3, <2>4, ReplicasShare
  <2>6. \A d, e \in copies' \ copies : d # e => Reach(d) \cap Reach(e) = {}
    BY <1>1, <2>1, <2>3, <2>4, ReplicasShare
  <2>7. QED
    BY <1>1, <1>2, <1>3, <1>4, <1>6, <2>5, <2>6, FloodSplits
<1>7. QED
  BY <1>5, <1>6

\* Behind a link a copy reaches what it could before.
LEMMA CrossedReach ==
  ASSUME NEW c \in Copy, Flooded(c), c.stage = "egress", c.outPort # CpuPort,
         ~(c.inst = "replica" /\ c.outPort = c.inPort), c.outPort \in PortsOf(c.at),
         <<c.at, c.outPort>> \notin Host
  PROVE  Reach(Crossed(c)) \subseteq Reach(c)
<1>1. c.src \in Host /\ c.src[1] \in Leaves /\ c.src[1] # Spine
  BY Topology DEF Flooded
<1>2. PICK d : d = Crossed(c)
  OBVIOUS
<1>3. /\ d.src = c.src /\ d.stage = "ingress" /\ d.trail = Append(c.trail, c.at)
      /\ d.at = Peer(c.at, c.outPort)[1] /\ c.at \in Switch
  BY <1>2, CrossedFields DEF Copy
<1>4. c.inst = "replica"
  BY ReplicaLeaves
<1>5. d.trail # <<>>
  BY <1>3, AppendProperties DEF Copy, Trail
<1>6. CASE c.at = c.src[1] /\ c.outPort = Uplink
  <2>1. d.at = Spine
    BY <1>1, <1>3, <1>6 DEF Peer
  <2>2. \A h \in Host : Reaches(d, h) => Reaches(c, h)
    BY <1>3, <1>4, <1>5, <1>6, <2>1, Topology DEF Reaches
  <2>3. QED
    BY <1>2, <1>3, <2>2 DEF Reach
<1>7. CASE c.at = Spine /\ c.outPort \in Leaves \ {c.src[1]}
  <2>1. d.at = c.outPort /\ d.at # Spine
    BY <1>3, <1>7, Topology DEF Peer
  <2>2. \A h \in Host : Reaches(d, h) => Reaches(c, h)
    BY <1>3, <1>4, <1>5, <1>7, <2>1 DEF Reaches
  <2>3. QED
    BY <1>2, <1>3, <2>2 DEF Reach
<1>8. QED
  BY <1>6, <1>7, ReplicaLeaves

LEMMA EgressKeepsFlood ==
  ASSUME TypeOK, WaysInv, FloodInv, NEW c \in copies, Egress(c)
  PROVE  FloodInv'
<1>1. c \in Copy /\ c.stage = "egress" /\ (Unicast(c) \/ Flooded(c) \/ Discovering(c))
  BY DEF TypeOK, Egress, WaysInv
<1>2. c.kind = "arp" <=> Flooded(c)
  BY <1>1 DEF Unicast, Flooded, Discovering
<1>3. CASE ToCpu(c) \/ DropReplica(c)
  <2>1. copies' \subseteq copies /\ UNCHANGED delivered
    BY <1>3 DEF ToCpu, DropReplica, seen
  <2>2. QED
    BY <2>1 DEF FloodInv
<1>4. CASE ToHost(c)
  <2>1. PICK body, header, host, trail :
          body = Body(c) /\ host = <<c.at, c.outPort>> /\ trail = Append(c.trail, c.at)
            /\ header = (c.rec /\ ~Stripped(c))
    OBVIOUS
  <2>2. PICK e : e = [pid |-> c.pid, kind |-> c.kind, src |-> c.src, dst |-> c.dst,
                      host |-> host, header |-> header, recorded |-> c.rec,
                      body |-> body, orig |-> c.orig, trail |-> trail]
    OBVIOUS
  <2>3. delivered' = delivered \cup {e} /\ copies' = copies \ {c} /\ host \in Host
    BY <1>4, <2>1, <2>2 DEF ToHost
  <2>4. e.dst = Broadcast => e.kind = "arp"
    BY <1>1, <2>2, GroupAddresses DEF Unicast, Flooded, Discovering
  <2>5. ASSUME c.kind = "arp" PROVE host \in Reach(c) /\ host # c.src /\ body = c.orig
    <3>1. /\ c.src \in Host /\ LegOK(c) /\ ~c.rec /\ c.stack = <<>> /\ c.rest = c.orig
          /\ c.inst = "replica" /\ c.outPort # c.inPort
      BY <1>1, <1>2, <1>4, <2>5 DEF Flooded, ToHost, GoesOut
    <3>2. body = c.orig
      BY <1>1, <2>1, <3>1, Unrecorded
    <3>3. host # c.src
      <4>1. host[1] # Spine
        BY <2>3, Topology
      <4>2. QED
        BY <2>1, <3>1, <4>1 DEF LegOK
    <3>4. QED
      BY <1>1, <2>1, <2>3, <3>1, <3>2, <3>3 DEF Reach, Reaches
  <2>6. ASSUME NEW d \in copies', NEW f \in delivered',
               d.kind = "arp", f.kind = "arp", d.pid = f.pid
        PROVE  f.host \notin Reach(d)
    <3>1. CASE f \in delivered
      BY <2>3, <2>6, <3>1 DEF FloodInv
    <3>2. CASE f = e
      BY <2>2, <2>3, <2>5, <2>6, <3>2 DEF FloodInv
    <3>3. QED
      BY <2>3, <3>1, <3>2
  <2>7. ASSUME NEW f \in delivered, f.kind = "arp", e.kind = "arp", f.pid = e.pid
        PROVE  f.host # e.host
    BY <2>2, <2>5, <2>7 DEF FloodInv
  <2>8. \A d, f \in copies' : d \in copies /\ f \in copies
    BY <2>3
  <2>9. \A f, g \in delivered' :
          f.kind = "arp" /\ g.kind = "arp" /\ f.pid = g.pid /\ f.host = g.host => f = g
    BY <2>3, <2>7 DEF FloodInv
  <2>10. \A f \in delivered' : /\ f.dst = Broadcast => f.kind = "arp"
                               /\ f.kind = "arp" => f.host # f.src /\ f.body = f.orig
    BY <2>2, <2>3, <2>4, <2>5 DEF FloodInv
  <2>11. QED
    BY <2>6, <2>8, <2>9, <2>10 DEF FloodInv
<1>5. CASE ToSwitch(c)
  <2>1. /\ c.outPort # CpuPort /\ ~(c.inst = "replica" /\ c.outPort = c.inPort)
        /\ <<c.at, c.outPort>> \notin Host
        /\ \A d \in copies' \ copies : c.outPort \in PortsOf(c.at) /\ d = Crossed(c)
        /\ UNCHANGED delivered
    BY <1>5 DEF ToSwitch, GoesOut, Crossed, seen
  <2>2. /\ Crossed(c).kind = c.kind /\ Crossed(c).pid = c.pid
        /\ Crossed(c).stage = "ingress"
    BY <1>1, CrossedFields
  <2>3. c \notin copies'
    BY <1>1, <1>5, <2>2 DEF ToSwitch, Crossed
  <2>4. \A d \in copies' \ copies :
           d.kind = "arp" => c.kind = "arp" /\ d.pid = c.pid /\ Reach(d) \subseteq Reach(c)
    BY <1>1, <1>2, <2>1, <2>2, CrossedReach
  <2>5. QED
    BY <2>1, <2>3, <2>4, FloodSplits
<1>6. QED
  BY <1>3, <1>4, <1>5 DEF Egress

(***************************************************************************)
(* A broadcast reaches a host at most once, unchanged, and never comes     *)
(* back to its sender; no copy comes to a switch it has passed: for every  *)
(* fabric, whatever the rules are and whenever they change.                *)
(***************************************************************************)
THEOREM BroadcastsOnce == Spec => []BroadcastOnce
<1>1. Init => FloodInv
  BY DEF Init, FloodInv
<1>2. TypeOK /\ WaysInv /\ PacketsInv /\ FloodInv /\ [Next]_vars => FloodInv'
  <2> SUFFICES ASSUME TypeOK, WaysInv, PacketsInv, FloodInv, [Next]_vars PROVE FloodInv'
    OBVIOUS
  <2>1. CASE Forward
    BY <2>1, IngressKeepsFlood, EgressKeepsFlood DEF Forward
  <2>2. CASE Traffic
    <3>1. PICK c : Launch(c) /\ c.pid = sent
      BY <2>2, SentIsOnItsWay
    <3>2. copies' = copies \cup {c} /\ UNCHANGED delivered
      BY <3>1 DEF Launch, seen
    <3>3. \A x \in copies \cup delivered : x.pid # c.pid
      <4>1. \A x \in copies \cup delivered : x.pid \in Nat /\ x.pid < sent /\ sent \in Nat
        BY DEF PacketsInv, Traces, TypeOK, Copy, Delivery
      <4>2. QED
        BY <3>1, <4>1
    <3>4. QED
      BY <3>2, <3>3 DEF FloodInv
  <2>3. CASE UNCHANGED <<copies, delivered>>
    BY <2>3 DEF FloodInv
  <2>4. CASE Sync \/ Application
    BY <2>3, <2>4, ControlKeepsGroups DEF WaysInv
  <2>5. QED
    BY <2>1, <2>2, <2>3, <2>4 DEF Next, vars
<1>3. WaysInv /\ TypeOK /\ PacketsInv /\ FloodInv => BroadcastOnce
  <2> SUFFICES ASSUME WaysInv, TypeOK, PacketsInv, FloodInv PROVE BroadcastOnce
    OBVIOUS
  <2>1. ASSUME NEW d \in delivered, d.dst = Broadcast
        PROVE  /\ d.host # d.src /\ d.body = d.orig
               /\ \A e \in delivered : e.pid = d.pid /\ e.host = d.host => e = d
    BY <2>1 DEF FloodInv, PacketsInv, Traces, SamePacket
  <2>2. ASSUME NEW c \in copies, NEW i \in 1..Len(c.trail) PROVE c.trail[i] # c.at
    <3>1. c \in Copy
      BY DEF TypeOK
    <3>2. ASSUME LegOK(c), c.src \in Host PROVE c.trail[i] # c.at
      <4>1. c.src[1] \in Leaves /\ c.src[1] # Spine
        BY <3>2, LegFacts
      <4>2. CASE c.trail = <<>>
        BY <4>2
      <4>3. CASE c.trail = <<c.src[1]>> /\ c.at = Spine
        BY <4>1, <4>3
      <4>4. CASE c.trail = <<c.src[1], Spine>> /\ c.at \in Leaves \ {c.src[1]}
        BY <4>1, <4>4, Topology
      <4>5. QED
        BY <3>2, <4>2, <4>3, <4>4 DEF LegOK
    <3>3. ASSUME Discovering(c) PROVE c.trail[i] # c.at
      <4>1. CASE c.trail = <<>>
        BY <4>1
      <4>2. CASE /\ c.trail = <<c.src[1]>> /\ <<c.at, c.inPort>> = Peer(c.src[1], c.src[2])
                 /\ c.src[1] = Spine \/ c.src[2] = Uplink
        <5>1. c.at # c.src[1]
          BY <3>3, <4>2, Topology DEF Discovering, Peer, PortsOf
        <5>2. QED
          BY <4>2, <5>1
      <4>3. QED
        BY <3>3, <4>1, <4>2 DEF Discovering
    <3>4. QED
      BY <3>2, <3>3 DEF WaysInv, Unicast, Flooded
  <2>3. QED
    BY <2>1, <2>2 DEF BroadcastOnce
<1>4. QED
  BY <1>1, <1>2, <1>3, TypeCorrect, Ways, PacketsKeepTheirNumber, PTL DEF Spec

-----------------------------------------------------------------------------
(***************************************************************************)
(* What is stripped is reported.  While a host's packet crosses the        *)
(* fabric there is one copy of it besides the clones, and no trace of its  *)
(* records; from the ingress pipeline of the destination's leaf on there   *)
(* is either the clone that carries them or the report made of it.         *)
(***************************************************************************)
Cross(x) == x.kind = "ip" /\ x.src[1] # x.dst[1]

ReportsOf(p) == {r \in reports : r.pid = p}
ClonesOf(p) == {c \in copies : c.pid = p /\ c.inst = "clone" /\ c.rec}

Once(p) == \/ ReportsOf(p) = {} /\ \E c \in copies : ClonesOf(p) = {c}
           \/ ClonesOf(p) = {} /\ \E r \in reports : ReportsOf(p) = {r}

Never(p) == ReportsOf(p) = {} /\ ClonesOf(p) = {}

AtEnd(c) == c.stage = "egress" /\ c.at = c.dst[1]

\* The copy of packet p that is not for the controller.
Itself(c, p) == Cross(c) /\ c.pid = p /\ c.inst = "normal"

StripFor(p) ==
  /\ \A c, d \in copies : Itself(c, p) /\ Itself(d, p) => c = d
  /\ \A c \in copies : Itself(c, p) =>
       /\ \A e \in delivered : e.pid # p
       /\ IF AtEnd(c) /\ c.rec THEN Once(p) ELSE Never(p)
  /\ \A e \in delivered : Cross(e) /\ e.pid = p /\ e.recorded => Once(p)

StripInv == \A p \in 0..MaxPackets - 1 : StripFor(p)

\* A step that leaves the copies, deliveries and reports of a packet alone.
LEMMA StripElsewhere ==
  ASSUME NEW p, StripFor(p),
         \A x : x.pid = p => /\ (x \in copies' <=> x \in copies)
                            /\ (x \in delivered' <=> x \in delivered)
                            /\ (x \in reports' <=> x \in reports)
  PROVE  StripFor(p)'
<1>1. ReportsOf(p)' = ReportsOf(p)
  BY DEF ReportsOf
<1>2. ClonesOf(p)' = ClonesOf(p)
  BY DEF ClonesOf
<1>3. Never(p) => Never(p)'
  BY <1>1, <1>2 DEF Never
<1>4. ASSUME Once(p) PROVE Once(p)'
  <2>1. CASE ReportsOf(p) = {} /\ \E c \in copies : ClonesOf(p) = {c}
    <3>1. PICK c \in copies : ClonesOf(p) = {c}
      BY <2>1
    <3>2. c.pid = p
      BY <3>1 DEF ClonesOf
    <3>3. c \in copies'
      BY <3>2
    <3>4. QED
      BY <1>1, <1>2, <2>1, <3>1, <3>3 DEF Once
  <2>2. CASE ClonesOf(p) = {} /\ \E r \in reports : ReportsOf(p) = {r}
    <3>1. PICK r \in reports : ReportsOf(p) = {r}
      BY <2>2
    <3>2. r.pid = p
      BY <3>1 DEF ReportsOf
    <3>3. r \in reports'
      BY <3>2
    <3>4. QED
      BY <1>1, <1>2, <2>2, <3>1, <3>3 DEF Once
  <2>3. QED
    BY <1>4, <2>1, <2>2 DEF Once
<1>5. \A c, d \in copies' : Itself(c, p) /\ Itself(d, p) => c = d
  BY DEF StripFor, Itself
<1>6. ASSUME NEW c \in copies', Itself(c, p)
      PROVE  /\ \A e \in delivered' : e.pid # p
             /\ IF AtEnd(c) /\ c.rec THEN Once(p)' ELSE Never(p)'
  <2>1. c \in copies
    BY <1>6 DEF Itself
  <2>2. /\ \A e \in delivered : e.pid # p
        /\ IF AtEnd(c) /\ c.rec THEN Once(p) ELSE Never(p)
    BY <1>6, <2>1 DEF StripFor
  <2>3. QED
    BY <1>3, <1>4, <2>2
<1>7. \A e \in delivered' : Cross(e) /\ e.pid = p /\ e.recorded => Once(p)'
  BY <1>4 DEF StripFor
<1>8. QED
  BY <1>5, <1>6, <1>7 DEF StripFor

\* Ingress: the records are cloned where they will be stripped, and nowhere else.
LEMMA IngressStrips ==
  ASSUME TypeOK, WaysInv, TransparencyInv, NEW c \in copies, Ingress(c), Cross(c),
         StripFor(c.pid)
  PROVE  StripFor(c.pid)'
<1>1. /\ c \in Copy /\ c.stage = "ingress" /\ c.kind = "ip" /\ CopyOK(c) /\ Unicast(c)
      /\ c.inst = "normal" /\ c.src[1] # c.dst[1] /\ UNCHANGED <<delivered, reports>>
  BY DEF TypeOK, Ingress, Cross, TransparencyInv, WaysInv, Unicast, Flooded, Discovering, seen
<1>2. c.inPort # CpuPort /\ c.dst # Broadcast
  BY <1>1, WaitingFacts
<1>3. copies' = (copies \ {c}) \cup Forwarded(c) \cup IF ClonedToCpu(c) THEN {CpuClone(c)} ELSE {}
  BY <1>2 DEF Ingress
<1>4. \A d, e \in Forwarded(c) : d = e
  BY <1>2 DEF Forwarded
<1>5. /\ \A d : d \in Forwarded(c) \/ d = CpuClone(c) =>
               d.pid = c.pid /\ d.kind = c.kind /\ d.src = c.src /\ d.dst = c.dst
                 /\ d.at = c.at /\ d.stage = "egress"
      /\ \A d \in Forwarded(c) : d.inst = "normal" /\ d.rec = Recorded(c)
      /\ CpuClone(c).inst = "clone" /\ CpuClone(c).rec = c.rec
  BY <1>1, <1>2, QueuedFields, QueuedPorts
<1>6. Itself(c, c.pid)
  BY <1>1 DEF Itself, Cross
<1>7. /\ \A e \in delivered : e.pid # c.pid
      /\ Never(c.pid)
      /\ \A d \in copies : Itself(d, c.pid) => d = c
  BY <1>1, <1>6 DEF StripFor, AtEnd
<1>8. c \notin copies'
  BY <1>1, <1>3, <1>5
<1>9. \A d \in copies' : Itself(d, c.pid) => d \in Forwarded(c)
  BY <1>3, <1>5, <1>7, <1>8 DEF Itself
<1>10. ReportsOf(c.pid)' = {}
  BY <1>1, <1>7 DEF Never, ReportsOf
<1>11. ClonesOf(c.pid)' = IF ClonedToCpu(c) /\ c.rec THEN {CpuClone(c)} ELSE {}
  BY <1>3, <1>5, <1>7 DEF Never, ClonesOf
<1>12. SinkRule(Spine) \notin tables /\ RecordingIsSafe
  BY DEF TransparencyInv
<1>13. ClonedToCpu(c) /\ c.rec => c.at = c.dst[1]
  <2>1. ASSUME ClonedToCpu(c), c.rec PROVE c.at = c.dst[1]
    <3>1. CopyOK(CpuClone(c)) /\ CpuClone(c).outPort = CpuPort /\ CpuClone(c) \in Copy
      <4>1. CopyOK(CpuClone(c))
        BY <1>1, <1>12, <2>1, IngressKeepsCopies
      <4>2. CpuClone(c).outPort = CpuPort
        BY <1>1, CloneFields
      <4>3. CpuClone(c) \in Copy
        BY <1>1, IngressTypes DEF Typed
      <4>4. QED
        BY <4>1, <4>2, <4>3
    <3>2. c.at # Spine /\ c.at # c.src[1]
      BY <1>5, <2>1, <3>1, QueuedFacts
    <3>3. QED
      BY <1>1, <3>2, GatheredFacts
  <2>2. QED
    BY <2>1
<1>14. Recorded(c) /\ c.at = c.dst[1] => ClonedToCpu(c) /\ c.rec
  <2>1. c.dst[1] \in Leaves /\ c.dst[1] # Spine
    BY <1>1, Topology DEF CopyOK
  <2>2. ASSUME Recorded(c), c.at = c.dst[1] PROVE ClonedToCpu(c) /\ c.rec
    <3>1. SetUp /\ IsSink(c) /\ ~StartsRecording(c)
      BY <1>1, <1>12, <2>1, <2>2, RecordedFacts
    <3>2. AclRule(c.at) \in tables
      BY <2>1, <2>2, <3>1 DEF SetUp, TelemetryRules
    <3>3. QED
      BY <2>2, <3>1, <3>2 DEF ClonedToCpu, Recorded
  <2>3. QED
    BY <2>2
<1>15. ASSUME NEW d \in copies', Itself(d, c.pid)
       PROVE  IF AtEnd(d) /\ d.rec THEN Once(c.pid)' ELSE Never(c.pid)'
  <2>1. d \in Forwarded(c) /\ d.rec = Recorded(c) /\ d.at = c.at /\ d.dst = c.dst
        /\ d.stage = "egress"
    BY <1>5, <1>9, <1>15
  <2>2. CASE Recorded(c) /\ c.at = c.dst[1]
    <3>1. CpuClone(c) \in copies' /\ ClonesOf(c.pid)' = {CpuClone(c)}
      BY <1>3, <1>11, <1>14, <2>2
    <3>2. Once(c.pid)'
      BY <1>10, <3>1 DEF Once
    <3>3. QED
      BY <2>1, <2>2, <3>2 DEF AtEnd
  <2>3. CASE ~(Recorded(c) /\ c.at = c.dst[1])
    <3>1. ClonesOf(c.pid)' = {}
      BY <1>11, <1>13, <2>3 DEF Recorded
    <3>2. QED
      BY <1>10, <2>1, <2>3, <3>1 DEF Never, AtEnd
  <2>4. QED
    BY <2>2, <2>3
<1>16. \A d, e \in copies' : Itself(d, c.pid) /\ Itself(e, c.pid) => d = e
  BY <1>4, <1>9
<1>17. \A e \in delivered' : e.pid # c.pid
  BY <1>1, <1>7
<1>18. QED
  BY <1>15, <1>16, <1>17 DEF StripFor

\* Egress: a clone becomes a report, and only a packet that has a clone is stripped.
LEMMA EgressStrips ==
  ASSUME TypeOK, WaysInv, TransparencyInv, NEW c \in copies, Egress(c), Cross(c),
         StripFor(c.pid)
  PROVE  StripFor(c.pid)'
<1>1. /\ c \in Copy /\ c.stage = "egress" /\ c.kind = "ip" /\ CopyOK(c) /\ Unicast(c)
      /\ c.src[1] # c.dst[1] /\ (c.rec => SetUp)
  BY DEF TypeOK, Egress, Cross, TransparencyInv, WaysInv, Unicast, Flooded, Discovering,
         RecordingIsSafe
<1>2. /\ c.outPort = CpuPort => c.inst = "clone"
      /\ c.outPort # CpuPort => c.inst = "normal" /\ c.outPort = FlowPort(c.at, c.dst)
  BY <1>1, QueuedFacts
<1>3. CASE ToCpu(c)
  <2>1. c.inst = "clone" /\ copies' = copies \ {c} /\ UNCHANGED delivered
    BY <1>2, <1>3 DEF ToCpu
  <2>2. CASE ~c.rec
    <3>1. ReportsOf(c.pid)' = ReportsOf(c.pid) /\ ClonesOf(c.pid)' = ClonesOf(c.pid)
      BY <1>3, <2>1, <2>2 DEF ToCpu, ReportsOf, ClonesOf
    <3>2. (Once(c.pid) => Once(c.pid)') /\ (Never(c.pid) => Never(c.pid)')
      BY <3>1 DEF Once, Never, ReportsOf, ClonesOf
    <3>3. QED
      BY <2>1, <3>2 DEF StripFor
  <2>3. CASE c.rec
    <3>1. PICK r : reports' = reports \cup {r} /\ r.pid = c.pid
      <4>1. PICK r : /\ reports' = reports \cup {r}
                     /\ r = [pid |-> c.pid, kind |-> c.kind, src |-> c.src, dst |-> c.dst,
                             from |-> c.at, cells |-> ReadRecords(Pushed(c).n, Body(c))]
        BY <1>3, <2>3 DEF ToCpu
      <4>2. QED
        BY <4>1
    <3>2. c \in ClonesOf(c.pid)
      BY <2>1, <2>3 DEF ClonesOf
    <3>3. ~Never(c.pid)
      BY <3>2 DEF Never
    <3>4. ASSUME Once(c.pid) PROVE Once(c.pid)'
      <4>1. ReportsOf(c.pid) = {} /\ ClonesOf(c.pid) = {c}
        BY <3>2, <3>4 DEF Once
      <4>2. ReportsOf(c.pid)' = {r} /\ ClonesOf(c.pid)' = {} /\ r \in reports'
        BY <2>1, <3>1, <4>1 DEF ReportsOf, ClonesOf
      <4>3. QED
        BY <4>2 DEF Once
    <3>5. QED
      BY <2>1, <3>3, <3>4 DEF StripFor
  <2>4. QED
    BY <2>2, <2>3
<1>4. CASE DropReplica(c)
  BY <1>1, <1>4 DEF DropReplica, Unicast
<1>5. ASSUME c.outPort # CpuPort
      PROVE  /\ c.inst = "normal"
             /\ \A e \in delivered : e.pid # c.pid
             /\ IF AtEnd(c) /\ c.rec THEN Once(c.pid) ELSE Never(c.pid)
             /\ \A d \in copies : Itself(d, c.pid) => d = c
  BY <1>1, <1>2, <1>5 DEF StripFor, Itself, Cross
<1>6. CASE ToHost(c)
  <2>1. PICK e : delivered' = delivered \cup {e} /\ e.recorded = c.rec
    <3>1. PICK header, body, host, trail :
            /\ header = (c.rec /\ ~Stripped(c)) /\ body = Body(c)
            /\ host = <<c.at, c.outPort>> /\ trail = Append(c.trail, c.at)
      OBVIOUS
    <3>2. PICK e : e = [pid |-> c.pid, kind |-> c.kind, src |-> c.src, dst |-> c.dst,
                        host |-> host, header |-> header, recorded |-> c.rec, body |-> body,
                        orig |-> c.orig, trail |-> trail]
      OBVIOUS
    <3>3. delivered' = delivered \cup {e}
      BY <1>6, <3>1, <3>2 DEF ToHost
    <3>4. e.recorded = c.rec
      BY <3>2
    <3>5. QED
      BY <3>3, <3>4
  <2>2. c.outPort # CpuPort /\ copies' = copies \ {c} /\ UNCHANGED reports
        /\ <<c.at, c.outPort>> \in Host
    BY <1>6 DEF ToHost, GoesOut
  <2>3. AtEnd(c)
    <3>1. <<c.at, c.outPort>> = c.dst
      BY <1>1, <2>2, DeliveryIsIntact
    <3>2. QED
      BY <1>1, <3>1 DEF AtEnd
  <2>4. ClonesOf(c.pid)' = ClonesOf(c.pid) /\ ReportsOf(c.pid)' = ReportsOf(c.pid)
    BY <1>5, <2>2 DEF ClonesOf, ReportsOf
  <2>5. c.rec => Once(c.pid)'
    BY <1>5, <2>2, <2>3, <2>4 DEF Once, ReportsOf, ClonesOf
  <2>6. \A d \in copies' : ~Itself(d, c.pid)
    BY <1>5, <2>2
  <2>7. \A f \in delivered' : f.pid = c.pid /\ f.recorded => Once(c.pid)'
    BY <1>5, <2>1, <2>2, <2>5
  <2>8. QED
    BY <2>6, <2>7 DEF StripFor
<1>7. CASE ToSwitch(c)
  <2>1. /\ c.outPort # CpuPort /\ <<c.at, c.outPort>> \notin Host
        /\ UNCHANGED <<delivered, reports>>
        /\ c \notin copies' \ {Crossed(c)} /\ copies \ {c} \subseteq copies'
        /\ copies' \subseteq (copies \ {c}) \cup {Crossed(c)}
    BY <1>7 DEF ToSwitch, GoesOut, Crossed, seen
  <2>2. /\ Crossed(c).stage = "ingress" /\ Crossed(c).inst = "normal"
    BY <1>1, CrossedFields
  <2>3. ~AtEnd(c)
    <3>1. c.dst \in Host /\ c.dst = <<c.dst[1], c.dst[2]>> /\ c.dst[1] # Spine
      BY <1>1, Topology DEF CopyOK
    <3>2. QED
      BY <1>2, <2>1, <3>1 DEF AtEnd, FlowPort
  <2>4. Never(c.pid)
    BY <1>5, <2>1, <2>3
  <2>5. ClonesOf(c.pid)' = {} /\ ReportsOf(c.pid)' = {}
    BY <1>5, <2>1, <2>2, <2>4 DEF Never, ClonesOf, ReportsOf
  <2>6. \A d \in copies' : Itself(d, c.pid) => d = Crossed(c)
    BY <1>5, <2>1
  <2>7. \A e \in delivered' : e.pid # c.pid
    BY <1>5, <2>1
  <2>8. QED
    BY <2>2, <2>5, <2>6, <2>7 DEF StripFor, Never, AtEnd
<1>8. QED
  BY <1>3, <1>4, <1>6, <1>7 DEF Egress

LEMMA ForwardStrips ==
  ASSUME TypeOK, WaysInv, TransparencyInv, PacketsInv, StripInv,
         NEW c \in copies, Ingress(c) \/ Egress(c)
  PROVE  StripInv'
<1>1. SUFFICES ASSUME NEW p \in 0..MaxPackets - 1 PROVE StripFor(p)'
  BY DEF StripInv
<1>2. StripFor(p)
  BY DEF StripInv
<1>3. /\ copies \ copies' \subseteq {c}
      /\ delivered \subseteq delivered' /\ reports \subseteq reports'
      /\ \A x : x \in copies' \ copies \/ x \in delivered' \ delivered \/ x \in reports' \ reports
                 => x.pid = c.pid /\ SamePacket(x, c)
  BY ForwardTraces
<1>4. CASE p # c.pid
  BY <1>2, <1>3, <1>4, StripElsewhere
<1>5. CASE p = c.pid /\ Cross(c)
  BY <1>2, <1>5, IngressStrips, EgressStrips
<1>6. CASE p = c.pid /\ ~Cross(c)
  <2>1. \A x \in copies \cup delivered : x.pid = p => SamePacket(x, c)
    BY <1>6 DEF PacketsInv, Traces
  <2>2. \A x \in copies' \cup delivered' : x.pid = p => SamePacket(x, c)
    BY <1>3, <2>1
  <2>3. \A x \in copies' \cup delivered' : x.pid = p => ~Cross(x)
    BY <1>6, <2>2 DEF SamePacket, Cross
  <2>4. QED
    BY <2>3 DEF StripFor, Itself
<1>7. QED
  BY <1>4, <1>5, <1>6

LEMMA TrafficStrips ==
  ASSUME TypeOK, WaysInv, PacketsInv, StripInv, Traffic
  PROVE  StripInv'
<1>1. SUFFICES ASSUME NEW p \in 0..MaxPackets - 1 PROVE StripFor(p)'
  BY DEF StripInv
<1>2. PICK c : Launch(c) /\ c.pid = sent /\ c.stage = "ingress" /\ c.inst = "normal"
  BY SentIsOnItsWay
<1>3. copies' = copies \cup {c} /\ UNCHANGED <<delivered, reports>>
  BY <1>2 DEF Launch, seen
<1>4. \A x \in Traces : x.pid # sent
  <2>1. \A x \in Traces : x.pid \in Nat /\ x.pid < sent /\ sent \in Nat
    BY DEF PacketsInv, Traces, TypeOK, Copy, Delivery, Report
  <2>2. QED
    BY <2>1
<1>5. CASE p # sent
  BY <1>2, <1>3, <1>5, StripElsewhere DEF StripInv
<1>6. CASE p = sent
  <2>1. \A x \in Traces : x.pid # p
    BY <1>4, <1>6
  <2>2. ReportsOf(p)' = {} /\ ClonesOf(p)' = {}
    BY <1>2, <1>3, <2>1 DEF ReportsOf, ClonesOf, Traces
  <2>3. \A d \in copies' : Itself(d, p) => d = c
    BY <1>3, <2>1 DEF Itself, Traces
  <2>4. \A e \in delivered' : e.pid # p
    BY <1>3, <2>1 DEF Traces
  <2>5. QED
    BY <1>2, <2>2, <2>3, <2>4 DEF StripFor, Never, AtEnd
<1>7. QED
  BY <1>5, <1>6

(***************************************************************************)
(* A recorded packet that crosses the fabric is not stripped and delivered *)
(* without its records: they are reported once, or will be.                *)
(***************************************************************************)
THEOREM StrippedIsReportedOnce == ASSUME Careful PROVE Spec => []StrippedIsReported
<1>1. Init => StripInv
  BY DEF Init, StripInv, StripFor
<1>2. TypeOK /\ WaysInv /\ PacketsInv /\ TransparencyInv /\ StripInv /\ [Next]_vars => StripInv'
  <2> SUFFICES ASSUME TypeOK, WaysInv, PacketsInv, TransparencyInv, StripInv, [Next]_vars
               PROVE  StripInv'
    OBVIOUS
  <2>1. CASE Forward
    BY <2>1, ForwardStrips DEF Forward
  <2>2. CASE Traffic
    BY <2>2, TrafficStrips
  <2>3. CASE UNCHANGED <<copies, delivered, reports>>
    BY <2>3, StripElsewhere DEF StripInv
  <2>4. CASE Sync \/ Application
    BY <2>3, <2>4, ControlKeepsGroups DEF WaysInv
  <2>5. QED
    BY <2>1, <2>2, <2>3, <2>4 DEF Next, vars
<1>3. TypeOK /\ PacketsInv /\ StripInv => StrippedIsReported
  <2> SUFFICES ASSUME TypeOK, PacketsInv, StripInv,
                      NEW d \in delivered, Cross(d), d.recorded
               PROVE  Cardinality(ReportsOf(d.pid)) + Cardinality(ClonesOf(d.pid)) = 1
    BY DEF StrippedIsReported, Cross, ReportsOf, ClonesOf
  <2>1. d.pid \in 0..MaxPackets - 1
    <3>1. d.pid \in Nat /\ sent \in 0..MaxPackets /\ d.pid < sent /\ MaxPackets \in Nat
      BY TopologyAssumption DEF TypeOK, Delivery, PacketsInv, Traces
    <3>2. QED
      BY <3>1
  <2>2. Once(d.pid)
    BY <2>1 DEF StripInv, StripFor
  <2>3. \A x : Cardinality({x}) = 1
    BY FS_Singleton
  <2>4. Cardinality({}) = 0
    BY FS_EmptySet
  <2>5. CASE ReportsOf(d.pid) = {} /\ \E c \in copies : ClonesOf(d.pid) = {c}
    <3>1. Cardinality(ReportsOf(d.pid)) = 0 /\ Cardinality(ClonesOf(d.pid)) = 1
      BY <2>3, <2>4, <2>5
    <3>2. QED
      BY <3>1
  <2>6. CASE ClonesOf(d.pid) = {} /\ \E r \in reports : ReportsOf(d.pid) = {r}
    <3>1. Cardinality(ReportsOf(d.pid)) = 1 /\ Cardinality(ClonesOf(d.pid)) = 0
      BY <2>3, <2>4, <2>6
    <3>2. QED
      BY <3>1
  <2>7. QED
    BY <2>2, <2>5, <2>6 DEF Once
<1>4. QED
  BY <1>1, <1>2, <1>3, TypeCorrect, Ways, PacketsKeepTheirNumber, Transparency, PTL DEF Spec

-----------------------------------------------------------------------------
(***************************************************************************)
(* Probes.  Where the telemetry rules stay on the switches a probe leaves  *)
(* a trace at both ends of its path: a report, or the clone for one.       *)
(***************************************************************************)
Traced(p, s) ==
  \/ \E r \in reports : r.pid = p /\ r.from = s
  \/ \E c \in copies : /\ c.pid = p /\ c.kind = "probe" /\ c.rec
                       /\ c.inst = "clone" /\ c.stage = "egress" /\ c.at = s

(***************************************************************************)
(* How ReportedBySinkOnly fails: a probe that a host sends across the      *)
(* fabric (records/send.py) is reported by two switches, by the source's   *)
(* leaf with that leaf's metrics alone and by the destination's leaf with  *)
(* the full path, so one probe puts the source leaf's metrics into the     *)
(* database twice.                                                         *)
(***************************************************************************)
ProbeIsReportedTwice ==
  \A d \in delivered : d.kind = "probe" =>
    /\ ~d.header /\ d.body = <<>>
    /\ \A r \in reports : r.pid = d.pid =>
         r.cells = IF r.from = d.src[1] THEN <<Metric(d.src[1])>>
                   ELSE <<Metric(d.dst[1]), Metric(Spine), Metric(d.src[1])>>
    /\ \A s \in {d.src[1], d.dst[1]} :
         \/ \E r \in reports : r.pid = d.pid /\ r.from = s
         \/ \E c \in copies : c.pid = d.pid /\ c.inst = "clone" /\ c.at = s

\* What the leaf s reports of a probe from src to dst.
PathSeen(src, dst, s) ==
  IF s = src[1] THEN <<Metric(src[1])>>
  ELSE <<Metric(dst[1]), Metric(Spine), Metric(src[1])>>

ProbeOK(c) ==
  /\ c.rec /\ c.orig = <<>> /\ c.n = Len(Gathered(c))
  /\ c.stage = "ingress" => c.rest = Gathered(c)
  /\ c.stage = "egress" => /\ c.stack = Gathered(c) /\ c.rest = <<>>
                           /\ c.inst = "clone" => c.at # Spine
                           /\ c.inst = "normal" => (c.sink <=> c.at # Spine)
  /\ c.inst = "normal" =>
       /\ c.stage = "egress" \/ c.at # c.src[1] => Traced(c.pid, c.src[1])
       /\ c.stage = "egress" /\ c.at = c.dst[1] => Traced(c.pid, c.dst[1])

ProbeInv ==
  /\ SetUp /\ SinkRule(Spine) \notin store \cup tables
  /\ \A c \in copies : c.kind = "probe" => ProbeOK(c)
  /\ \A r \in reports : r.kind = "probe" => r.cells = PathSeen(r.src, r.dst, r.from)
  /\ \A d \in delivered : d.kind = "probe" =>
       ~d.header /\ d.body = <<>> /\ Traced(d.pid, d.src[1]) /\ Traced(d.pid, d.dst[1])

\* What a probe has gathered where it is.
LEMMA ProbePath ==
  ASSUME NEW c \in Copy, Unicast(c)
  PROVE  /\ Gathered(c) \in Seq(Cell) /\ Len(Gathered(c)) \in 0..2
         /\ c.at = c.src[1] => Gathered(c) = <<>>
         /\ c.at = Spine => Gathered(c) = <<Metric(c.src[1])>>
         /\ c.at # c.src[1] /\ c.at # Spine => Gathered(c) = <<Metric(Spine), Metric(c.src[1])>>
         /\ c.at \in Switch /\ c.src[1] # Spine /\ c.dst[1] # Spine
         /\ Metric(c.at) \in Cell /\ Metric(Spine) \in Cell /\ Metric(c.src[1]) \in Cell
<1>1. c.src[1] \in Leaves /\ c.dst[1] \in Leaves
  BY Topology DEF Unicast
<1>2. c.src[1] # Spine /\ c.dst[1] # Spine
  BY <1>1, Topology
<1>3. c.at \in Switch
  BY <1>1 DEF Unicast, Switch
<1>4. Metric(c.at) \in Cell /\ Metric(Spine) \in Cell /\ Metric(c.src[1]) \in Cell
  <2>1. Spine \in Nat /\ c.src[1] \in Nat /\ c.at \in Nat
    BY <1>1, <1>3, Topology DEF Spine
  <2>2. QED
    BY <2>1, MetricIsCell
<1>5. CASE c.at = c.src[1]
  <2>1. Gathered(c) = <<>>
    BY <1>5 DEF Gathered
  <2>2. <<>> \in Seq(Cell) /\ Len(<<>>) = 0
    BY EmptySeq
  <2>3. QED
    BY <1>2, <1>3, <1>4, <1>5, <2>1, <2>2
<1>6. CASE c.at = Spine
  <2>1. Gathered(c) = <<Metric(c.src[1])>>
    BY <1>2, <1>6 DEF Gathered
  <2>2. <<Metric(c.src[1])>> \in Seq(Cell) /\ Len(<<Metric(c.src[1])>>) = 1
    BY <1>4
  <2>3. QED
    BY <1>2, <1>3, <1>4, <1>6, <2>1, <2>2
<1>7. CASE c.at # c.src[1] /\ c.at # Spine
  <2>1. Gathered(c) = <<Metric(Spine), Metric(c.src[1])>>
    BY <1>7 DEF Gathered
  <2>2. /\ <<Metric(Spine), Metric(c.src[1])>> \in Seq(Cell)
        /\ Len(<<Metric(Spine), Metric(c.src[1])>>) = 2
    BY <1>4
  <2>3. QED
    BY <1>2, <1>3, <1>4, <1>7, <2>1, <2>2
<1>8. QED
  BY <1>5, <1>6, <1>7

\* Of a packet that is nothing but its records the parser takes everything.
LEMMA OnlyRecords ==
  ASSUME NEW g \in Seq(Cell), Len(g) \in 0..2
  PROVE  Stack(Len(g), g) = g /\ Unparsed(Len(g), g) = <<>>
<1>. PICK n \in 0..2 : n = Len(g)
  OBVIOUS
<1>1. n \in Nat /\ MaxRec \in Nat /\ n < MaxRec
  BY MaxRecAssumption
<1>2. Extracted(Len(g), g) = Len(g)
  <2>1. CASE Len(g) = 0
    BY <2>1 DEF Extracted
  <2>2. CASE Len(g) # 0
    <3>1. PICK T : T = {n + 1, MaxRec, n}
      OBVIOUS
    <3>2. PICK k : k = Extracted(Len(g), g)
      OBVIOUS
    <3>3. n \in T /\ \A j \in T : n <= j
      BY <1>1, <3>1
    <3>4. k = CHOOSE i \in T : \A j \in T : i <= j
      BY <2>2, <3>1, <3>2 DEF Extracted
    <3>5. k \in T /\ \A j \in T : k <= j
      BY <3>3, <3>4
    <3>6. QED
      BY <1>1, <3>1, <3>2, <3>3, <3>5
  <2>3. QED
    BY <2>1, <2>2
<1>3. SubSeq(g, 1, Len(g)) = g
  BY SubSeqFull
<1>4. SubSeq(g, Len(g) + 1, Len(g)) = <<>>
  <2>1. n + 1 \in Int /\ n \in Int /\ n < n + 1
    BY <1>1
  <2>2. QED
    BY <2>1, SubSeqEmpty
<1>5. QED
  BY <1>2, <1>3, <1>4 DEF Stack, Unparsed

\* What the deparser makes of it.
LEMMA ProbeBody ==
  ASSUME NEW c \in Copy, c.rec, NEW g \in Seq(Cell), Len(g) \in 0..2, c.stack = g,
         c.n = Len(g), c.rest = <<>>, MetricRule(c.at) \in tables, Metric(c.at) \in Cell
  PROVE  /\ Pushed(c).n = Len(g) + 1
         /\ ~Stripped(c) => Body(c) = <<Metric(c.at)>> \o g
         /\ Stripped(c) => Body(c) = <<>>
         /\ <<Metric(c.at)>> \o g \in Seq(Cell) /\ Len(<<Metric(c.at)>> \o g) = Len(g) + 1
<1>. PICK n \in 0..2 : n = Len(g)
  OBVIOUS
<1>1. PICK m \in Cell : m = Metric(c.at)
  OBVIOUS
<1>2. PICK f \in Seq(Cell) : f = <<m>> /\ Len(f) = 1
  BY PathCells
<1>3. f \o g \in Seq(Cell) /\ Len(f \o g) = Len(g) + 1
  <2>1. f \o g \in Seq(Cell) /\ Len(f \o g) = Len(f) + Len(g)
    BY ConcatProperties
  <2>2. QED
    BY <1>2, <2>1
<1>4. PushFront(m, g) = f \o g
  <2>1. n < MaxRec
    BY MaxRecAssumption
  <2>2. QED
    BY <1>2, <2>1 DEF PushFront
<1>5. Byte(n + 1) = n + 1
  BY DEF Byte
<1>6. Pushed(c) = [c EXCEPT !.stack = PushFront(m, c.stack), !.n = Byte(c.n + 1)]
  BY <1>1 DEF Pushed
<1>7. Pushed(c).n = Len(g) + 1 /\ Pushed(c).stack = f \o g /\ Pushed(c).rest = <<>>
  BY <1>4, <1>5, <1>6 DEF Copy
<1>8. ASSUME ~Stripped(c) PROVE Body(c) = f \o g
  <2>1. Body(c) = (f \o g) \o <<>>
    BY <1>7, <1>8 DEF Body, Emit
  <2>2. QED
    BY <1>3, <2>1, ConcatEmptySeq
<1>9. ASSUME Stripped(c) PROVE Body(c) = <<>>
  <2>1. Body(c) = ClearRecords(f \o g) \o <<>>
    BY <1>7, <1>9 DEF Body, Emit
  <2>2. Len(f \o g) \in Int /\ Len(f \o g) < 4
    <3>1. n + 1 \in Int /\ n + 1 < 4
      OBVIOUS
    <3>2. QED
      BY <1>3, <3>1
  <2>3. ClearRecords(f \o g) = <<>>
    BY <2>2, SubSeqEmpty DEF ClearRecords
  <2>4. <<>> \o <<>> = <<>>
    <3>1. <<>> \in Seq(Cell)
      BY EmptySeq
    <3>2. QED
      BY <3>1, ConcatEmptySeq
  <2>5. QED
    BY <2>1, <2>3, <2>4
<1>10. QED
  BY <1>1, <1>2, <1>3, <1>7, <1>8, <1>9

\* A trace stays.
LEMMA TracedStays ==
  ASSUME TypeOK, WaysInv, NEW c \in copies, Ingress(c) \/ Egress(c), NEW p, NEW s, Traced(p, s)
  PROVE  Traced(p, s)'
<1>1. reports \subseteq reports' /\ copies \ copies' \subseteq {c}
  BY ForwardTraces
<1>2. CASE \E r \in reports : r.pid = p /\ r.from = s
  BY <1>1, <1>2 DEF Traced
<1>3. ASSUME NEW d \in copies, d.pid = p, d.kind = "probe", d.rec, d.inst = "clone",
             d.stage = "egress", d.at = s
      PROVE  Traced(p, s)'
  <2>1. CASE d \in copies'
    BY <1>3, <2>1 DEF Traced
  <2>2. CASE d \notin copies'
    <3>1. d = c /\ Egress(c)
      BY <1>1, <1>3, <2>2 DEF Ingress
    <3>2. Unicast(c)
      BY <1>3, <3>1 DEF WaysInv, Flooded, Discovering
    <3>3. c.outPort = CpuPort
      BY <1>3, <3>1, <3>2 DEF Unicast
    <3>4. ToCpu(c)
      BY <3>1, <3>3 DEF Egress, DropReplica, ToHost, ToSwitch, GoesOut
    <3>5. PICK cells : cells = ReadRecords(Pushed(c).n, Body(c))
      OBVIOUS
    <3>6. PICK r : r = [pid |-> c.pid, kind |-> c.kind, src |-> c.src, dst |-> c.dst,
                        from |-> c.at, cells |-> cells]
      OBVIOUS
    <3>7. reports' = reports \cup {r}
      BY <1>3, <3>1, <3>4, <3>5, <3>6 DEF ToCpu
    <3>8. r.pid = p /\ r.from = s
      BY <1>3, <3>1, <3>6
    <3>9. QED
      BY <3>7, <3>8 DEF Traced
  <2>3. QED
    BY <2>1, <2>2
<1>4. QED
  BY <1>2, <1>3 DEF Traced

\* The telemetry rules stay where they are.
LEMMA ControlKeepsTelemetry ==
  ASSUME TypeOK, "cleanup" \notin Operations, SetUp, SinkRule(Spine) \notin store \cup tables,
         Application \/ Sync
  PROVE  SetUp' /\ SinkRule(Spine) \notin (store \cup tables)'
<1> USE DEF SetUp
<1>1. ASSUME NEW operation, NEW rules, Write(operation, store \cup rules),
             SinkRule(Spine) \notin rules
      PROVE  SetUp' /\ SinkRule(Spine) \notin (store \cup tables)'
  BY <1>1 DEF Operate, Write
<1>2. ASSUME NEW s \in Switch, SetUpBridging(s) \/ SetUpMetrics(s)
      PROVE  SetUp' /\ SinkRule(Spine) \notin (store \cup tables)'
  <2>1. CASE SetUpBridging(s)
    <3>1. PICK late \in SUBSET LateConfig :
            Write("bridging", store \cup BridgingEntries(s, Switch \ late))
      BY <2>1 DEF SetUpBridging
    <3>2. SinkRule(Spine) \notin Group(s, Switch \ late)
      BY DEF SinkRule, Group, GroupEntry
    <3>3. QED
      BY <1>1, <3>1, <3>2, SpineIsNoSink DEF BridgingEntries
  <2>2. CASE SetUpMetrics(s)
    BY <1>1, <2>2, SpineIsNoSink DEF SetUpMetrics
  <2>3. QED
    BY <1>2, <2>1, <2>2
<1>3. ASSUME NEW h \in Host, LearnHost(h)
      PROVE  SetUp' /\ SinkRule(Spine) \notin (store \cup tables)'
  BY <1>1, <1>3, SpineIsNoSink DEF LearnHost
<1>4. ASSUME NEW src \in Host, NEW dst \in Host, EnableRecording(src, dst)
      PROVE  SetUp' /\ SinkRule(Spine) \notin (store \cup tables)'
  BY <1>1, <1>4, SpineIsNoSink DEF EnableRecording
<1>5. ASSUME NEW src \in Host, NEW dst \in Host, StopRecording(src, dst)
      PROVE  SetUp' /\ SinkRule(Spine) \notin (store \cup tables)'
  BY <1>5, TelemetryIsNotRecording DEF StopRecording, Operate, Write
<1>6. ~CleanUp
  BY DEF CleanUp, Operate
<1>9. CASE RemoveGroups
  <2>1. \A r \in groupsLeft : r.table = "multicast_group"
    BY DEF TypeOK, GroupEntry
  <2>2. \A r \in TelemetryRules : r.table # "multicast_group"
    BY DEF TelemetryRules, SinkRule, MetricRule, AclRule
  <2>3. QED
    BY <1>9, <2>1, <2>2 DEF RemoveGroups
<1>7. CASE Sync
  BY <1>7 DEF Sync, SyncAdd, SyncRemove
<1>8. QED
  BY <1>2, <1>3, <1>4, <1>5, <1>6, <1>7, <1>9 DEF Application

\* A step that adds no probe and nothing said of one.
LEMMA ProbesElsewhere ==
  ASSUME ProbeInv, SetUp', SinkRule(Spine) \notin (store \cup tables)',
         \A p, s : Traced(p, s) => Traced(p, s)',
         \A c \in copies' \ copies : c.kind = "probe" => ProbeOK(c)',
         \A r \in reports' \ reports : r.kind = "probe" => r.cells = PathSeen(r.src, r.dst, r.from),
         \A d \in delivered' \ delivered : d.kind = "probe" =>
            ~d.header /\ d.body = <<>> /\ Traced(d.pid, d.src[1])' /\ Traced(d.pid, d.dst[1])'
  PROVE  ProbeInv'
<1>1. ASSUME NEW c \in copies, c.kind = "probe" PROVE ProbeOK(c)'
  BY <1>1 DEF ProbeInv, ProbeOK
<1>2. \A d \in delivered : d.kind = "probe" =>
         ~d.header /\ d.body = <<>> /\ Traced(d.pid, d.src[1])' /\ Traced(d.pid, d.dst[1])'
  BY DEF ProbeInv
<1>3. QED
  BY <1>1, <1>2 DEF ProbeInv

\* Ingress clones a probe at every leaf.
LEMMA IngressTraces ==
  ASSUME TypeOK, WaysInv, ProbeInv, NEW c \in copies, Ingress(c), c.kind = "probe"
  PROVE  \A d \in copies' \ copies : ProbeOK(d)'
<1>1. /\ c \in Copy /\ c.stage = "ingress" /\ c.inst = "normal" /\ Unicast(c) /\ ProbeOK(c)
      /\ c.src \in Host /\ c.dst \in Host /\ LegOK(c) /\ c.rec
  BY DEF TypeOK, Ingress, WaysInv, Unicast, Flooded, Discovering, ProbeInv, ProbeOK
<1>2. /\ Gathered(c) \in Seq(Cell) /\ Len(Gathered(c)) \in 0..2
      /\ c.at \in Switch /\ c.src[1] # Spine /\ c.dst[1] # Spine
  BY <1>1, ProbePath
<1>3. c.n = Len(Gathered(c)) /\ c.rest = Gathered(c) /\ c.orig = <<>>
  BY <1>1 DEF ProbeOK
<1>4. Stack(c.n, c.rest) = Gathered(c) /\ Unparsed(c.n, c.rest) = <<>>
  BY <1>2, <1>3, OnlyRecords
<1>5. c.inPort # CpuPort /\ c.dst # Broadcast
  BY <1>1, LegFacts, GroupAddresses
<1>6. IsSink(c) <=> c.at # Spine
  BY <1>2 DEF ProbeInv, SetUp, TelemetryRules, IsSink, Switch
<1>7. Recorded(c) /\ ~StartsRecording(c)
  BY <1>1 DEF Recorded, StartsRecording
<1>8. ClonedToCpu(c) <=> c.at # Spine
  <2>1. c.at # Spine => AclRule(c.at) \in tables
    BY <1>2 DEF ProbeInv, SetUp, TelemetryRules, Switch
  <2>2. c.kind \notin {"arp", "lldp"}
    OBVIOUS
  <2>3. QED
    BY <1>6, <1>7, <2>1, <2>2 DEF ClonedToCpu
<1>9. copies' = (copies \ {c}) \cup Forwarded(c) \cup IF ClonedToCpu(c) THEN {CpuClone(c)} ELSE {}
  BY <1>5 DEF Ingress
<1>10. ASSUME NEW d, d \in Forwarded(c) \/ d = CpuClone(c)
       PROVE  /\ d.pid = c.pid /\ d.kind = c.kind /\ d.src = c.src /\ d.dst = c.dst
              /\ d.at = c.at /\ d.stage = "egress" /\ d.orig = <<>> /\ d.rec /\ d.n = c.n
              /\ d.stack = Gathered(c) /\ d.rest = <<>>
              /\ d \in Forwarded(c) => d.inst = "normal" /\ d.sink = IsSink(c)
              /\ d = CpuClone(c) => d.inst = "clone"
              /\ Gathered(d) = Gathered(c)
  <2>1. /\ d.pid = c.pid /\ d.kind = c.kind /\ d.src = c.src /\ d.dst = c.dst
        /\ d.at = c.at /\ d.stage = "egress" /\ d.orig = <<>>
        /\ d.stack = Gathered(c) /\ d.rest = <<>>
    BY <1>1, <1>3, <1>4, <1>10, QueuedFields
  <2>2. d \in Forwarded(c) => d.inst = "normal" /\ d.sink = IsSink(c) /\ d.rec /\ d.n = c.n
    BY <1>1, <1>5, <1>7, QueuedPorts
  <2>3. d = CpuClone(c) => d.inst = "clone" /\ d.rec /\ d.n = c.n
    BY <1>1, QueuedPorts
  <2>4. Gathered(d) = Gathered(c)
    BY <2>1 DEF Gathered
  <2>5. QED
    BY <1>10, <2>1, <2>2, <2>3, <2>4
<1>11. c.at # Spine => Traced(c.pid, c.at)'
  <2>1. ASSUME c.at # Spine PROVE CpuClone(c) \in copies'
    BY <1>8, <1>9, <2>1
  <2>2. PICK d : d = CpuClone(c)
    OBVIOUS
  <2>3. d.pid = c.pid /\ d.kind = "probe" /\ d.rec /\ d.inst = "clone" /\ d.stage = "egress"
        /\ d.at = c.at
    BY <1>10, <2>2
  <2>4. QED
    BY <2>1, <2>2, <2>3 DEF Traced
<1>12. c.at # c.src[1] => Traced(c.pid, c.src[1])'
  BY <1>1, TracedStays DEF ProbeOK
<1>13. ASSUME NEW d \in Forwarded(c) PROVE ProbeOK(d)'
  <2>1. Traced(d.pid, d.src[1])'
    BY <1>2, <1>10, <1>11, <1>12
  <2>2. d.at = d.dst[1] => Traced(d.pid, d.dst[1])'
    BY <1>2, <1>10, <1>11
  <2>3. QED
    BY <1>3, <1>6, <1>10, <2>1, <2>2 DEF ProbeOK
<1>14. ASSUME c.at # Spine PROVE ProbeOK(CpuClone(c))'
  <2>1. PICK d : d = CpuClone(c)
    OBVIOUS
  <2>2. /\ d.at = c.at /\ d.stage = "egress" /\ d.orig = <<>> /\ d.rec /\ d.n = c.n
        /\ d.stack = Gathered(c) /\ d.rest = <<>> /\ d.inst = "clone" /\ Gathered(d) = Gathered(c)
    BY <1>10, <2>1
  <2>3. ProbeOK(d)'
    BY <1>3, <1>14, <2>2 DEF ProbeOK
  <2>4. QED
    BY <2>1, <2>3
<1>15. QED
  BY <1>8, <1>9, <1>13, <1>14

\* Egress prepends the switch's metrics, and strips the probe at its destination.
LEMMA EgressFacts ==
  ASSUME TypeOK, WaysInv, ProbeInv, NEW c \in copies, Egress(c), c.kind = "probe"
  PROVE  /\ c \in Copy /\ Unicast(c) /\ c.stage = "egress" /\ c.rec
         /\ c.outPort = CpuPort <=> c.inst = "clone"
         /\ c.outPort # CpuPort =>
              c.inst = "normal" /\ c.outPort = FlowPort(c.at, c.dst) /\ (c.sink <=> c.at # Spine)
         /\ Pushed(c).n = Len(Gathered(c)) + 1
         /\ ~Stripped(c) => Body(c) = <<Metric(c.at)>> \o Gathered(c)
         /\ Stripped(c) => Body(c) = <<>>
         /\ <<Metric(c.at)>> \o Gathered(c) \in Seq(Cell)
         /\ Len(<<Metric(c.at)>> \o Gathered(c)) = Len(Gathered(c)) + 1
<1>1. /\ c \in Copy /\ c.stage = "egress" /\ Unicast(c) /\ ProbeOK(c) /\ c.dst \in Host
  BY DEF TypeOK, Egress, WaysInv, Unicast, Flooded, Discovering, ProbeInv
<1>2. c.rec /\ c.n = Len(Gathered(c)) /\ c.stack = Gathered(c) /\ c.rest = <<>>
  BY <1>1 DEF ProbeOK
<1>3. Gathered(c) \in Seq(Cell) /\ Len(Gathered(c)) \in 0..2 /\ c.at \in Switch
      /\ Metric(c.at) \in Cell
  BY <1>1, ProbePath
<1>4. MetricRule(c.at) \in tables
  BY <1>3 DEF ProbeInv, SetUp, TelemetryRules
<1>5. FlowPort(c.at, c.dst) # CpuPort
  <2>1. c.dst[1] # CpuPort /\ c.dst[2] \in {1, 2}
    BY <1>1, Topology
  <2>2. QED
    BY <2>1 DEF FlowPort, CpuPort, Uplink
<1>6. \/ c.inst = "normal" /\ c.outPort = FlowPort(c.at, c.dst)
      \/ c.inst = "clone" /\ c.outPort = CpuPort
  BY <1>1 DEF Unicast
<1>7. c.inst = "normal" => (c.sink <=> c.at # Spine)
  BY <1>1 DEF ProbeOK
<1>8. /\ Pushed(c).n = Len(Gathered(c)) + 1
      /\ ~Stripped(c) => Body(c) = <<Metric(c.at)>> \o Gathered(c)
      /\ Stripped(c) => Body(c) = <<>>
      /\ <<Metric(c.at)>> \o Gathered(c) \in Seq(Cell)
      /\ Len(<<Metric(c.at)>> \o Gathered(c)) = Len(Gathered(c)) + 1
  BY <1>1, <1>2, <1>3, <1>4, ProbeBody
<1>9. QED
  BY <1>1, <1>2, <1>5, <1>6, <1>7, <1>8

LEMMA EgressTraces ==
  ASSUME TypeOK, WaysInv, ProbeInv, NEW c \in copies, Egress(c), c.kind = "probe"
  PROVE  /\ \A d \in copies' \ copies : ProbeOK(d)'
         /\ \A r \in reports' \ reports : r.cells = PathSeen(r.src, r.dst, r.from)
         /\ \A d \in delivered' \ delivered :
              ~d.header /\ d.body = <<>> /\ Traced(d.pid, d.src[1])' /\ Traced(d.pid, d.dst[1])'
<1>1. c \in Copy /\ Unicast(c) /\ c.stage = "egress" /\ c.rec /\ ProbeOK(c)
  BY EgressFacts DEF ProbeInv
<1>2. /\ Gathered(c) \in Seq(Cell) /\ Len(Gathered(c)) \in 0..2
      /\ c.at = c.src[1] => Gathered(c) = <<>>
      /\ c.at = Spine => Gathered(c) = <<Metric(c.src[1])>>
      /\ c.at # c.src[1] /\ c.at # Spine => Gathered(c) = <<Metric(Spine), Metric(c.src[1])>>
      /\ c.at \in Switch /\ c.src[1] # Spine /\ c.dst[1] # Spine
      /\ Metric(c.at) \in Cell /\ Metric(Spine) \in Cell /\ Metric(c.src[1]) \in Cell
  BY <1>1, ProbePath
<1>3. /\ <<Metric(c.at)>> \o <<>> = <<Metric(c.at)>>
      /\ <<Metric(c.at)>> \o <<Metric(c.src[1])>> = <<Metric(c.at), Metric(c.src[1])>>
      /\ <<Metric(c.at)>> \o <<Metric(Spine), Metric(c.src[1])>>
           = <<Metric(c.at), Metric(Spine), Metric(c.src[1])>>
  <2>1. PICK m \in Cell, a \in Cell, b \in Cell :
          m = Metric(c.at) /\ a = Metric(Spine) /\ b = Metric(c.src[1])
    BY <1>2
  <2>2. <<m>> \o <<>> = <<m>> /\ <<m>> \o <<b>> = <<m, b>> /\ <<m>> \o <<a, b>> = <<m, a, b>>
    BY PathCells
  <2>3. QED
    BY <2>1, <2>2
<1>4. CASE ToCpu(c)
  <2>1. c.inst = "clone" /\ copies' \subseteq copies /\ UNCHANGED delivered
    BY <1>4, EgressFacts DEF ToCpu
  <2>2. c.at # Spine /\ (c.at = c.src[1] \/ c.at = c.dst[1])
    BY <1>1, <2>1 DEF ProbeOK, Unicast
  <2>3. Body(c) = <<Metric(c.at)>> \o Gathered(c) /\ Pushed(c).n = Len(Body(c))
        /\ Body(c) \in Seq(Cell) /\ Len(Body(c)) \in Nat
    <3>1. ~Stripped(c)
      BY <2>1 DEF Stripped
    <3>2. Body(c) = <<Metric(c.at)>> \o Gathered(c) /\ Pushed(c).n = Len(Body(c))
          /\ Body(c) \in Seq(Cell)
      BY <3>1, EgressFacts
    <3>3. QED
      BY <3>2, LenProperties
  <2>4. ReadRecords(Pushed(c).n, Body(c)) = Body(c)
    BY <2>3, SubSeqFull DEF ReadRecords
  <2>5. Body(c) = PathSeen(c.src, c.dst, c.at)
    BY <1>2, <1>3, <2>2, <2>3 DEF PathSeen
  <2>6. PICK cells : cells = ReadRecords(Pushed(c).n, Body(c))
    OBVIOUS
  <2>7. PICK r : r = [pid |-> c.pid, kind |-> c.kind, src |-> c.src, dst |-> c.dst,
                      from |-> c.at, cells |-> cells]
    OBVIOUS
  <2>8. reports' = reports \cup {r}
    BY <1>1, <1>4, <2>6, <2>7 DEF ToCpu
  <2>9. r.cells = PathSeen(r.src, r.dst, r.from)
    BY <2>4, <2>5, <2>6, <2>7
  <2>10. QED
    BY <2>1, <2>8, <2>9
<1>5. CASE DropReplica(c)
  BY <1>5 DEF DropReplica, seen
<1>6. ASSUME c.outPort # CpuPort
      PROVE  /\ c.inst = "normal" /\ c.outPort = FlowPort(c.at, c.dst) /\ (c.sink <=> c.at # Spine)
             /\ Traced(c.pid, c.src[1])' /\ (c.at = c.dst[1] => Traced(c.pid, c.dst[1])')
  <2>1. c.inst = "normal" /\ c.outPort = FlowPort(c.at, c.dst) /\ (c.sink <=> c.at # Spine)
    BY <1>6, EgressFacts
  <2>2. Traced(c.pid, c.src[1]) /\ (c.at = c.dst[1] => Traced(c.pid, c.dst[1]))
    BY <1>1, <2>1 DEF ProbeOK
  <2>3. QED
    BY <2>1, <2>2, TracedStays
<1>7. CASE ToHost(c)
  <2>1. c.outPort # CpuPort /\ <<c.at, c.outPort>> \in Host /\ copies' \subseteq copies
        /\ UNCHANGED reports
    BY <1>7 DEF ToHost, GoesOut
  <2>2. c.at # Spine /\ c.outPort \in {1, 2}
    BY <2>1, Topology
  <2>3. c.at = c.dst[1]
    BY <1>6, <2>1, <2>2 DEF FlowPort, Uplink
  <2>4. Stripped(c) /\ Body(c) = <<>>
    <3>1. Stripped(c)
      BY <1>1, <1>6, <2>1, <2>2 DEF Stripped, HostPort
    <3>2. QED
      BY <3>1, EgressFacts
  <2>5. PICK header, body, host, trail :
          /\ header = (c.rec /\ ~Stripped(c)) /\ body = Body(c)
          /\ host = <<c.at, c.outPort>> /\ trail = Append(c.trail, c.at)
    OBVIOUS
  <2>6. PICK e : e = [pid |-> c.pid, kind |-> c.kind, src |-> c.src, dst |-> c.dst,
                      host |-> host, header |-> header, recorded |-> c.rec, body |-> body,
                      orig |-> c.orig, trail |-> trail]
    OBVIOUS
  <2>7. delivered' = delivered \cup {e}
    BY <1>7, <2>5, <2>6 DEF ToHost
  <2>8. ~e.header /\ e.body = <<>> /\ e.pid = c.pid /\ e.src = c.src /\ e.dst = c.dst
    BY <2>4, <2>5, <2>6
  <2>9. Traced(e.pid, e.src[1])' /\ Traced(e.pid, e.dst[1])'
    BY <1>6, <2>1, <2>3, <2>8
  <2>10. QED
    BY <2>1, <2>7, <2>8, <2>9
<1>8. CASE ToSwitch(c)
  <2>1. /\ c.outPort # CpuPort /\ <<c.at, c.outPort>> \notin Host
        /\ UNCHANGED <<delivered, reports>>
        /\ \A d \in copies' \ copies : d = Crossed(c)
    BY <1>8 DEF ToSwitch, GoesOut, Crossed, seen
  <2>2. c.at # c.dst[1] /\ (c.at = c.src[1] \/ c.at = Spine)
        /\ (c.at = Spine => c.src[1] # c.dst[1])
    <3>1. c.dst = <<c.dst[1], c.dst[2]>>
      BY <1>1, Topology DEF Unicast
    <3>2. QED
      BY <1>1, <1>2, <1>6, <2>1, <3>1 DEF FlowPort, Unicast
  <2>3. ~Stripped(c)
    BY <1>2, <1>6, <2>1, <2>2 DEF Stripped, FlowPort, HostPort, Uplink
  <2>4. Body(c) = <<Metric(c.at)>> \o Gathered(c) /\ Pushed(c).n = Len(Body(c))
    BY <2>3, EgressFacts
  <2>5. PICK d : d = Crossed(c)
    OBVIOUS
  <2>6. /\ d.pid = c.pid /\ d.src = c.src /\ d.dst = c.dst /\ d.orig = c.orig
        /\ d.stage = "ingress" /\ d.inst = "normal" /\ d.rec
        /\ d.n = Len(Body(c)) /\ d.rest = Body(c)
        /\ d.at = Peer(c.at, c.outPort)[1]
    BY <1>1, <2>3, <2>4, <2>5, CrossedFields
  <2>7. Gathered(d) = Body(c)
    <3>1. CASE c.at = Spine
      <4>1. d.at = c.dst[1] /\ d.at # d.src[1] /\ d.at # Spine
        BY <1>2, <1>6, <2>1, <2>2, <2>6, <3>1 DEF Peer, FlowPort
      <4>2. QED
        BY <1>2, <1>3, <2>4, <2>6, <3>1, <4>1 DEF Gathered
    <3>2. CASE c.at # Spine
      <4>1. c.at = c.src[1] /\ d.at = Spine
        BY <2>2, <2>6, <3>2 DEF Peer
      <4>2. QED
        BY <1>2, <1>3, <2>4, <2>6, <4>1 DEF Gathered
    <3>3. QED
      BY <3>1, <3>2
  <2>8. ProbeOK(d)'
    BY <1>1, <1>6, <2>1, <2>6, <2>7 DEF ProbeOK
  <2>9. QED
    BY <2>1, <2>5, <2>8
<1>9. QED
  BY <1>4, <1>5, <1>7, <1>8 DEF Egress

\* A probe leaves its host with an empty records header.
LEMMA ProbeSent ==
  ASSUME Traffic
  PROVE  \A c \in copies' \ copies : c.kind = "probe" => ProbeOK(c)'
<1>1. ASSUME NEW h \in Host, NEW d \in Host, SendProbe(h, d), NEW e \in copies' \ copies
      PROVE  ProbeOK(e)'
  <2>1. e = NewCopy(sent, "probe", h, d, h[1], h[2], TRUE, <<>>)
    BY <1>1 DEF SendProbe, Launch
  <2>2. /\ e.rec = TRUE /\ e.orig = <<>> /\ e.n = 0 /\ e.rest = <<>> /\ e.stage = "ingress"
        /\ e.src = h /\ e.at = h[1]
    BY <2>1 DEF NewCopy
  <2>3. Gathered(e) = <<>> /\ Len(<<>>) = 0
    BY <2>2, EmptySeq DEF Gathered
  <2>4. QED
    BY <2>2, <2>3 DEF ProbeOK
<1>2. ASSUME NEW h \in Host, NEW d \in Host, SendIp(h, d), NEW e \in copies' \ copies
      PROVE  e.kind # "probe"
  BY <1>2 DEF SendIp, Launch, NewCopy
<1>3. ASSUME NEW h \in Host, SendArp(h), NEW e \in copies' \ copies
      PROVE  e.kind # "probe"
  BY <1>3 DEF SendArp, Launch, NewCopy
<1>4. ASSUME NEW s \in Switch, NEW q \in PortsOf(s), PacketOut(s, q), NEW e \in copies' \ copies
      PROVE  e.kind # "probe"
  BY <1>4 DEF PacketOut, Launch, NewCopy
<1>5. QED
  BY <1>1, <1>2, <1>3, <1>4 DEF Traffic

(***************************************************************************)
(* Where the telemetry rules are on the switches from the start and the    *)
(* application is not unloaded, a probe's records are reported by both     *)
(* leaves of its path, by the first with that leaf's metrics alone.        *)
(***************************************************************************)
THEOREM ProbesAreReportedTwice ==
  ASSUME TelemetryRules \subseteq InitialRules, "cleanup" \notin Operations
  PROVE  Spec => []ProbeIsReportedTwice
<1>1. Init => ProbeInv
  BY InitialRulesAssumption DEF Init, ProbeInv, SetUp
<1>2. TypeOK /\ WaysInv /\ ProbeInv /\ [Next]_vars => ProbeInv'
  <2> SUFFICES ASSUME TypeOK, WaysInv, ProbeInv, [Next]_vars PROVE ProbeInv'
    OBVIOUS
  <2>1. ASSUME NEW c \in copies, Ingress(c) \/ Egress(c) PROVE ProbeInv'
    <3>1. SetUp' /\ SinkRule(Spine) \notin (store \cup tables)'
      BY <2>1 DEF Ingress, Egress, control, ProbeInv, SetUp
    <3>2. \A p, s : Traced(p, s) => Traced(p, s)'
      BY <2>1, TracedStays
    <3>3. CASE c.kind # "probe"
      <4>1. \A x : x \in copies' \ copies \/ x \in delivered' \ delivered \/ x \in reports' \ reports
                   => x.kind # "probe"
        BY <2>1, <3>3, ForwardTraces DEF SamePacket
      <4>2. QED
        BY <3>1, <3>2, <4>1, ProbesElsewhere
    <3>4. CASE c.kind = "probe" /\ Ingress(c)
      <4>1. UNCHANGED <<delivered, reports>>
        BY <3>4 DEF Ingress, seen
      <4>2. QED
        BY <3>1, <3>2, <3>4, <4>1, IngressTraces, ProbesElsewhere
    <3>5. CASE c.kind = "probe" /\ Egress(c)
      BY <3>1, <3>2, <3>5, EgressTraces, ProbesElsewhere
    <3>6. QED
      BY <2>1, <3>3, <3>4, <3>5
  <2>2. CASE Traffic
    <3>1. UNCHANGED <<store, tables, delivered, reports>> /\ copies \subseteq copies'
      BY <2>2, SentIsOnItsWay DEF Launch, control, seen
    <3>2. SetUp' /\ SinkRule(Spine) \notin (store \cup tables)'
      BY <3>1 DEF ProbeInv, SetUp
    <3>3. \A p, s : Traced(p, s) => Traced(p, s)'
      BY <3>1 DEF Traced
    <3>4. \A c \in copies' \ copies : c.kind = "probe" => ProbeOK(c)'
      BY <2>2, ProbeSent
    <3>5. QED
      BY <3>1, <3>2, <3>3, <3>4, ProbesElsewhere
  <2>3. CASE UNCHANGED vars
    <3>1. SetUp' /\ SinkRule(Spine) \notin (store \cup tables)'
      BY <2>3 DEF ProbeInv, SetUp, vars
    <3>2. \A p, s : Traced(p, s) => Traced(p, s)'
      BY <2>3 DEF Traced, vars
    <3>3. QED
      BY <2>3, <3>1, <3>2, ProbesElsewhere DEF vars
  <2>4. CASE Sync \/ Application
    <3>1. SetUp' /\ SinkRule(Spine) \notin (store \cup tables)'
      BY <2>4, ControlKeepsTelemetry DEF ProbeInv
    <3>2. UNCHANGED <<copies, delivered, reports>>
      BY <2>4, ControlKeepsGroups DEF WaysInv
    <3>3. \A p, s : Traced(p, s) => Traced(p, s)'
      BY <3>2 DEF Traced
    <3>4. QED
      BY <3>1, <3>2, <3>3, ProbesElsewhere
  <2>5. QED
    BY <2>1, <2>2, <2>3, <2>4 DEF Next, Forward
<1>3. PacketsInv /\ ProbeInv => ProbeIsReportedTwice
  <2> SUFFICES ASSUME PacketsInv, ProbeInv, NEW d \in delivered, d.kind = "probe"
               PROVE  /\ ~d.header /\ d.body = <<>>
                      /\ \A r \in reports : r.pid = d.pid =>
                           r.cells = IF r.from = d.src[1] THEN <<Metric(d.src[1])>>
                                     ELSE <<Metric(d.dst[1]), Metric(Spine), Metric(d.src[1])>>
                      /\ \A s \in {d.src[1], d.dst[1]} :
                           \/ \E r \in reports : r.pid = d.pid /\ r.from = s
                           \/ \E c \in copies : c.pid = d.pid /\ c.inst = "clone" /\ c.at = s
    BY DEF ProbeIsReportedTwice
  <2>1. ~d.header /\ d.body = <<>> /\ Traced(d.pid, d.src[1]) /\ Traced(d.pid, d.dst[1])
    BY DEF ProbeInv
  <2>2. ASSUME NEW r \in reports, r.pid = d.pid
        PROVE  r.cells = IF r.from = d.src[1] THEN <<Metric(d.src[1])>>
                         ELSE <<Metric(d.dst[1]), Metric(Spine), Metric(d.src[1])>>
    <3>1. r.kind = "probe" /\ r.src = d.src /\ r.dst = d.dst
      BY <2>2 DEF PacketsInv, Traces, SamePacket
    <3>2. r.cells = PathSeen(d.src, d.dst, r.from)
      BY <3>1 DEF ProbeInv
    <3>3. QED
      BY <3>2 DEF PathSeen
  <2>3. QED
    BY <2>1, <2>2 DEF Traced
<1>4. QED
  BY <1>1, <1>2, <1>3, TypeCorrect, Ways, PacketsKeepTheirNumber, PTL DEF Spec
=============================================================================
