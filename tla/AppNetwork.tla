------------------------------ MODULE AppNetwork ------------------------------
(***************************************************************************)
(* The network of a p4app application, major-7sem/core/mininet: the        *)
(* topology of apptopo.py, the paths of shortest_path.py, and what         *)
(* appcontroller.py tells the hosts.                                       *)
(*                                                                         *)
(* A node is <<"h", n>> or <<"s", n>> for hn and sn; a link of the         *)
(* manifest is a pair of nodes (latency and bandwidth are left out).       *)
(* 10.0.x.y is <<x, y>>, and of a MAC address there are the two bytes that *)
(* vary.                                                                   *)
(***************************************************************************)
EXTENDS Integers, FiniteSets, SequencesExt

\* Numbers are below 100.
Node == {"h", "s"} \X (1..99)
IsHost(n) == n[1] = "h"
Ends(link) == {link[1], link[2]}
Other(link, n) == IF link[1] # n THEN link[1] ELSE link[2]

\* Names are sorted as texts: h10 comes before h2.  The i-th of some hosts, or of
\* some switches, has i - 1 before it.
TextKey(n) == IF n[2] < 10 THEN 11 * n[2] ELSE 11 * (n[2] \div 10) + (n[2] % 10) + 1
Rank(nodes, n) == Cardinality({m \in nodes : TextKey(m) < TextKey(n)})
Sorted(nodes) == [i \in 1..Cardinality(nodes) |-> CHOOSE n \in nodes : Rank(nodes, n) = i - 1]

\* The places of a node's links in the list, and what is at some places.
Joined(links, n) == {i \in DOMAIN links : n \in Ends(links[i])}
Preceding(places, i) == Cardinality({j \in places : j < i})
Kept(links, places) ==
  [k \in 1..Cardinality(places) |-> links[CHOOSE i \in places : Preceding(places, i) = k - 1]]
LinksOf(links, n) == Kept(links, Joined(links, n))

Nodes(links) == UNION {Ends(link) : link \in ToSet(links)}
HostNames(links) == Sorted({n \in Nodes(links) : IsHost(n)})
SwitchNames(links) == Sorted({n \in Nodes(links) : ~IsHost(n)})
Linked(links, m, n) == \E link \in ToSet(links) : Ends(link) = {m, n}

\* A link joins two nodes, and no other link joins the same.
IsNetwork(links) ==
  /\ links \in Seq(Node \X Node)
  /\ \A i \in DOMAIN links :
       /\ links[i][1] # links[i][2]
       /\ \A j \in DOMAIN links \ {i} : Ends(links[j]) # Ends(links[i])

\* "Hosts should be connected to switches".
HasHost(link) == \E n \in Ends(link) : IsHost(n)
HostsAreLinkedToSwitches(links) == \A link \in ToSet(links) : \E n \in Ends(link) : ~IsHost(n)

\* sw_ports: the hosts of a switch first, then its switches link by link.
SwPortsAsListed(links, s) ==   \* mutant: in the order of the links
  [i \in DOMAIN LinksOf(links, s) |-> Other(LinksOf(links, s)[i], s)]
SwPorts(links, s) ==
  Sorted({h \in Nodes(links) : IsHost(h) /\ Linked(links, h, s)})
    \o LET joined == Kept(links, {i \in Joined(links, s) : ~HasHost(links[i])})
       IN  [i \in DOMAIN joined |-> Other(joined[i], s)]
PortTo(links, s, n) == CHOOSE i \in DOMAIN SwPorts(links, s) : SwPorts(links, s)[i] = n

\* _host_links[h], in the order of h's links.
HostLinks(links, h) ==
  LET mine == LinksOf(links, h)
  IN  [i \in DOMAIN mine |->
         LET s == Other(mine[i], h) IN
         [idx |-> i - 1, sw |-> s, host_ip |-> <<s[2], h[2]>>, host_mac |-> <<s[2], h[2]>>,
          sw_ip |-> <<s[2], 254>>, sw_mac |-> <<s[2], h[2]>>, sw_port |-> PortTo(links, s, h)]]

\* The links are added to the topology host by host, then those between switches.
HostOf(link) == CHOOSE n \in Ends(link) : IsHost(n)
AddedBefore(links, i, j) ==
  LET a == links[i]
      b == links[j]
  IN  \/ HasHost(a) /\ ~HasHost(b)
      \/ HasHost(a) /\ HasHost(b) /\ TextKey(HostOf(a)) < TextKey(HostOf(b))
      \/ i < j /\ IF HasHost(a) THEN HasHost(b) /\ HostOf(a) = HostOf(b) ELSE ~HasHost(b)

\* Mininet gives a switch's ports out from 1, in the order of addLink.
MininetPort(links, s, n) ==
  LET i == CHOOSE i \in DOMAIN links : Ends(links[i]) = {s, n}
  IN  1 + Cardinality({j \in Joined(links, s) : AddedBefore(links, j, i)})

-----------------------------------------------------------------------------
(***************************************************************************)
(* shortest_path.py, as the controller uses it: no host lies on the way.   *)
(***************************************************************************)
Exclude(n) == IsHost(n)
NoPath == <<>>

ShortestFirst(way, found) ==   \* mutant: the paths are not sorted
  CHOOSE i \in found : \A j \in found : i <= j

\* Sorted by length, and otherwise in the order of the links.
Shortest(way, found) ==
  CHOOSE i \in found :
    \A j \in found : Len(way[i]) <= Len(way[j]) /\ (j < i => Len(way[i]) < Len(way[j]))

\* The path from p[1] to b that shuns the nodes p[2], for every p.
RecPath(links, b) ==
  LET path[p \in Nodes(links) \X SUBSET Nodes(links)] ==
        LET visited == p[2] \cup {p[1]}
            next(i) == Other(links[i], p[1])
            open == {i \in Joined(links, p[1]) :
                       next(i) \notin visited /\ (Exclude(next(i)) => next(i) = b)}
            way == [i \in open |-> path[<<next(i), visited>>]]
            found == {i \in open : way[i] # NoPath}
        IN  IF p[1] = b THEN <<b>>
            ELSE IF found = {} THEN NoPath ELSE <<p[1]>> \o way[Shortest(way, found)]
  IN  path

Path(links, a, b) == RecPath(links, b)[<<a, {}>>]

\* The nodes that can be reached from a in k hops, no host on the way.
Layer(links, a) ==
  LET layer[k \in 0..Cardinality(Nodes(links))] ==
        IF k = 0 THEN {a}
        ELSE layer[k - 1] \cup
             {n \in Nodes(links) : \E m \in layer[k - 1] :
                (m = a \/ ~IsHost(m)) /\ Linked(links, m, n)}
  IN  layer

-----------------------------------------------------------------------------
(***************************************************************************)
(* What AppController.start tells each host.                               *)
(***************************************************************************)
\* Routes to the others: to the address of the other's first link, through the
\* switch where the shortest path begins.
Gateway(links, h, s) == (CHOOSE link \in ToSet(HostLinks(links, h)) : link.sw = s).sw_ip
RoutesByFirst(links, h) ==   \* mutant: by the host's first link, whatever the path
  {<<HostLinks(links, h2)[1].host_ip, HostLinks(links, h)[1].sw_ip>> :
     h2 \in {g \in ToSet(HostNames(links)) \ {h} : Path(links, h, g) # NoPath}}
Routes(links, h) ==
  {<<HostLinks(links, h2)[1].host_ip, Gateway(links, h, Path(links, h, h2)[2])>> :
     h2 \in {g \in ToSet(HostNames(links)) \ {h} : Path(links, h, g) # NoPath}}

\* The address is set on the default interface for every link, so the last
\* link's remains.
HostConfig(links, h) ==
  LET mine == HostLinks(links, h) IN
  [ip |-> Last(mine).host_ip, mac |-> Last(mine).host_mac, default |-> Last(mine).sw_ip,
   arp |-> {<<link.idx, link.sw_ip, link.sw_mac>> : link \in ToSet(mine)},
   routes |-> Routes(links, h)]

\* The hosts of single_switch_mininet.py: one /24 network each, with a gateway
\* that the script makes up.
SingleHostConfig(h) ==
  [ip |-> <<h[2] - 1, 10>>, mac |-> <<0, h[2] - 1>>, default |-> <<h[2] - 1, 1>>,
   arp |-> {<<0, <<h[2] - 1, 1>>, <<0, h[2] - 1>> >>}, routes |-> {}]
=============================================================================
