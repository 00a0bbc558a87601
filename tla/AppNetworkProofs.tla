---------------------------- MODULE AppNetworkProofs ----------------------------
(***************************************************************************)
(* The network of a packaged application, for every list of links: its     *)
(* sorted lists, the numbers of its ports, its paths and what its hosts    *)
(* are told.  There is no induction with an operator here: the least       *)
(* natural number with a property takes its place.                         *)
(***************************************************************************)
EXTENDS AppNetwork, FiniteSetTheorems, SequenceTheorems, WellFoundedInduction, TLAPS

LEMMA Least ==
  ASSUME NEW S, S \subseteq Nat, S # {}
  PROVE  \E n \in S : \A m \in S : n <= m
<1> DEFINE Less == {p \in Nat \X Nat : p[1] < p[2]}
<1>1. IsWellFoundedOn(Less, Nat)
  BY NatLessThanWellFounded DEF OpToRel
<1>2. \A m, n \in Nat : m < n => <<m, n>> \in Less
  OBVIOUS
<1> HIDE DEF Less
<1>3. PICK n \in S : \A m \in S : ~(<<m, n>> \in Less)
  BY <1>1, WFMin
<1>4. \A m \in S : m \in Nat /\ n \in Nat
  OBVIOUS
<1>5. \A m \in S : ~(m < n)
  BY <1>2, <1>3, <1>4
<1>6. \A m \in S : n <= m
  BY <1>4, <1>5
<1>7. QED
  BY <1>6

-----------------------------------------------------------------------------
(***************************************************************************)
(* Putting a finite set in order: when keys differ, each member has its    *)
(* own number of members before it, and every such number occurs.          *)
(***************************************************************************)
Below(S, key, n) == Cardinality({m \in S : key[m] < key[n]})

LEMMA BelowOrders ==
  ASSUME NEW S, IsFiniteSet(S), NEW key \in [S -> Nat], NEW m \in S, NEW n \in S, key[m] < key[n]
  PROVE  Below(S, key, m) # Below(S, key, n)
<1> DEFINE before(k) == {p \in S : key[p] < key[k]}
<1>1. before(m) \subseteq before(n) /\ m \in before(n) /\ m \notin before(m)
  OBVIOUS
<1>2. IsFiniteSet(before(n))
  BY FS_Subset
<1>3. Cardinality(before(m)) # Cardinality(before(n))
  BY <1>1, <1>2, FS_Subset
<1>4. QED
  BY <1>3 DEF Below

LEMMA BelowCounts ==
  ASSUME NEW S, IsFiniteSet(S), NEW key \in [S -> Nat],
         \A m, n \in S : key[m] = key[n] => m = n
  PROVE  /\ Cardinality(S) \in Nat
         /\ \A n \in S : Below(S, key, n) \in 0..(Cardinality(S) - 1)
         /\ \A m, n \in S : Below(S, key, m) = Below(S, key, n) => m = n
         /\ \A k \in 1..Cardinality(S) : \E n \in S : Below(S, key, n) = k - 1
<1> DEFINE N == Cardinality(S)
<1>1. N \in Nat
  BY FS_CardinalityType
<1>2. ASSUME NEW n \in S PROVE Below(S, key, n) \in 0..(N - 1)
  <2> DEFINE before == {p \in S : key[p] < key[n]}
  <2>1. before \in SUBSET S /\ n \notin before
    OBVIOUS
  <2>2. IsFiniteSet(before) /\ Cardinality(before) <= N /\ Cardinality(before) # N
    BY <2>1, FS_Subset
  <2>3. Cardinality(before) \in Nat
    BY <2>2, FS_CardinalityType
  <2>4. QED
    BY <1>1, <2>2, <2>3 DEF Below
<1>3. ASSUME NEW m \in S, NEW n \in S, Below(S, key, m) = Below(S, key, n) PROVE m = n
  <2>1. key[m] \in Nat /\ key[n] \in Nat
    OBVIOUS
  <2>2. ~(key[m] < key[n]) /\ ~(key[n] < key[m])
    BY <1>3, BelowOrders
  <2>3. QED
    BY <2>1, <2>2
<1> DEFINE place == [n \in S |-> Below(S, key, n) + 1]
<1>4. place \in Injection(S, 1..N)
  <2>1. place \in [S -> 1..N]
    BY <1>1, <1>2
  <2>2. ASSUME NEW m \in S, NEW n \in S, place[m] = place[n] PROVE m = n
    <3>1. Below(S, key, m) = Below(S, key, n)
      BY <1>2, <2>2
    <3>2. QED
      BY <1>3, <3>1
  <2>3. QED
    BY <2>1, <2>2 DEF Injection, IsInjective
<1>5. place \in Surjection(S, 1..N)
  <2>1. IsFiniteSet(1..N) /\ Cardinality(1..N) = N
    BY <1>1, FS_Interval
  <2>2. QED
    BY <1>4, <2>1, FS_Injection
<1>6. ASSUME NEW k \in 1..N PROVE \E n \in S : Below(S, key, n) = k - 1
  <2>1. PICK n \in S : place[n] = k
    BY <1>5 DEF Surjection
  <2>2. QED
    BY <1>2, <2>1
<1>7. QED
  BY <1>1, <1>2, <1>3, <1>6

\* Nodes are told apart by where their names come in the order of texts.
Hosts == {n \in Node : IsHost(n)}
Switches == {n \in Node : ~IsHost(n)}

LEMMA KeysDiffer ==
  ASSUME NEW S, S \subseteq Hosts \/ S \subseteq Switches, NEW m \in S, NEW n \in S
  PROVE  /\ TextKey(m) \in Nat
         /\ TextKey(m) = TextKey(n) => m = n
<1>1. PICK t \in {"h", "s"}, i \in 1..99 : m = <<t, i>>
  BY DEF Hosts, Switches, Node
<1>2. PICK j \in 1..99 : n = <<t, j>>
  BY <1>1 DEF Hosts, Switches, Node, IsHost
<1>3. TextKey(m) = (IF i < 10 THEN 11 * i ELSE 11 * (i \div 10) + (i % 10) + 1)
      /\ TextKey(n) = (IF j < 10 THEN 11 * j ELSE 11 * (j \div 10) + (j % 10) + 1)
  BY <1>1, <1>2 DEF TextKey
<1>4. i = 10 * (i \div 10) + (i % 10) /\ (i % 10) \in 0..9 /\ (i \div 10) \in 0..9
      /\ j = 10 * (j \div 10) + (j % 10) /\ (j % 10) \in 0..9 /\ (j \div 10) \in 0..9
  OBVIOUS
<1>5. TextKey(m) \in Nat
  BY <1>3, <1>4
<1>6. TextKey(m) = TextKey(n) => i = j
  BY <1>3, <1>4
<1>7. QED
  BY <1>1, <1>2, <1>5, <1>6

LEMMA NodesAreFinite == IsFiniteSet(Node)
<1>1. IsFiniteSet({"h", "s"})
  <2>1. IsFiniteSet({"h"} \cup {"s"})
    BY FS_Singleton, FS_AddElement
  <2>2. {"h", "s"} = {"h"} \cup {"s"}
    OBVIOUS
  <2>3. QED
    BY <2>1, <2>2
<1>2. IsFiniteSet(1..99)
  <2>1. \A k \in Nat : IsFiniteSet(1..k)
    BY FS_Interval
  <2>2. QED
    BY <2>1
<1>3. QED
  BY <1>1, <1>2, FS_Product DEF Node

\* Sorted lists what it is given, each at the place of its rank.
LEMMA SortedLists ==
  ASSUME NEW S, S \subseteq Hosts \/ S \subseteq Switches
  PROVE  /\ IsFiniteSet(S) /\ Cardinality(S) \in Nat
         /\ Sorted(S) \in Seq(S) /\ Len(Sorted(S)) = Cardinality(S)
         /\ \A n \in S : Rank(S, n) \in 0..(Cardinality(S) - 1) /\ Sorted(S)[Rank(S, n) + 1] = n
         /\ \A k \in 1..Cardinality(S) : \E n \in S : Rank(S, n) = k - 1 /\ Sorted(S)[k] = n
         /\ ToSet(Sorted(S)) = S
<1> DEFINE N == Cardinality(S)
           key == [n \in S |-> TextKey(n)]
           s == Sorted(S)
<1>1. IsFiniteSet(S)
  BY NodesAreFinite, FS_Subset DEF Hosts, Switches
<1>2. key \in [S -> Nat] /\ \A m, n \in S : key[m] = key[n] => m = n
  BY KeysDiffer
<1>3. \A n \in S : Rank(S, n) = Below(S, key, n)
  <2> SUFFICES ASSUME NEW n \in S PROVE Rank(S, n) = Below(S, key, n)
    OBVIOUS
  <2>1. {m \in S : TextKey(m) < TextKey(n)} = {m \in S : key[m] < key[n]}
    OBVIOUS
  <2>2. QED
    BY <2>1 DEF Rank, Below
<1> HIDE DEF key
<1>4. /\ N \in Nat
      /\ \A n \in S : Rank(S, n) \in 0..(N - 1)
      /\ \A m, n \in S : Rank(S, m) = Rank(S, n) => m = n
      /\ \A k \in 1..N : \E n \in S : Rank(S, n) = k - 1
  BY <1>1, <1>2, <1>3, BelowCounts
<1>5. s = [k \in 1..N |-> CHOOSE n \in S : Rank(S, n) = k - 1]
  BY DEF Sorted
<1>6. \A k \in 1..N : s[k] \in S /\ Rank(S, s[k]) = k - 1
  BY <1>4, <1>5
<1>7. s \in Seq(S) /\ Len(s) = N /\ DOMAIN s = 1..N
  BY <1>4, <1>5, <1>6
<1> HIDE DEF s
<1>8. ASSUME NEW n \in S PROVE Rank(S, n) \in 0..(N - 1) /\ s[Rank(S, n) + 1] = n
  <2>1. Rank(S, n) + 1 \in 1..N /\ Rank(S, n) = (Rank(S, n) + 1) - 1
    BY <1>4
  <2>2. QED
    BY <1>4, <1>6, <2>1
<1>9. ToSet(s) = S
  BY <1>6, <1>7, <1>8 DEF ToSet
<1>10. QED
  BY <1>1, <1>4, <1>6, <1>7, <1>8, <1>9 DEF s

\* What is kept of a list are the elements at the places, in their order.
LEMMA KeptLists ==
  ASSUME NEW L, NEW links \in Seq(L), NEW I, I \subseteq DOMAIN links
  PROVE  /\ IsFiniteSet(I) /\ Cardinality(I) \in Nat
         /\ Kept(links, I) \in Seq(L) /\ Len(Kept(links, I)) = Cardinality(I)
         /\ \A i \in I : /\ Preceding(I, i) \in 0..(Cardinality(I) - 1)
                         /\ Kept(links, I)[Preceding(I, i) + 1] = links[i]
         /\ \A k \in 1..Cardinality(I) :
              \E i \in I : Preceding(I, i) = k - 1 /\ Kept(links, I)[k] = links[i]
         /\ \A i, j \in I : Preceding(I, i) = Preceding(I, j) => i = j
<1> DEFINE N == Cardinality(I)
           key == [i \in I |-> i]
           s == Kept(links, I)
<1>0. DOMAIN links = 1..Len(links) /\ Len(links) \in Nat /\ \A i \in 1..Len(links) : links[i] \in L
  OBVIOUS
<1>1. IsFiniteSet(I)
  <2>1. IsFiniteSet(1..Len(links))
    BY <1>0, FS_Interval
  <2>2. QED
    BY <1>0, <2>1, FS_Subset
<1>2. key \in [I -> Nat] /\ \A i, j \in I : key[i] = key[j] => i = j
  BY <1>0
<1>3. \A i \in I : Preceding(I, i) = Below(I, key, i)
  <2> SUFFICES ASSUME NEW i \in I PROVE Preceding(I, i) = Below(I, key, i)
    OBVIOUS
  <2>1. {j \in I : j < i} = {j \in I : key[j] < key[i]}
    OBVIOUS
  <2>2. QED
    BY <2>1 DEF Preceding, Below
<1> HIDE DEF key
<1>4. /\ N \in Nat
      /\ \A i \in I : Preceding(I, i) \in 0..(N - 1)
      /\ \A i, j \in I : Preceding(I, i) = Preceding(I, j) => i = j
      /\ \A k \in 1..N : \E i \in I : Preceding(I, i) = k - 1
  BY <1>1, <1>2, <1>3, BelowCounts
<1> DEFINE at(k) == CHOOSE i \in I : Preceding(I, i) = k - 1
<1>5. s = [k \in 1..N |-> links[at(k)]]
  BY DEF Kept
<1>6. \A k \in 1..N : at(k) \in I /\ Preceding(I, at(k)) = k - 1
  BY <1>4
<1> HIDE DEF at
<1>7. \A k \in 1..N : s[k] = links[at(k)] /\ s[k] \in L
  BY <1>0, <1>5, <1>6
<1>8. s \in Seq(L) /\ Len(s) = N
  BY <1>4, <1>5, <1>7
<1> HIDE DEF s
<1>9. ASSUME NEW i \in I PROVE Preceding(I, i) \in 0..(N - 1) /\ s[Preceding(I, i) + 1] = links[i]
  <2>1. Preceding(I, i) + 1 \in 1..N /\ Preceding(I, i) = (Preceding(I, i) + 1) - 1
    BY <1>4
  <2>2. Preceding(I, at(Preceding(I, i) + 1)) = Preceding(I, i) /\ at(Preceding(I, i) + 1) \in I
    BY <1>6, <2>1
  <2>3. at(Preceding(I, i) + 1) = i
    BY <1>4, <2>2
  <2>4. QED
    BY <1>4, <1>7, <2>1, <2>3
<1>10. QED
  BY <1>1, <1>4, <1>6, <1>7, <1>8, <1>9 DEF s

-----------------------------------------------------------------------------
(***************************************************************************)
(* Links and their ends.                                                   *)
(***************************************************************************)
LEMMA NetworkFacts ==
  ASSUME NEW links, IsNetwork(links)
  PROVE  /\ Nodes(links) \subseteq Node
         /\ \A i \in DOMAIN links :
              /\ links[i] \in Node \X Node /\ links[i] \in ToSet(links)
              /\ links[i][1] # links[i][2] /\ Ends(links[i]) \subseteq Nodes(links)
         /\ \A i, j \in DOMAIN links : Ends(links[i]) = Ends(links[j]) => i = j
<1>1. links \in Seq(Node \X Node) /\ DOMAIN links = 1..Len(links) /\ Len(links) \in Nat
  BY DEF IsNetwork
<1>2. \A i \in DOMAIN links : links[i] \in Node \X Node /\ links[i] \in ToSet(links)
  BY <1>1 DEF ToSet
<1>3. \A link \in ToSet(links) : \E i \in DOMAIN links : link = links[i]
  BY DEF ToSet
<1>4. \A i \in DOMAIN links : Ends(links[i]) \subseteq Nodes(links)
  BY <1>2 DEF Nodes
<1>5. Nodes(links) \subseteq Node
  BY <1>2, <1>3 DEF Nodes, Ends
<1>6. \A i \in DOMAIN links : links[i][1] # links[i][2]
  BY DEF IsNetwork
<1>7. \A i, j \in DOMAIN links : Ends(links[i]) = Ends(links[j]) => i = j
  BY DEF IsNetwork
<1>8. QED
  BY <1>2, <1>4, <1>5, <1>6, <1>7

LEMMA LinkedAtPlaces ==
  ASSUME NEW links, IsNetwork(links), NEW m, NEW n
  PROVE  Linked(links, m, n) <=> \E i \in DOMAIN links : Ends(links[i]) = {m, n}
  BY DEF Linked, ToSet

LEMMA OtherEnd ==
  ASSUME NEW links, IsNetwork(links), NEW s, NEW i \in Joined(links, s)
  PROVE  /\ i \in DOMAIN links /\ s \in Nodes(links)
         /\ Other(links[i], s) \in Nodes(links) /\ Other(links[i], s) # s
         /\ Ends(links[i]) = {s, Other(links[i], s)}
<1>1. i \in DOMAIN links /\ s \in Ends(links[i])
  BY DEF Joined
<1>2. links[i][1] # links[i][2] /\ Ends(links[i]) \subseteq Nodes(links)
  BY <1>1, NetworkFacts
<1>3. s = links[i][1] \/ s = links[i][2]
  BY <1>1 DEF Ends
<1>4. QED
  BY <1>1, <1>2, <1>3 DEF Other, Ends

HostsAt(links, s) == {h \in Nodes(links) : IsHost(h) /\ Linked(links, h, s)}
HostPlaces(links, s) == {i \in Joined(links, s) : HasHost(links[i])}
SwitchPlaces(links, s) == {i \in Joined(links, s) : ~HasHost(links[i])}

\* The host at the other end of a switch's link.
LEMMA HostAtEnd ==
  ASSUME NEW links, IsNetwork(links), NEW s, ~IsHost(s), NEW i \in HostPlaces(links, s)
  PROVE  /\ HostOf(links[i]) \in HostsAt(links, s)
         /\ Ends(links[i]) = {s, HostOf(links[i])}
<1>1. i \in Joined(links, s) /\ HasHost(links[i])
  BY DEF HostPlaces
<1> DEFINE h == Other(links[i], s)
<1>2. i \in DOMAIN links /\ h \in Nodes(links) /\ Ends(links[i]) = {s, h}
  BY <1>1, OtherEnd
<1>3. IsHost(h)
  BY <1>1, <1>2 DEF HasHost
<1>4. HostOf(links[i]) = h
  BY <1>2, <1>3 DEF HostOf
<1>5. Linked(links, h, s)
  <2>1. Ends(links[i]) = {h, s}
    BY <1>2
  <2>2. QED
    BY <1>2, <2>1, LinkedAtPlaces
<1>6. QED
  BY <1>2, <1>3, <1>4, <1>5 DEF HostsAt

\* A switch has a link to each of its hosts, and no two to one.
LEMMA LinkOfHost ==
  ASSUME NEW links, IsNetwork(links), NEW s, ~IsHost(s), NEW h \in HostsAt(links, s)
  PROVE  \E i \in HostPlaces(links, s) : HostOf(links[i]) = h
<1>1. IsHost(h) /\ Linked(links, h, s)
  BY DEF HostsAt
<1>2. PICK i \in DOMAIN links : Ends(links[i]) = {h, s}
  BY <1>1, LinkedAtPlaces
<1>3. i \in HostPlaces(links, s)
  BY <1>1, <1>2 DEF HostPlaces, Joined, HasHost
<1>4. HostOf(links[i]) = h
  BY <1>1, <1>2 DEF HostOf
<1>5. QED
  BY <1>3, <1>4

LEMMA AsManyHosts ==
  ASSUME NEW links, IsNetwork(links), NEW s, ~IsHost(s), NEW H, H \subseteq HostsAt(links, s)
  PROVE  Cardinality({i \in HostPlaces(links, s) : HostOf(links[i]) \in H}) = Cardinality(H)
<1> DEFINE I == {i \in HostPlaces(links, s) : HostOf(links[i]) \in H}
           f == [i \in I |-> HostOf(links[i])]
<1>1. \A i \in I : i \in HostPlaces(links, s) /\ i \in DOMAIN links /\ HostOf(links[i]) \in H
  BY DEF HostPlaces, Joined
<1>2. f \in [I -> H]
  BY <1>1
<1>3. ASSUME NEW i \in I, NEW j \in I, f[i] = f[j] PROVE i = j
  <2>1. Ends(links[i]) = {s, HostOf(links[i])} /\ Ends(links[j]) = {s, HostOf(links[j])}
    BY <1>1, HostAtEnd
  <2>2. Ends(links[i]) = Ends(links[j])
    BY <1>3, <2>1
  <2>3. QED
    BY <1>1, <2>2, NetworkFacts
<1>4. ASSUME NEW h \in H PROVE \E i \in I : f[i] = h
  <2>1. PICK i \in HostPlaces(links, s) : HostOf(links[i]) = h
    BY LinkOfHost
  <2>2. i \in I /\ f[i] = h
    BY <2>1
  <2>3. QED
    BY <2>2
<1> HIDE DEF f
<1>5. f \in Bijection(I, H)
  BY <1>2, <1>3, <1>4 DEF Bijection, Injection, Surjection, IsInjective
<1>6. IsFiniteSet(I)
  <2>1. I \subseteq DOMAIN links /\ DOMAIN links = 1..Len(links) /\ Len(links) \in Nat
    BY <1>1 DEF IsNetwork
  <2>2. IsFiniteSet(1..Len(links))
    BY <2>1, FS_Interval
  <2>3. QED
    BY <2>1, <2>2, FS_Subset
<1>7. ExistsBijection(I, H)
  BY <1>5 DEF ExistsBijection
<1>8. QED
  BY <1>6, <1>7, FS_Bijection

-----------------------------------------------------------------------------
(***************************************************************************)
(* Port numbers.  In sw_ports a host of the switch comes after the hosts   *)
(* before it in the order of their names, and a switch after all the hosts *)
(* and after the switches linked earlier; and as many links of the switch  *)
(* were added before its own.                                              *)
(***************************************************************************)
LEMMA SwPortsLists ==
  ASSUME NEW links, IsNetwork(links), NEW s \in Nodes(links), ~IsHost(s)
  PROVE  LET H == HostsAt(links, s)
             J == SwitchPlaces(links, s)
             ports == SwPorts(links, s)
         IN  /\ Cardinality(H) \in Nat /\ Cardinality(J) \in Nat
             /\ DOMAIN ports = 1..(Cardinality(H) + Cardinality(J))
             /\ \A h \in H : Rank(H, h) \in 0..(Cardinality(H) - 1)
             /\ \A i \in J : Preceding(J, i) \in 0..(Cardinality(J) - 1)
             /\ \A k \in 1..Cardinality(H) :
                  \E h \in H : Rank(H, h) = k - 1 /\ ports[k] = h
             /\ \A k \in 1..Cardinality(J) :
                  \E i \in J : Preceding(J, i) = k - 1
                               /\ ports[Cardinality(H) + k] = Other(links[i], s)
<1> DEFINE H == HostsAt(links, s)
           J == SwitchPlaces(links, s)
           joined == Kept(links, J)
           first == Sorted(H)
           others == [k \in DOMAIN joined |-> Other(joined[k], s)]
<1>1. H \subseteq Hosts
  BY NetworkFacts DEF HostsAt, Hosts
<1>2. /\ Cardinality(H) \in Nat /\ first \in Seq(H) /\ Len(first) = Cardinality(H)
      /\ \A h \in H : Rank(H, h) \in 0..(Cardinality(H) - 1)
      /\ \A k \in 1..Cardinality(H) : \E h \in H : Rank(H, h) = k - 1 /\ first[k] = h
  BY <1>1, SortedLists
<1>3. J \subseteq DOMAIN links /\ links \in Seq(Node \X Node)
  BY DEF SwitchPlaces, Joined, IsNetwork
<1>4. /\ Cardinality(J) \in Nat /\ joined \in Seq(Node \X Node) /\ Len(joined) = Cardinality(J)
      /\ \A i \in J : Preceding(J, i) \in 0..(Cardinality(J) - 1)
      /\ \A k \in 1..Cardinality(J) :
           \E i \in J : Preceding(J, i) = k - 1 /\ joined[k] = links[i]
  BY <1>3, KeptLists
<1>5. SwPorts(links, s) = first \o others
  BY DEF SwPorts, HostsAt, SwitchPlaces
<1> HIDE DEF H, J, first, joined
<1>6. DOMAIN joined = 1..Cardinality(J) /\ \A k \in 1..Cardinality(J) : joined[k] \in Node \X Node
  BY <1>4
<1>7. \A k \in 1..Cardinality(J) : others[k] \in Node /\ others[k] = Other(joined[k], s)
  BY <1>6 DEF Other
<1>8. others \in Seq(Node) /\ Len(others) = Cardinality(J)
  <2>1. others = [k \in 1..Cardinality(J) |-> others[k]]
    BY <1>6
  <2> HIDE DEF others
  <2>2. others \in [1..Cardinality(J) -> Node]
    BY <1>7, <2>1
  <2>3. QED
    BY <1>4, <2>2
<1> HIDE DEF others
<1>9. first \in Seq(H \cup Node) /\ others \in Seq(H \cup Node)
  BY <1>2, <1>8
<1>10. /\ Len(first \o others) = Cardinality(H) + Cardinality(J)
       /\ \A k \in 1..(Cardinality(H) + Cardinality(J)) :
            (first \o others)[k] = IF k <= Cardinality(H) THEN first[k] ELSE others[k - Cardinality(H)]
       /\ first \o others \in Seq(H \cup Node)
  <2>1. /\ first \o others \in Seq(H \cup Node)
        /\ Len(first \o others) = Len(first) + Len(others)
        /\ \A k \in 1..(Len(first) + Len(others)) :
             (first \o others)[k] = IF k <= Len(first) THEN first[k] ELSE others[k - Len(first)]
    BY <1>9, ConcatProperties
  <2>2. QED
    BY <1>2, <1>8, <2>1
<1>11. \A k \in 1..Cardinality(H) : \E h \in H : Rank(H, h) = k - 1 /\ (first \o others)[k] = h
  BY <1>2, <1>4, <1>10
<1>12. ASSUME NEW k \in 1..Cardinality(J)
       PROVE  \E i \in J : Preceding(J, i) = k - 1
                           /\ (first \o others)[Cardinality(H) + k] = Other(links[i], s)
  <2>1. (first \o others)[Cardinality(H) + k] = others[k]
    BY <1>2, <1>4, <1>10
  <2>2. PICK i \in J : Preceding(J, i) = k - 1 /\ joined[k] = links[i]
    BY <1>4
  <2>3. QED
    BY <1>7, <2>1, <2>2
<1>13. DOMAIN (first \o others) = 1..(Cardinality(H) + Cardinality(J))
  BY <1>10
<1>14. QED
  BY <1>2, <1>4, <1>5, <1>11, <1>12, <1>13 DEF H, J

\* A link is added after those of the hosts before, or after all hosts' and those
\* listed before.
LEMMA AddedLinks ==
  ASSUME NEW links, IsNetwork(links), NEW s, ~IsHost(s), NEW i \in Joined(links, s)
  PROVE  {j \in Joined(links, s) : AddedBefore(links, j, i)} =
           IF HasHost(links[i])
           THEN {j \in HostPlaces(links, s) : TextKey(HostOf(links[j])) < TextKey(HostOf(links[i]))}
           ELSE HostPlaces(links, s) \cup {j \in SwitchPlaces(links, s) : j < i}
<1> DEFINE added == {j \in Joined(links, s) : AddedBefore(links, j, i)}
<1>1. CASE HasHost(links[i])
  <2>1. ASSUME NEW j \in HostPlaces(links, s), HostOf(links[j]) = HostOf(links[i]) PROVE j = i
    <3>1. i \in HostPlaces(links, s) /\ i \in DOMAIN links /\ j \in DOMAIN links
      BY <1>1 DEF HostPlaces, Joined
    <3>2. Ends(links[j]) = Ends(links[i])
      <4>1. Ends(links[j]) = {s, HostOf(links[j])}
        BY HostAtEnd
      <4>2. Ends(links[i]) = {s, HostOf(links[i])}
        BY <3>1, HostAtEnd
      <4>3. QED
        BY <2>1, <4>1, <4>2
    <3>3. QED
      BY <3>1, <3>2, NetworkFacts
  <2>2. i \in Int
    BY DEF Joined, IsNetwork
  <2>3. \A j \in Joined(links, s) :
          AddedBefore(links, j, i) <=>
            HasHost(links[j]) /\ TextKey(HostOf(links[j])) < TextKey(HostOf(links[i]))
    <3> SUFFICES ASSUME NEW j \in Joined(links, s)
                 PROVE  AddedBefore(links, j, i) <=>
                          HasHost(links[j]) /\ TextKey(HostOf(links[j])) < TextKey(HostOf(links[i]))
      OBVIOUS
    <3>1. ~(j < i /\ HasHost(links[j]) /\ HostOf(links[j]) = HostOf(links[i]))
      BY <2>1, <2>2 DEF HostPlaces
    <3>2. QED
      BY <1>1, <3>1 DEF AddedBefore
  <2>4. QED
    BY <1>1, <2>3 DEF HostPlaces
<1>2. CASE ~HasHost(links[i])
  <2>1. \A j \in Joined(links, s) :
          AddedBefore(links, j, i) <=> HasHost(links[j]) \/ (~HasHost(links[j]) /\ j < i)
    BY <1>2 DEF AddedBefore
  <2>2. QED
    BY <1>2, <2>1 DEF HostPlaces, SwitchPlaces
<1>3. QED
  BY <1>1, <1>2

LEMMA PlacesAreFinite ==
  ASSUME NEW links, IsNetwork(links), NEW s
  PROVE  /\ Joined(links, s) \subseteq Nat /\ IsFiniteSet(Joined(links, s))
         /\ IsFiniteSet(HostPlaces(links, s)) /\ IsFiniteSet(SwitchPlaces(links, s))
<1>1. Joined(links, s) \subseteq DOMAIN links /\ DOMAIN links = 1..Len(links) /\ Len(links) \in Nat
  BY DEF IsNetwork, Joined
<1>2. IsFiniteSet(1..Len(links))
  BY <1>1, FS_Interval
<1>3. IsFiniteSet(Joined(links, s))
  BY <1>1, <1>2, FS_Subset
<1>4. QED
  BY <1>1, <1>3, FS_Subset DEF HostPlaces, SwitchPlaces

LEMMA PortsAreThose ==
  ASSUME NEW links, IsNetwork(links), NEW s \in Nodes(links), ~IsHost(s), NEW n, Linked(links, s, n)
  PROVE  PortTo(links, s, n) = MininetPort(links, s, n)
<1> DEFINE H == HostsAt(links, s)
           J == SwitchPlaces(links, s)
           P == HostPlaces(links, s)
           ports == SwPorts(links, s)
<1>1. PICK i \in DOMAIN links : Ends(links[i]) = {s, n}
  BY LinkedAtPlaces
<1>2. \A j \in DOMAIN links : Ends(links[j]) = {s, n} => j = i
  BY <1>1, NetworkFacts
<1>3. i \in Joined(links, s) /\ n # s
  BY <1>1, NetworkFacts DEF Joined, Ends
<1> DEFINE added == {j \in Joined(links, s) : AddedBefore(links, j, i)}
<1>4. MininetPort(links, s, n) = 1 + Cardinality(added)
  <2>1. (CHOOSE j \in DOMAIN links : Ends(links[j]) = {s, n}) = i
    BY <1>1, <1>2
  <2>2. QED
    BY <2>1 DEF MininetPort
<1>5. /\ Cardinality(H) \in Nat /\ Cardinality(J) \in Nat
      /\ DOMAIN ports = 1..(Cardinality(H) + Cardinality(J))
      /\ \A h \in H : Rank(H, h) \in 0..(Cardinality(H) - 1)
      /\ \A j \in J : Preceding(J, j) \in 0..(Cardinality(J) - 1)
      /\ \A k \in 1..Cardinality(H) :
           \E h \in H : Rank(H, h) = k - 1 /\ ports[k] = h
      /\ \A k \in 1..Cardinality(J) :
           \E j \in J : Preceding(J, j) = k - 1 /\ ports[Cardinality(H) + k] = Other(links[j], s)
  BY SwPortsLists
<1>6. \A h \in H : IsHost(h)
  BY DEF HostsAt
<1>7. \A j \in J : Ends(links[j]) = {s, Other(links[j], s)} /\ ~IsHost(Other(links[j], s)) /\ j \in DOMAIN links
  BY OtherEnd DEF SwitchPlaces, HasHost
<1>8. CASE IsHost(n)
  <2>1. i \in P /\ HasHost(links[i]) /\ HostOf(links[i]) = n
    BY <1>1, <1>3, <1>8 DEF HostPlaces, HasHost, HostOf
  <2>2. n \in H
    BY <2>1, HostAtEnd
  <2> DEFINE B == {h \in H : TextKey(h) < TextKey(n)}
  <2>3. added = {j \in P : TextKey(HostOf(links[j])) < TextKey(n)}
    BY <1>3, <2>1, AddedLinks
  <2>4. added = {j \in P : HostOf(links[j]) \in B}
    BY <2>3, HostAtEnd
  <2>5. Cardinality(added) = Rank(H, n)
    <3>1. Cardinality({j \in P : HostOf(links[j]) \in B}) = Cardinality(B)
      BY AsManyHosts
    <3>2. QED
      BY <2>4, <3>1 DEF Rank
  <2> HIDE DEF ports, H, J, P
  <2>6. \A k \in DOMAIN ports : ports[k] = n => k = Rank(H, n) + 1
    <3> SUFFICES ASSUME NEW k \in DOMAIN ports, ports[k] = n PROVE k = Rank(H, n) + 1
      OBVIOUS
    <3>1. CASE k <= Cardinality(H)
      BY <1>5, <3>1
    <3>2. CASE k > Cardinality(H)
      <4> DEFINE m == k - Cardinality(H)
      <4>1. m \in 1..Cardinality(J) /\ Cardinality(H) + m = k
        BY <1>5, <3>2
      <4>2. QED
        BY <1>5, <1>7, <1>8, <4>1
    <3>3. QED
      BY <1>5, <3>1, <3>2
  <2>7. Rank(H, n) + 1 \in DOMAIN ports /\ ports[Rank(H, n) + 1] = n
    <3>1. Rank(H, n) + 1 \in 1..Cardinality(H) /\ (Rank(H, n) + 1) - 1 = Rank(H, n)
      BY <1>5, <2>2
    <3>2. PICK h \in H : Rank(H, h) = Rank(H, n) /\ ports[Rank(H, n) + 1] = h
      BY <1>5, <3>1
    <3>3. h = n
      <4>1. H \subseteq Hosts
        BY NetworkFacts DEF H, HostsAt, Hosts
      <4>2. Sorted(H)[Rank(H, h) + 1] = h /\ Sorted(H)[Rank(H, n) + 1] = n
        BY <2>2, <4>1, SortedLists
      <4>3. QED
        BY <3>2, <4>2
    <3>4. QED
      BY <1>5, <3>1, <3>2, <3>3
  <2>8. PortTo(links, s, n) = Rank(H, n) + 1
    BY <2>6, <2>7 DEF PortTo, ports
  <2>9. Rank(H, n) \in Int
    BY <1>5, <2>2
  <2>10. QED
    BY <1>4, <2>5, <2>8, <2>9
<1>9. CASE ~IsHost(n)
  <2>1. i \in J /\ ~HasHost(links[i]) /\ Other(links[i], s) = n
    BY <1>1, <1>3, <1>9, OtherEnd DEF SwitchPlaces, HasHost
  <2> DEFINE before == {j \in J : j < i}
  <2>2. added = P \cup before /\ P \cap before = {}
    BY <1>3, <2>1, AddedLinks DEF HostPlaces, SwitchPlaces
  <2>3. Cardinality(added) = Cardinality(H) + Preceding(J, i)
    <3>1. IsFiniteSet(P) /\ IsFiniteSet(J)
      BY PlacesAreFinite
    <3>2. IsFiniteSet(before)
      BY <3>1, FS_Subset
    <3>3. Cardinality(P) = Cardinality(H)
      <4>1. P = {j \in P : HostOf(links[j]) \in H}
        BY HostAtEnd
      <4>2. QED
        BY <4>1, AsManyHosts
    <3>4. Cardinality(P \cup before) = Cardinality(P) + Cardinality(before) - Cardinality(P \cap before)
      BY <3>1, <3>2, FS_Union
    <3>5. Cardinality(P \cap before) = 0
      BY <2>2, FS_EmptySet
    <3>6. Cardinality(before) \in Nat /\ Cardinality(before) = Preceding(J, i)
      BY <3>2, FS_CardinalityType DEF Preceding
    <3>7. Cardinality(added) = Cardinality(P \cup before)
      BY <2>2
    <3> HIDE DEF added, before, H, J, P
    <3>8. QED
      BY <1>5, <3>3, <3>4, <3>5, <3>6, <3>7
  <2> HIDE DEF ports, H, J, P
  <2>4. \A k \in DOMAIN ports : ports[k] = n => k = Cardinality(H) + Preceding(J, i) + 1
    <3> SUFFICES ASSUME NEW k \in DOMAIN ports, ports[k] = n
                 PROVE  k = Cardinality(H) + Preceding(J, i) + 1
      OBVIOUS
    <3>1. CASE k <= Cardinality(H)
      BY <1>5, <1>6, <1>9, <3>1
    <3>2. CASE k > Cardinality(H)
      <4> DEFINE m == k - Cardinality(H)
      <4>1. m \in 1..Cardinality(J) /\ Cardinality(H) + m = k
        BY <1>5, <3>2
      <4>2. PICK j \in J : Preceding(J, j) = m - 1 /\ ports[k] = Other(links[j], s)
        BY <1>5, <4>1
      <4>3. j = i
        BY <1>2, <1>7, <4>2
      <4>4. QED
        BY <1>5, <4>1, <4>2, <4>3
    <3>3. QED
      BY <1>5, <3>1, <3>2
  <2>5. /\ Cardinality(H) + Preceding(J, i) + 1 \in DOMAIN ports
        /\ ports[Cardinality(H) + Preceding(J, i) + 1] = n
    <3> DEFINE m == Preceding(J, i) + 1
    <3>1. m \in 1..Cardinality(J) /\ m - 1 = Preceding(J, i)
      BY <1>5, <2>1
    <3>2. PICK j \in J : Preceding(J, j) = Preceding(J, i) /\ ports[Cardinality(H) + m] = Other(links[j], s)
      BY <1>5, <3>1
    <3>3. j = i
      <4>1. J \subseteq DOMAIN links /\ links \in Seq(Node \X Node)
        BY DEF J, SwitchPlaces, Joined, IsNetwork
      <4>2. \A a, b \in J : Preceding(J, a) = Preceding(J, b) => a = b
        BY <4>1, KeptLists
      <4>3. QED
        BY <2>1, <3>2, <4>2
    <3>4. Cardinality(H) + m = Cardinality(H) + Preceding(J, i) + 1 /\ Cardinality(H) + m \in DOMAIN ports
      BY <1>5, <3>1
    <3>5. QED
      BY <2>1, <3>2, <3>3, <3>4
  <2>6. PortTo(links, s, n) = Cardinality(H) + Preceding(J, i) + 1
    BY <2>4, <2>5 DEF PortTo, ports
  <2>7. Cardinality(H) \in Int /\ Preceding(J, i) \in Int
    BY <1>5, <2>1
  <2>8. QED
    BY <1>4, <2>3, <2>6, <2>7
<1>10. QED
  BY <1>8, <1>9

-----------------------------------------------------------------------------
(***************************************************************************)
(* The recursion of _recPath ends: a call shuns more nodes than the one it *)
(* comes from, or shuns the node it starts from no longer.  So there is a  *)
(* function as RecPath asks for, and RecPath is one.                       *)
(***************************************************************************)
Calls(links) == Nodes(links) \X SUBSET Nodes(links)
Visited(p) == p[2] \cup {p[1]}
Open(links, b, p) ==
  {i \in Joined(links, p[1]) : /\ Other(links[i], p[1]) \notin Visited(p)
                               /\ Exclude(Other(links[i], p[1])) => Other(links[i], p[1]) = b}
Call(links, p, i) == <<Other(links[i], p[1]), Visited(p)>>
Ways(links, b, path, p) == [i \in Open(links, b, p) |-> path[Call(links, p, i)]]
Found(links, b, path, p) == {i \in Open(links, b, p) : Ways(links, b, path, p)[i] # NoPath}
Result(links, b, path, p) ==
  IF p[1] = b THEN <<b>>
  ELSE IF Found(links, b, path, p) = {} THEN NoPath
  ELSE <<p[1]>> \o Ways(links, b, path, p)[Shortest(Ways(links, b, path, p), Found(links, b, path, p))]

Left(links, p) == 2 * Cardinality(Nodes(links) \ p[2]) + (IF p[1] \in p[2] THEN 1 ELSE 0)

LEMMA NodesFinite ==
  ASSUME NEW links, IsNetwork(links)
  PROVE  IsFiniteSet(Nodes(links)) /\ Cardinality(Nodes(links)) \in Nat
<1>1. Nodes(links) \subseteq Node
  BY NetworkFacts
<1>2. IsFiniteSet(Nodes(links))
  BY <1>1, NodesAreFinite, FS_Subset
<1>3. QED
  BY <1>2, FS_CardinalityType

LEMMA CallsLeadDown ==
  ASSUME NEW links, IsNetwork(links), NEW b, NEW p \in Calls(links)
  PROVE  /\ Left(links, p) \in Nat /\ Left(links, p) <= 2 * Cardinality(Nodes(links)) + 1
         /\ \A i \in Open(links, b, p) :
              /\ Call(links, p, i) \in Calls(links)
              /\ Left(links, Call(links, p, i)) < Left(links, p)
<1> DEFINE N == Nodes(links)
           V == p[2]
           a == p[1]
<1>1. a \in N /\ V \subseteq N
  BY DEF Calls
<1>2. IsFiniteSet(N) /\ Cardinality(N) \in Nat
  BY NodesFinite
<1>3. IsFiniteSet(N \ V) /\ Cardinality(N \ V) \in Nat /\ Cardinality(N \ V) <= Cardinality(N)
  BY <1>2, FS_Subset, FS_CardinalityType
<1>4. Left(links, p) = 2 * Cardinality(N \ V) + (IF a \in V THEN 1 ELSE 0)
  BY DEF Left
<1>5. ASSUME NEW i \in Open(links, b, p)
      PROVE  Call(links, p, i) \in Calls(links) /\ Left(links, Call(links, p, i)) < Left(links, p)
  <2> DEFINE c == Other(links[i], a)
             W == V \cup {a}
  <2>1. i \in Joined(links, a) /\ c \notin W
    BY DEF Open, Visited
  <2>2. c \in N
    BY <2>1, OtherEnd
  <2>3. Call(links, p, i) = <<c, W>> /\ Call(links, p, i) \in Calls(links)
    BY <1>1, <2>2 DEF Call, Visited, Calls
  <2>4. Left(links, <<c, W>>) = 2 * Cardinality(N \ W)
    <3>1. <<c, W>>[1] = c /\ <<c, W>>[2] = W
      OBVIOUS
    <3>2. IsFiniteSet(N \ W) /\ Cardinality(N \ W) \in Nat
      BY <1>2, FS_Subset, FS_CardinalityType
    <3>3. QED
      BY <2>1, <3>1, <3>2 DEF Left
  <2>5. N \ W = (N \ V) \ {a}
    OBVIOUS
  <2>6. Cardinality(N \ W) = IF a \in V THEN Cardinality(N \ V) ELSE Cardinality(N \ V) - 1
    BY <1>1, <1>3, <2>5, FS_RemoveElement
  <2>7. QED
    BY <1>3, <1>4, <2>3, <2>4, <2>6
<1>6. Left(links, p) \in Nat /\ Left(links, p) <= 2 * Cardinality(N) + 1
  <2> HIDE DEF N, V, a
  <2>1. QED
    BY <1>2, <1>3, <1>4
<1>7. QED
  BY <1>5, <1>6

LEMMA ResultOfWays ==
  ASSUME NEW links, NEW b, NEW p, NEW f, NEW g,
         \A i \in Open(links, b, p) : f[Call(links, p, i)] = g[Call(links, p, i)]
  PROVE  Result(links, b, f, p) = Result(links, b, g, p)
<1>1. Ways(links, b, f, p) = Ways(links, b, g, p)
  BY DEF Ways
<1>2. Found(links, b, f, p) = Found(links, b, g, p)
  BY <1>1 DEF Found
<1>3. QED
  BY <1>1, <1>2 DEF Result

LEMMA RecPathExists ==
  ASSUME NEW links, IsNetwork(links), NEW b
  PROVE  \E f : f = [p \in Calls(links) |-> Result(links, b, f, p)]
<1> DEFINE D(n) == {p \in Calls(links) : Left(links, p) < n}
           Is(f, n) == f = [p \in D(n) |-> Result(links, b, f, p)]
           Bad == {n \in Nat : ~\E f : Is(f, n)}
<1>1. Bad = {}
  <2> SUFFICES ASSUME Bad # {} PROVE FALSE
    OBVIOUS
  <2>1. PICK n \in Bad : \A m \in Bad : n <= m
    BY Least
  <2>2. n \in Nat /\ ~\E f : Is(f, n)
    BY <2>1
  <2>3. n # 0
    <3>1. D(0) = {}
      BY CallsLeadDown
    <3>2. Is([p \in D(0) |-> 0], 0)
      BY <3>1
    <3>3. QED
      BY <2>2, <3>2
  <2>4. n - 1 \in Nat /\ n - 1 \notin Bad
    <3>1. n - 1 \in Nat /\ ~(n <= n - 1)
      BY <2>2, <2>3
    <3> HIDE DEF Bad
    <3>2. QED
      BY <2>1, <3>1
  <2>5. PICK f : Is(f, n - 1)
    BY <2>4
  <2> DEFINE g == [p \in D(n) |-> Result(links, b, f, p)]
  <2>6. ASSUME NEW p \in D(n) PROVE Result(links, b, f, p) = Result(links, b, g, p)
    <3>1. ASSUME NEW i \in Open(links, b, p) PROVE f[Call(links, p, i)] = g[Call(links, p, i)]
      <4> DEFINE q == Call(links, p, i)
      <4>1. q \in Calls(links) /\ Left(links, q) \in Nat /\ Left(links, p) \in Nat
            /\ Left(links, q) < Left(links, p)
        BY CallsLeadDown
      <4>2. q \in D(n - 1) /\ q \in D(n)
        BY <2>2, <4>1
      <4> HIDE DEF q
      <4>3. f[q] = Result(links, b, f, q)
        BY <2>5, <4>2
      <4>4. g[q] = Result(links, b, f, q)
        BY <4>2
      <4>5. QED
        BY <4>3, <4>4 DEF q
    <3> HIDE DEF g
    <3>2. QED
      BY <3>1, ResultOfWays
  <2>7. g = [p \in D(n) |-> Result(links, b, g, p)]
    BY <2>6
  <2>8. QED
    BY <2>2, <2>7
<1> DEFINE top == 2 * Cardinality(Nodes(links)) + 2
<1>2. top \in Nat
  BY NodesFinite
<1>3. D(top) = Calls(links)
  <2>1. \A p \in Calls(links) : Left(links, p) < top
    BY CallsLeadDown, NodesFinite
  <2>2. QED
    BY <2>1
<1>4. PICK f : Is(f, top)
  BY <1>1, <1>2
<1>5. QED
  BY <1>3, <1>4

LEMMA RecPathUnfolds ==
  ASSUME NEW links, IsNetwork(links), NEW b, NEW p \in Calls(links)
  PROVE  RecPath(links, b)[p] = Result(links, b, RecPath(links, b), p)
<1> DEFINE path == RecPath(links, b)
<1>1. path = CHOOSE f : f = [q \in Calls(links) |-> Result(links, b, f, q)]
  BY DEF RecPath, Calls, Result, Found, Ways, Call, Open, Visited
<1> HIDE DEF path
<1>2. path = [q \in Calls(links) |-> Result(links, b, path, q)]
  BY <1>1, RecPathExists
<1>3. path[p] = Result(links, b, path, p)
  BY <1>2
<1>4. QED
  BY <1>3 DEF path

-----------------------------------------------------------------------------
(***************************************************************************)
(* What _recPath finds is a way to b that shuns what it is to shun, and no *)
(* such way that goes nowhere twice is shorter.                            *)
(***************************************************************************)
IsWay(links, w, a, b) ==
  /\ w \in Seq(Nodes(links)) /\ Len(w) > 0
  /\ w[1] = a /\ w[Len(w)] = b
  /\ \A i \in 1..(Len(w) - 1) : Linked(links, w[i], w[i + 1])
  /\ \A i \in 2..(Len(w) - 1) : ~IsHost(w[i])
  /\ \A i, j \in 1..Len(w) : w[i] = w[j] => i = j
Shuns(w, V) == \A i \in 2..Len(w) : w[i] \notin V

IsShortest(links, b, path, p) ==
  /\ path = NoPath \/ (IsWay(links, path, p[1], b) /\ Shuns(path, p[2]))
  /\ \A w : IsWay(links, w, p[1], b) /\ Shuns(w, p[2]) => path # NoPath /\ Len(path) <= Len(w)

LEMMA ShortestOfSome ==
  ASSUME NEW found, found \subseteq Nat, found # {}, NEW way, \A i \in found : Len(way[i]) \in Nat
  PROVE  Shortest(way, found) \in found /\ \A j \in found : Len(way[Shortest(way, found)]) <= Len(way[j])
<1> DEFINE lengths == {Len(way[i]) : i \in found}
<1>1. lengths \subseteq Nat /\ lengths # {}
  OBVIOUS
<1>2. PICK n \in lengths : \A m \in lengths : n <= m
  BY <1>1, Least
<1> DEFINE those == {i \in found : Len(way[i]) = n}
<1>3. those \subseteq Nat /\ those # {}
  BY <1>2
<1>4. PICK i \in those : \A j \in those : i <= j
  BY <1>3, Least
<1>5. i \in found /\ Len(way[i]) = n /\ i \in Nat /\ n \in Nat
  BY <1>1, <1>2
<1>6. ASSUME NEW j \in found
      PROVE  Len(way[i]) <= Len(way[j]) /\ (j < i => Len(way[i]) < Len(way[j]))
  <2>1. n <= Len(way[j]) /\ Len(way[j]) \in Nat /\ j \in Nat
    BY <1>2
  <2>2. Len(way[j]) = n => i <= j
    BY <1>4
  <2> HIDE DEF those, lengths
  <2>3. QED
    BY <1>5, <2>1, <2>2
<1>7. \E k \in found : \A j \in found : Len(way[k]) <= Len(way[j]) /\ (j < k => Len(way[k]) < Len(way[j]))
  BY <1>5, <1>6
<1>8. QED
  BY <1>7 DEF Shortest

\* A way from a neighbor that shuns a is one from a.
LEMMA WayFromNeighbor ==
  ASSUME NEW links, NEW a \in Nodes(links), NEW b, a # b, NEW c, NEW v, NEW V,
         IsWay(links, v, c, b), Shuns(v, V \cup {a}), c \notin V \cup {a},
         IsHost(c) => c = b, Linked(links, a, c)
  PROVE  /\ IsWay(links, <<a>> \o v, a, b) /\ Shuns(<<a>> \o v, V)
         /\ Len(<<a>> \o v) = Len(v) + 1 /\ <<a>> \o v # NoPath
<1> DEFINE w == <<a>> \o v
           n == Len(v)
<1>1. v \in Seq(Nodes(links)) /\ n \in Nat /\ n > 0 /\ v[1] = c /\ v[n] = b
  BY DEF IsWay
<1>2. <<a>> \in Seq(Nodes(links)) /\ Len(<<a>>) = 1 /\ <<a>>[1] = a
  OBVIOUS
<1>3. w \in Seq(Nodes(links)) /\ Len(w) = n + 1
      /\ \A i \in 1..(n + 1) : w[i] = IF i <= 1 THEN a ELSE v[i - 1]
  <2>1. /\ w \in Seq(Nodes(links)) /\ Len(w) = Len(<<a>>) + Len(v)
        /\ \A i \in 1..(Len(<<a>>) + Len(v)) : w[i] = IF i <= Len(<<a>>) THEN <<a>>[i] ELSE v[i - Len(<<a>>)]
    BY <1>1, <1>2, ConcatProperties
  <2> HIDE DEF w, n
  <2>2. QED
    BY <1>1, <1>2, <2>1 DEF n
<1> HIDE DEF w
<1>4. w[1] = a /\ \A i \in 2..(n + 1) : w[i] = v[i - 1] /\ i - 1 \in 1..n
  BY <1>1, <1>3
<1>5. \A k \in 1..n : v[k] # a /\ v[k] \notin V
  <2> SUFFICES ASSUME NEW k \in 1..n PROVE v[k] # a /\ v[k] \notin V
    OBVIOUS
  <2>1. CASE k = 1
    BY <1>1, <2>1
  <2>2. CASE k # 1
    BY <1>1, <2>2 DEF Shuns
  <2>3. QED
    BY <2>1, <2>2
<1>6. \A i \in 1..(Len(w) - 1) : Linked(links, w[i], w[i + 1])
  <2> SUFFICES ASSUME NEW i \in 1..(Len(w) - 1) PROVE Linked(links, w[i], w[i + 1])
    OBVIOUS
  <2>1. CASE i = 1
    BY <1>1, <1>3, <1>4, <2>1
  <2>2. CASE i # 1
    <3>1. w[i] = v[i - 1] /\ w[i + 1] = v[(i - 1) + 1] /\ i - 1 \in 1..(n - 1)
      BY <1>1, <1>3, <1>4, <2>2
    <3>2. QED
      BY <3>1 DEF IsWay
  <2>3. QED
    BY <2>1, <2>2
<1>7. \A i \in 2..(Len(w) - 1) : ~IsHost(w[i])
  <2> SUFFICES ASSUME NEW i \in 2..(Len(w) - 1) PROVE ~IsHost(w[i])
    OBVIOUS
  <2>1. w[i] = v[i - 1] /\ i - 1 \in 1..(n - 1)
    BY <1>1, <1>3, <1>4
  <2>2. CASE i = 2
    <3>1. c # b
      BY <1>1, <2>1, <2>2 DEF IsWay
    <3>2. QED
      BY <1>1, <2>1, <2>2, <3>1
  <2>3. CASE i # 2
    <3>1. i - 1 \in 2..(Len(v) - 1)
      BY <1>1, <2>1, <2>3
    <3>2. QED
      BY <2>1, <3>1 DEF IsWay
  <2>4. QED
    BY <2>2, <2>3
<1>8. \A i, j \in 1..Len(w) : w[i] = w[j] => i = j
  <2> SUFFICES ASSUME NEW i \in 1..Len(w), NEW j \in 1..Len(w), w[i] = w[j] PROVE i = j
    OBVIOUS
  <2>1. CASE i = 1 \/ j = 1
    BY <1>1, <1>3, <1>4, <1>5, <2>1
  <2>2. CASE i # 1 /\ j # 1
    <3>1. v[i - 1] = v[j - 1] /\ i - 1 \in 1..Len(v) /\ j - 1 \in 1..Len(v)
      BY <1>1, <1>3, <1>4, <2>2
    <3>2. i - 1 = j - 1
      BY <3>1 DEF IsWay
    <3>3. QED
      BY <3>2
  <2>3. QED
    BY <2>1, <2>2
<1>9. Shuns(w, V)
  BY <1>1, <1>3, <1>4, <1>5 DEF Shuns
<1>10. w[Len(w)] = b
  BY <1>1, <1>3, <1>4
<1>11. IsWay(links, w, a, b)
  BY <1>1, <1>3, <1>4, <1>6, <1>7, <1>8, <1>10 DEF IsWay
<1>12. w # NoPath
  BY <1>1, <1>3 DEF NoPath
<1>13. QED
  BY <1>3, <1>9, <1>11, <1>12 DEF w, n

\* And the rest of a way from a is a way from a neighbor that shuns a.
RestIsBehind(links, w, a, b, V, c) ==
  /\ c = w[2] /\ c \notin V \cup {a} /\ (IsHost(c) => c = b)
  /\ \E v : IsWay(links, v, c, b) /\ Shuns(v, V \cup {a}) /\ Len(v) = Len(w) - 1

LEMMA RestOfWay ==
  ASSUME NEW links, IsNetwork(links), NEW a, NEW b, a # b, NEW w, NEW V,
         IsWay(links, w, a, b), Shuns(w, V)
  PROVE  \E i \in Joined(links, a) : RestIsBehind(links, w, a, b, V, Other(links[i], a))
<1> DEFINE n == Len(w)
<1>1. w \in Seq(Nodes(links)) /\ n \in Nat /\ n > 0 /\ w[1] = a /\ w[n] = b
  BY DEF IsWay
<1>2. n > 1
  BY <1>1
<1>3. Linked(links, a, w[2])
  <2>1. 1 \in 1..(Len(w) - 1)
    BY <1>1, <1>2
  <2>2. Linked(links, w[1], w[1 + 1])
    BY <2>1 DEF IsWay
  <2>3. QED
    BY <1>1, <2>2
<1>4. w[2] # a /\ w[2] \notin V
  BY <1>1, <1>2 DEF IsWay, Shuns
<1>5. PICK i \in DOMAIN links : Ends(links[i]) = {a, w[2]}
  BY <1>3, LinkedAtPlaces
<1>6. i \in Joined(links, a)
  BY <1>5 DEF Joined
<1>7. Other(links[i], a) = w[2]
  BY <1>5, <1>6, OtherEnd
<1>8. IsHost(w[2]) => w[2] = b
  <2>1. \A m \in Nat : m > 1 => m = 2 \/ 2 \in 2..(m - 1)
    OBVIOUS
  <2>2. n = 2 \/ 2 \in 2..(n - 1)
    BY <1>1, <1>2, <2>1
  <2>3. QED
    BY <1>1, <2>2 DEF IsWay
<1> DEFINE v == [k \in 1..(n - 1) |-> w[k + 1]]
<1>9. \A k \in 1..(n - 1) : k + 1 \in 1..n /\ w[k + 1] \in Nodes(links)
  BY <1>1
<1>10. v \in Seq(Nodes(links)) /\ Len(v) = n - 1 /\ \A k \in 1..(n - 1) : v[k] = w[k + 1]
  BY <1>1, <1>2, <1>9
<1> HIDE DEF v
<1>11. v[1] = w[2] /\ v[Len(v)] = b
  BY <1>1, <1>2, <1>10
<1>12. \A k \in 1..(Len(v) - 1) : Linked(links, v[k], v[k + 1])
  <2> SUFFICES ASSUME NEW k \in 1..(Len(v) - 1) PROVE Linked(links, v[k], v[k + 1])
    OBVIOUS
  <2>1. v[k] = w[k + 1] /\ v[k + 1] = w[(k + 1) + 1] /\ k + 1 \in 1..(Len(w) - 1)
    BY <1>1, <1>10
  <2>2. QED
    BY <2>1 DEF IsWay
<1>13. \A k \in 2..(Len(v) - 1) : ~IsHost(v[k])
  <2> SUFFICES ASSUME NEW k \in 2..(Len(v) - 1) PROVE ~IsHost(v[k])
    OBVIOUS
  <2>1. v[k] = w[k + 1] /\ k + 1 \in 2..(Len(w) - 1)
    BY <1>1, <1>10
  <2>2. QED
    BY <2>1 DEF IsWay
<1>14. \A j, k \in 1..Len(v) : v[j] = v[k] => j = k
  <2> SUFFICES ASSUME NEW j \in 1..Len(v), NEW k \in 1..Len(v), v[j] = v[k] PROVE j = k
    OBVIOUS
  <2>1. w[j + 1] = w[k + 1] /\ j + 1 \in 1..Len(w) /\ k + 1 \in 1..Len(w)
    BY <1>1, <1>10
  <2>2. j + 1 = k + 1
    BY <2>1 DEF IsWay
  <2>3. QED
    BY <2>2
<1>15. IsWay(links, v, w[2], b)
  BY <1>1, <1>2, <1>10, <1>11, <1>12, <1>13, <1>14 DEF IsWay
<1>16. Shuns(v, V \cup {a})
  <2> SUFFICES ASSUME NEW k \in 2..Len(v) PROVE v[k] \notin V /\ v[k] # a
    BY DEF Shuns
  <2>1. v[k] = w[k + 1] /\ k + 1 \in 2..Len(w) /\ k + 1 \in 1..Len(w) /\ 1 \in 1..Len(w) /\ k + 1 # 1
    BY <1>1, <1>10
  <2>2. w[k + 1] # w[1]
    BY <2>1 DEF IsWay
  <2>3. QED
    BY <1>1, <2>1, <2>2 DEF Shuns
<1>17. RestIsBehind(links, w, a, b, V, w[2])
  BY <1>4, <1>8, <1>10, <1>15, <1>16 DEF RestIsBehind
<1>18. QED
  BY <1>6, <1>7, <1>17

LEMMA RecPathIsShortest ==
  ASSUME NEW links, IsNetwork(links), NEW b \in Nodes(links), NEW p \in Calls(links)
  PROVE  IsShortest(links, b, RecPath(links, b)[p], p)
<1> DEFINE path == RecPath(links, b)
           Good(q) == IsShortest(links, b, path[q], q)
           Bad == {q \in Calls(links) : ~Good(q)}
           lefts == {Left(links, q) : q \in Bad}
<1> SUFFICES ASSUME Bad # {} PROVE FALSE
  OBVIOUS
<1>1. lefts \subseteq Nat /\ lefts # {}
  BY CallsLeadDown
<1>2. PICK n \in lefts : \A m \in lefts : n <= m
  BY <1>1, Least
<1>3. PICK q \in Bad : Left(links, q) = n
  OBVIOUS
<1>4. q \in Calls(links) /\ ~Good(q)
  OBVIOUS
<1> DEFINE a == q[1]
           V == q[2]
           found == Found(links, b, path, q)
           way == Ways(links, b, path, q)
<1>5. a \in Nodes(links) /\ V \subseteq Nodes(links)
  BY <1>4 DEF Calls
<1>6. path[q] = Result(links, b, path, q)
  BY <1>4, RecPathUnfolds
<1>7. ASSUME NEW i \in Open(links, b, q) PROVE Good(Call(links, q, i))
  <2>1. /\ Call(links, q, i) \in Calls(links) /\ Left(links, Call(links, q, i)) \in Nat
        /\ Left(links, Call(links, q, i)) < Left(links, q)
    BY <1>4, CallsLeadDown
  <2>2. Call(links, q, i) \notin Bad
    <3>1. n \in Nat
      BY <1>1
    <3>2. ~(n <= Left(links, Call(links, q, i)))
      BY <1>3, <2>1, <3>1
    <3> HIDE DEF Bad
    <3>3. QED
      BY <1>2, <3>2
  <2>3. QED
    BY <2>1, <2>2
<1>8. CASE a = b
  <2>1. path[q] = <<b>>
    BY <1>6, <1>8 DEF Result
  <2>2. IsWay(links, <<b>>, a, b) /\ Shuns(<<b>>, V)
    BY <1>8 DEF IsWay, Shuns
  <2>3. ASSUME NEW w, IsWay(links, w, a, b) PROVE <<b>> # NoPath /\ Len(<<b>>) <= Len(w)
    <3>1. Len(w) \in Nat /\ Len(w) > 0
      BY <2>3 DEF IsWay
    <3>2. QED
      BY <3>1 DEF NoPath
  <2>4. QED
    BY <1>4, <2>1, <2>2, <2>3 DEF IsShortest
<1>9. CASE a # b
  <2>1. path[q] = IF found = {} THEN NoPath ELSE <<a>> \o way[Shortest(way, found)]
    BY <1>6, <1>9 DEF Result
  <2>2. ASSUME NEW i \in Open(links, b, q)
        PROVE  LET c == Other(links[i], a) IN
               /\ way[i] = path[<<c, V \cup {a}>>] /\ IsShortest(links, b, way[i], <<c, V \cup {a}>>)
               /\ c \notin V \cup {a} /\ (IsHost(c) => c = b) /\ Linked(links, a, c)
    <3> DEFINE c == Other(links[i], a)
    <3>1. i \in Joined(links, a) /\ c \notin V \cup {a} /\ (IsHost(c) => c = b)
      BY DEF Open, Visited, Exclude
    <3>2. Call(links, q, i) = <<c, V \cup {a}>>
      BY DEF Call, Visited
    <3>3. way[i] = path[<<c, V \cup {a}>>]
      BY <3>2 DEF Ways
    <3>4. IsShortest(links, b, way[i], <<c, V \cup {a}>>)
      BY <1>7, <3>2, <3>3
    <3>5. Linked(links, a, c)
      <4>1. i \in DOMAIN links /\ Ends(links[i]) = {a, c}
        BY <3>1, OtherEnd
      <4>2. QED
        BY <4>1, LinkedAtPlaces
    <3>6. QED
      BY <3>1, <3>3, <3>4, <3>5
  <2>3. \A i : i \in found <=> i \in Open(links, b, q) /\ way[i] # NoPath
    BY DEF Found
  <2> HIDE DEF found, way
  <2>4. ASSUME NEW i \in found
        PROVE  LET c == Other(links[i], a) IN
               /\ IsWay(links, way[i], c, b) /\ Shuns(way[i], V \cup {a})
               /\ c \notin V \cup {a} /\ (IsHost(c) => c = b) /\ Linked(links, a, c)
               /\ Len(way[i]) \in Nat
    <3> DEFINE c == Other(links[i], a)
    <3>1. i \in Open(links, b, q) /\ way[i] # NoPath
      BY <2>3
    <3>2. /\ IsShortest(links, b, way[i], <<c, V \cup {a}>>)
          /\ c \notin V \cup {a} /\ (IsHost(c) => c = b) /\ Linked(links, a, c)
      BY <2>2, <3>1
    <3> HIDE DEF c
    <3>3. IsWay(links, way[i], c, b) /\ Shuns(way[i], V \cup {a})
      BY <3>1, <3>2 DEF IsShortest
    <3>4. Len(way[i]) \in Nat
      BY <3>3 DEF IsWay
    <3>5. QED
      BY <3>2, <3>3, <3>4 DEF c
  <2>5. found \subseteq Nat
    BY <2>3, PlacesAreFinite DEF Open
  <2> DEFINE best == Shortest(way, found)
  <2>6. found # {} => best \in found /\ \A j \in found : Len(way[best]) <= Len(way[j])
    <3>1. \A i \in found : Len(way[i]) \in Nat
      BY <2>4
    <3>2. QED
      BY <2>5, <3>1, ShortestOfSome
  <2> HIDE DEF best
  <2>7. found # {} => /\ IsWay(links, path[q], a, b) /\ Shuns(path[q], V)
                      /\ Len(path[q]) = Len(way[best]) + 1 /\ path[q] # NoPath
    <3> SUFFICES ASSUME found # {}
                 PROVE  /\ IsWay(links, path[q], a, b) /\ Shuns(path[q], V)
                        /\ Len(path[q]) = Len(way[best]) + 1 /\ path[q] # NoPath
      OBVIOUS
    <3>1. path[q] = <<a>> \o way[best]
      BY <2>1 DEF best
    <3>2. best \in found
      BY <2>6
    <3> DEFINE c == Other(links[best], a)
    <3>3. /\ IsWay(links, way[best], c, b) /\ Shuns(way[best], V \cup {a})
          /\ c \notin V \cup {a} /\ (IsHost(c) => c = b) /\ Linked(links, a, c)
      BY <2>4, <3>2
    <3> HIDE DEF c
    <3>4. QED
      BY <1>5, <1>9, <3>1, <3>3, WayFromNeighbor
  <2>8. found = {} => path[q] = NoPath
    BY <2>1
  <2>9. ASSUME NEW w, IsWay(links, w, a, b), Shuns(w, V)
        PROVE  path[q] # NoPath /\ Len(path[q]) <= Len(w)
    <3> HIDE DEF a, V
    <3>1. PICK i \in Joined(links, a) : RestIsBehind(links, w, a, b, V, Other(links[i], a))
      BY <1>9, <2>9, RestOfWay
    <3> DEFINE c == Other(links[i], a)
    <3>2. i \in Open(links, b, q)
      BY <3>1 DEF RestIsBehind, Open, Visited, Exclude, a, V
    <3>3. IsShortest(links, b, way[i], <<c, V \cup {a}>>)
      BY <2>2, <3>2
    <3> HIDE DEF c
    <3>4. PICK v : IsWay(links, v, c, b) /\ Shuns(v, V \cup {a}) /\ Len(v) = Len(w) - 1
      BY <3>1 DEF RestIsBehind, c
    <3>5. way[i] # NoPath /\ Len(way[i]) <= Len(v)
      BY <3>3, <3>4 DEF IsShortest
    <3>6. i \in found
      BY <2>3, <3>2, <3>5
    <3>7. Len(way[best]) <= Len(way[i]) /\ Len(way[best]) \in Nat /\ Len(way[i]) \in Nat
      BY <2>4, <2>6, <3>6
    <3>8. Len(v) \in Nat /\ Len(w) \in Nat
      BY <2>9, <3>4 DEF IsWay
    <3>9. path[q] # NoPath /\ Len(path[q]) = Len(way[best]) + 1
      BY <2>7, <3>6
    <3>10. QED
      BY <3>4, <3>5, <3>7, <3>8, <3>9
  <2>10. IsShortest(links, b, path[q], q)
    BY <2>7, <2>8, <2>9 DEF IsShortest
  <2>11. QED
    BY <1>4, <2>10
<1>10. QED
  BY <1>8, <1>9


-----------------------------------------------------------------------------
(***************************************************************************)
(* Layer by layer: the ways of k hops or fewer end in the k-th layer, and  *)
(* each node of it ends one.                                               *)
(***************************************************************************)
Spread(links, a, S) ==
  S \cup {n \in Nodes(links) : \E m \in S : (m = a \/ ~IsHost(m)) /\ Linked(links, m, n)}

NextLayer(links, a, layer, k) == IF k = 0 THEN {a} ELSE Spread(links, a, layer[k - 1])

LEMMA LayersExist ==
  ASSUME NEW links, NEW a, NEW N \in Nat
  PROVE  \E f : f = [k \in 0..N |-> NextLayer(links, a, f, k)]
<1> USE DEF NextLayer
<1> DEFINE Is(f, n) == f = [k \in 0..n |-> IF k = 0 THEN {a} ELSE Spread(links, a, f[k - 1])]
           Bad == {n \in Nat : ~\E f : Is(f, n)}
<1> SUFFICES ASSUME Bad # {} PROVE FALSE
  OBVIOUS
<1>1. PICK n \in Bad : \A m \in Bad : n <= m
  BY Least
<1>2. n \in Nat /\ ~\E f : Is(f, n)
  BY <1>1
<1>3. n # 0
  <2>1. Is([k \in 0..0 |-> {a}], 0)
    OBVIOUS
  <2>2. QED
    BY <1>2, <2>1
<1>4. n - 1 \in Nat /\ n - 1 \notin Bad
  <2>1. n - 1 \in Nat /\ ~(n <= n - 1)
    BY <1>2, <1>3
  <2> HIDE DEF Bad
  <2>2. QED
    BY <1>1, <2>1
<1>5. PICK f : Is(f, n - 1)
  BY <1>4
<1> DEFINE g == [k \in 0..n |-> IF k = 0 THEN {a} ELSE Spread(links, a, f[k - 1])]
<1>6. \A k \in 0..(n - 1) : g[k] = f[k]
  <2> SUFFICES ASSUME NEW k \in 0..(n - 1) PROVE g[k] = f[k]
    OBVIOUS
  <2>1. k \in 0..n
    BY <1>2
  <2>2. f[k] = IF k = 0 THEN {a} ELSE Spread(links, a, f[k - 1])
    BY <1>5
  <2>3. QED
    BY <2>1, <2>2
<1>7. \A k \in 0..n : k # 0 => g[k - 1] = f[k - 1]
  <2> HIDE DEF g, Is
  <2>1. \A k \in 0..n : k # 0 => k - 1 \in 0..(n - 1)
    BY <1>2
  <2>2. QED
    BY <1>6, <2>1
<1>8. [k \in 0..n |-> IF k = 0 THEN {a} ELSE Spread(links, a, f[k - 1])]
      = [k \in 0..n |-> IF k = 0 THEN {a} ELSE Spread(links, a, g[k - 1])]
  <2> HIDE DEF g, Is
  <2>1. QED
    BY <1>7
<1>9. QED
  BY <1>2, <1>8

LEMMA LayerUnfolds ==
  ASSUME NEW links, IsNetwork(links), NEW a
  PROVE  /\ Layer(links, a)[0] = {a}
         /\ \A k \in 1..Cardinality(Nodes(links)) :
              Layer(links, a)[k] = Spread(links, a, Layer(links, a)[k - 1])
<1> DEFINE layer == Layer(links, a)
           N == Cardinality(Nodes(links))
<1>1. N \in Nat
  BY NodesFinite
<1>2. layer = CHOOSE f : f = [k \in 0..N |-> NextLayer(links, a, f, k)]
  BY DEF Layer, Spread, NextLayer
<1> HIDE DEF layer, N
<1>3. layer = [k \in 0..N |-> NextLayer(links, a, layer, k)]
  BY <1>1, <1>2, LayersExist
<1>4. \A k \in 0..N : layer[k] = NextLayer(links, a, layer, k)
  BY <1>3
<1>5. layer[0] = {a} /\ \A k \in 1..N : layer[k] = Spread(links, a, layer[k - 1])
  <2>1. 0 \in 0..N /\ \A k \in 1..N : k \in 0..N /\ k # 0
    BY <1>1
  <2>2. QED
    BY <1>4, <2>1 DEF NextLayer
<1>6. QED
  BY <1>5 DEF layer, N

LEMMA LayersGrow ==
  ASSUME NEW links, IsNetwork(links), NEW a, NEW j \in Nat, NEW k \in Nat,
         j <= k, k <= Cardinality(Nodes(links))
  PROVE  Layer(links, a)[j] \subseteq Layer(links, a)[k]
<1> DEFINE layer == Layer(links, a)
           N == Cardinality(Nodes(links))
           Bad == {n \in Nat : j <= n /\ n <= N /\ ~(layer[j] \subseteq layer[n])}
<1>1. N \in Nat
  BY NodesFinite
<1>2. \A n \in 1..N : layer[n - 1] \subseteq layer[n]
  BY LayerUnfolds DEF Spread
<1> HIDE DEF layer, N
<1>3. Bad = {}
  <2> SUFFICES ASSUME Bad # {} PROVE FALSE
    OBVIOUS
  <2>1. PICK n \in Bad : \A m \in Bad : n <= m
    BY Least
  <2>2. n \in Nat /\ j <= n /\ n <= N /\ ~(layer[j] \subseteq layer[n])
    BY <2>1
  <2>3. n # j
    BY <2>2
  <2>4. n - 1 \in Nat /\ j <= n - 1 /\ n - 1 <= N /\ n \in 1..N /\ ~(n <= n - 1)
    BY <1>1, <2>2, <2>3
  <2>5. layer[j] \subseteq layer[n - 1]
    <3>1. n - 1 \notin Bad
      <4> HIDE DEF Bad
      <4>1. QED
        BY <2>1, <2>4
    <3>2. QED
      BY <2>4, <3>1
  <2>6. QED
    BY <1>2, <2>2, <2>4, <2>5
<1>4. QED
  BY <1>3 DEF layer, N

LEMMA WaysAreShort ==
  ASSUME NEW links, IsNetwork(links), NEW a, NEW b, NEW w, IsWay(links, w, a, b)
  PROVE  Len(w) <= Cardinality(Nodes(links))
<1>1. /\ w \in Seq(Nodes(links)) /\ Len(w) \in Nat
      /\ \A i, j \in 1..Len(w) : w[i] = w[j] => i = j
  BY DEF IsWay
<1>2. w \in Injection(1..Len(w), Nodes(links))
  BY <1>1 DEF Injection, IsInjective
<1>3. IsFiniteSet(1..Len(w)) /\ Cardinality(1..Len(w)) = Len(w)
  <2>1. 1 \in Int /\ Len(w) \in Int /\ Len(w) > 0
    BY <1>1 DEF IsWay
  <2>2. QED
    BY <2>1, FS_Interval
<1>4. QED
  BY <1>2, <1>3, NodesFinite, FS_Injection

LEMMA WaysAreInLayers ==
  ASSUME NEW links, IsNetwork(links), NEW a, NEW b, NEW w, IsWay(links, w, a, b),
         NEW i \in 1..Len(w)
  PROVE  w[i] \in Layer(links, a)[i - 1]
<1> DEFINE layer == Layer(links, a)
           N == Cardinality(Nodes(links))
           Bad == {n \in 1..Len(w) : w[n] \notin layer[n - 1]}
<1>1. N \in Nat /\ Len(w) <= N
  BY NodesFinite, WaysAreShort
<1>2. /\ w \in Seq(Nodes(links)) /\ Len(w) \in Nat /\ w[1] = a
      /\ \A k \in 1..(Len(w) - 1) : Linked(links, w[k], w[k + 1])
      /\ \A k \in 2..(Len(w) - 1) : ~IsHost(w[k])
  BY DEF IsWay
<1>3. layer[0] = {a} /\ \A k \in 1..N : layer[k] = Spread(links, a, layer[k - 1])
  BY LayerUnfolds
<1> HIDE DEF layer, N
<1>4. Bad = {}
  <2> SUFFICES ASSUME Bad # {} PROVE FALSE
    OBVIOUS
  <2>0. Bad \subseteq Nat
    BY <1>2
  <2>1. PICK n \in Bad : \A m \in Bad : n <= m
    <3> HIDE DEF Bad
    <3>1. QED
      BY <2>0, Least
  <2>2. n \in 1..Len(w) /\ w[n] \notin layer[n - 1]
    BY <2>1
  <2>3. n # 1
    BY <1>2, <1>3, <2>2
  <2> DEFINE m == n - 1
  <2>4. m \in 1..(Len(w) - 1) /\ m \in 1..Len(w) /\ m \in 1..N /\ ~(n <= m) /\ n = m + 1
    BY <1>1, <1>2, <2>2, <2>3
  <2> HIDE DEF m
  <2>5. w[m] \in layer[m - 1]
    <3>1. m \notin Bad
      <4> HIDE DEF Bad
      <4>1. QED
        BY <2>1, <2>4
    <3>2. QED
      BY <2>4, <3>1
  <2>6. Linked(links, w[m], w[n]) /\ w[n] \in Nodes(links)
    BY <1>2, <2>2, <2>4
  <2>7. w[m] = a \/ ~IsHost(w[m])
    <3>1. m = 1 \/ m \in 2..(Len(w) - 1)
      BY <2>4
    <3>2. QED
      BY <1>2, <3>1
  <2>8. w[n] \in Spread(links, a, layer[m - 1])
    BY <2>5, <2>6, <2>7 DEF Spread
  <2>9. QED
    BY <1>3, <2>2, <2>4, <2>8 DEF m
<1>5. QED
  BY <1>4 DEF layer

\* A way to m that leads on to a node that is not on it.
LEMMA WayOn ==
  ASSUME NEW links, NEW a, NEW m, NEW v, IsWay(links, v, a, m), m = a \/ ~IsHost(m),
         NEW b \in Nodes(links), Linked(links, m, b), \A i \in 1..Len(v) : v[i] # b
  PROVE  \E w : IsWay(links, w, a, b) /\ Len(w) = Len(v) + 1
<1> DEFINE n == Len(v)
           w == [i \in 1..(n + 1) |-> IF i <= n THEN v[i] ELSE b]
<1>1. /\ v \in Seq(Nodes(links)) /\ n \in Nat /\ n > 0 /\ v[1] = a /\ v[n] = m
      /\ \A i \in 1..(n - 1) : Linked(links, v[i], v[i + 1])
      /\ \A i \in 2..(n - 1) : ~IsHost(v[i])
      /\ \A i, j \in 1..n : v[i] = v[j] => i = j
  BY DEF IsWay
<1>2. \A i \in 1..n : v[i] \in Nodes(links)
  BY <1>1
<1>3. w \in Seq(Nodes(links)) /\ Len(w) = n + 1
  BY <1>1, <1>2
<1>4. w[n + 1] = b /\ \A i \in 1..n : w[i] = v[i]
  BY <1>1
<1> HIDE DEF w, n
<1>5. w[1] = a /\ w[Len(w)] = b
  BY <1>1, <1>3, <1>4
<1>6. \A i \in 1..(Len(w) - 1) : Linked(links, w[i], w[i + 1])
  <2> SUFFICES ASSUME NEW i \in 1..n PROVE Linked(links, w[i], w[i + 1])
    BY <1>1, <1>3
  <2>1. CASE i = n
    BY <1>1, <1>4, <2>1
  <2>2. CASE i # n
    <3>1. i \in 1..(n - 1) /\ i + 1 \in 1..n
      BY <1>1, <2>2
    <3>2. QED
      BY <1>1, <1>4, <3>1
  <2>3. QED
    BY <2>1, <2>2
<1>7. \A i \in 2..(Len(w) - 1) : ~IsHost(w[i])
  <2> SUFFICES ASSUME NEW i \in 2..n PROVE ~IsHost(w[i])
    BY <1>1, <1>3
  <2>1. i \in 1..n /\ 1 \in 1..n /\ i # 1 /\ w[i] = v[i]
    BY <1>1, <1>4
  <2>2. CASE i = n
    <3>1. v[n] # v[1]
      BY <1>1, <2>1, <2>2
    <3>2. QED
      BY <1>1, <2>1, <2>2, <3>1
  <2>3. CASE i # n
    <3>1. i \in 2..(n - 1)
      BY <1>1, <2>3
    <3>2. QED
      BY <1>1, <2>1, <3>1
  <2>4. QED
    BY <2>2, <2>3
<1>8. \A i, j \in 1..Len(w) : w[i] = w[j] => i = j
  <2> SUFFICES ASSUME NEW i \in 1..(n + 1), NEW j \in 1..(n + 1), w[i] = w[j] PROVE i = j
    BY <1>3
  <2>1. (i \in 1..n \/ i = n + 1) /\ (j \in 1..n \/ j = n + 1)
    BY <1>1
  <2>2. \A k \in 1..n : w[k] # w[n + 1] /\ w[k] = v[k]
    BY <1>4 DEF n
  <2>3. QED
    BY <1>1, <2>1, <2>2
<1>9. IsWay(links, w, a, b)
  BY <1>1, <1>3, <1>5, <1>6, <1>7, <1>8 DEF IsWay
<1>10. QED
  BY <1>3, <1>9 DEF n

LEMMA LayersAreReached ==
  ASSUME NEW links, IsNetwork(links), NEW a \in Nodes(links), NEW k \in 0..Cardinality(Nodes(links))
  PROVE  \A b \in Layer(links, a)[k] : \E w : IsWay(links, w, a, b) /\ Len(w) <= k + 1
<1> DEFINE layer == Layer(links, a)
           N == Cardinality(Nodes(links))
           Reached(n, b) == \E w : IsWay(links, w, a, b) /\ Len(w) <= n + 1
           Bad == {n \in 0..N : \E b \in layer[n] : ~Reached(n, b)}
<1>1. N \in Nat
  BY NodesFinite
<1>2. layer[0] = {a} /\ \A n \in 1..N : layer[n] = Spread(links, a, layer[n - 1])
  BY LayerUnfolds
<1>3. \A i, n \in 0..N : i <= n => layer[i] \subseteq layer[n]
  BY <1>1, LayersGrow
<1>4. \A b, w : IsWay(links, w, a, b) => Len(w) \in 1..N /\ \A i \in 1..Len(w) : w[i] \in layer[i - 1]
  <2> SUFFICES ASSUME NEW b, NEW w, IsWay(links, w, a, b)
               PROVE  Len(w) \in 1..N /\ \A i \in 1..Len(w) : w[i] \in layer[i - 1]
    OBVIOUS
  <2>1. Len(w) \in Nat /\ Len(w) > 0 /\ Len(w) <= N
    BY WaysAreShort DEF IsWay
  <2>2. \A i \in 1..Len(w) : w[i] \in layer[i - 1]
    BY WaysAreInLayers
  <2>3. QED
    BY <1>1, <2>1, <2>2
<1> HIDE DEF layer, N
<1>5. Bad = {}
  <2> SUFFICES ASSUME Bad # {} PROVE FALSE
    OBVIOUS
  <2>0. Bad \subseteq Nat
    BY <1>1
  <2>1. PICK n \in Bad : \A m \in Bad : n <= m
    <3> HIDE DEF Bad
    <3>1. QED
      BY <2>0, Least
  <2>2. n \in 0..N
    BY <2>1
  <2>3. PICK b \in layer[n] : ~Reached(n, b)
    BY <2>1
  <2>4. CASE n = 0
    <3>1. b = a
      BY <1>2, <2>3, <2>4
    <3>2. IsWay(links, <<a>>, a, a) /\ Len(<<a>>) <= n + 1
      BY <2>4 DEF IsWay
    <3>3. QED
      BY <2>3, <3>1, <3>2
  <2>5. CASE n # 0
    <3> DEFINE d == n - 1
    <3>1. d \in 0..N /\ n \in 1..N /\ ~(n <= d) /\ n = d + 1
      BY <1>1, <2>2, <2>5
    <3> HIDE DEF d
    <3>2. \A m \in layer[d] : Reached(d, m)
      <4>1. d \notin Bad
        <5> HIDE DEF Bad
        <5>1. QED
          BY <2>1, <3>1
      <4>2. QED
        BY <3>1, <4>1
    <3>3. b \notin layer[d]
      <4> SUFFICES ASSUME b \in layer[d] PROVE FALSE
        OBVIOUS
      <4>1. PICK w : IsWay(links, w, a, b) /\ Len(w) <= d + 1
        BY <3>2
      <4>2. Len(w) \in 1..N
        BY <1>4, <4>1
      <4>3. Len(w) <= n + 1
        BY <3>1, <4>1, <4>2
      <4>4. QED
        BY <2>3, <4>1, <4>3
    <3>4. layer[n] = Spread(links, a, layer[d])
      BY <1>2, <3>1 DEF d
    <3>5. PICK m \in layer[d] : (m = a \/ ~IsHost(m)) /\ Linked(links, m, b) /\ b \in Nodes(links)
      BY <2>3, <3>3, <3>4 DEF Spread
    <3>6. PICK v : IsWay(links, v, a, m) /\ Len(v) <= d + 1
      BY <3>2, <3>5
    <3>7. Len(v) \in 1..N /\ \A i \in 1..Len(v) : v[i] \in layer[i - 1]
      BY <1>4, <3>6
    <3>8. \A i \in 1..Len(v) : v[i] # b
      <4> SUFFICES ASSUME NEW i \in 1..Len(v) PROVE v[i] # b
        OBVIOUS
      <4>1. i - 1 \in 0..N /\ i - 1 <= d
        BY <1>1, <3>1, <3>6, <3>7
      <4>2. layer[i - 1] \subseteq layer[d]
        BY <1>3, <3>1, <4>1
      <4>3. QED
        BY <3>3, <3>7, <4>2
    <3>9. PICK w : IsWay(links, w, a, b) /\ Len(w) = Len(v) + 1
      BY <3>5, <3>6, <3>8, WayOn
    <3>10. Len(w) <= n + 1
      BY <3>1, <3>6, <3>7, <3>9
    <3>11. QED
      BY <2>3, <3>9, <3>10
  <2>6. QED
    BY <2>4, <2>5
<1>6. QED
  BY <1>1, <1>5 DEF layer, N

LEMMA PathIsAsShort ==
  ASSUME NEW links, IsNetwork(links), NEW a \in Nodes(links), NEW b \in Nodes(links)
  PROVE  LET path == Path(links, a, b)
             layer == Layer(links, a)
         IN  /\ path # NoPath => IsWay(links, path, a, b)
             /\ (path = NoPath <=> b \notin layer[Cardinality(Nodes(links))])
             /\ path # NoPath /\ Len(path) > 1 => b \notin layer[Len(path) - 2]
<1> DEFINE path == Path(links, a, b)
           layer == Layer(links, a)
           N == Cardinality(Nodes(links))
<1>1. N \in Nat
  BY NodesFinite
<1>2. IsShortest(links, b, path, <<a, {}>>)
  <2>1. <<a, {}>> \in Calls(links)
    BY DEF Calls
  <2>2. QED
    BY <2>1, RecPathIsShortest DEF Path
<1>3. \A w : Shuns(w, {})
  BY DEF Shuns
<1>4. /\ path = NoPath \/ IsWay(links, path, a, b)
      /\ \A w : IsWay(links, w, a, b) => path # NoPath /\ Len(path) <= Len(w)
  BY <1>2, <1>3 DEF IsShortest
<1>5. \A k \in 0..N : b \in layer[k] => path # NoPath /\ Len(path) <= k + 1
  <2> SUFFICES ASSUME NEW k \in 0..N, b \in layer[k] PROVE path # NoPath /\ Len(path) <= k + 1
    OBVIOUS
  <2>1. PICK w : IsWay(links, w, a, b) /\ Len(w) <= k + 1
    BY LayersAreReached
  <2>2. path # NoPath /\ Len(path) <= Len(w) /\ IsWay(links, path, a, b)
    BY <1>4, <2>1
  <2>3. Len(path) \in Nat /\ Len(w) \in Nat
    BY <2>1, <2>2 DEF IsWay
  <2>4. QED
    BY <2>1, <2>2, <2>3
<1>6. ASSUME path # NoPath PROVE Len(path) \in 1..N /\ b \in layer[N]
  <2>1. IsWay(links, path, a, b)
    BY <1>4, <1>6
  <2>2. Len(path) \in Nat /\ Len(path) > 0 /\ path[Len(path)] = b /\ Len(path) <= N
    BY <2>1, WaysAreShort DEF IsWay
  <2>3. Len(path) \in 1..Len(path) /\ Len(path) - 1 \in Nat /\ Len(path) - 1 <= N
    BY <1>1, <2>2
  <2>4. b \in layer[Len(path) - 1]
    BY <2>1, <2>2, <2>3, WaysAreInLayers
  <2>5. layer[Len(path) - 1] \subseteq layer[N]
    BY <1>1, <2>3, LayersGrow
  <2>6. QED
    BY <1>1, <2>2, <2>4, <2>5
<1> HIDE DEF layer, N, path
<1>7. ASSUME path # NoPath, Len(path) > 1 PROVE b \notin layer[Len(path) - 2]
  <2>1. Len(path) \in 1..N
    BY <1>6, <1>7
  <2>2. Len(path) - 2 \in 0..N /\ ~(Len(path) <= (Len(path) - 2) + 1)
    BY <1>1, <1>7, <2>1
  <2>3. QED
    BY <1>5, <2>2
<1>8. N \in 0..N
  BY <1>1
<1>9. QED
  BY <1>4, <1>5, <1>6, <1>7, <1>8 DEF path, layer, N

-----------------------------------------------------------------------------
(***************************************************************************)
(* What a host is told: it has a link, and one for each of its neighbors.  *)
(***************************************************************************)
LinkTo(links, h, s, i) ==
  [idx |-> i - 1, sw |-> s, host_ip |-> <<s[2], h[2]>>, host_mac |-> <<s[2], h[2]>>,
   sw_ip |-> <<s[2], 254>>, sw_mac |-> <<s[2], h[2]>>, sw_port |-> PortTo(links, s, h)]

LEMMA HostLinksList ==
  ASSUME NEW links, IsNetwork(links), NEW h \in Nodes(links)
  PROVE  LET mine == HostLinks(links, h)
             n == Len(mine)
         IN  /\ n \in Nat /\ n > 0 /\ DOMAIN mine = 1..n /\ n = Len(LinksOf(links, h))
             /\ ToSet(mine) = {mine[i] : i \in 1..n} /\ Last(mine) = mine[n]
             /\ \A i \in 1..n : mine[i] = LinkTo(links, h, Other(LinksOf(links, h)[i], h), i)
             /\ \A s : Linked(links, h, s) => \E i \in 1..n : mine[i] = LinkTo(links, h, s, i)
<1> DEFINE I == Joined(links, h)
           joined == LinksOf(links, h)
           N == Cardinality(I)
           mine == HostLinks(links, h)
<1>1. links \in Seq(Node \X Node) /\ I \subseteq DOMAIN links
  BY DEF IsNetwork, Joined
<1>2. /\ IsFiniteSet(I) /\ N \in Nat /\ joined \in Seq(Node \X Node) /\ Len(joined) = N
      /\ \A i \in I : Preceding(I, i) \in 0..(N - 1) /\ joined[Preceding(I, i) + 1] = links[i]
  BY <1>1, KeptLists DEF LinksOf
<1>3. N > 0
  <2>1. PICK link \in ToSet(links) : h \in Ends(link)
    BY DEF Nodes
  <2>2. PICK i \in DOMAIN links : links[i] = link
    BY DEF ToSet
  <2>3. i \in I
    BY <2>1, <2>2 DEF Joined
  <2>4. QED
    BY <1>2, <2>3
<1>4. DOMAIN joined = 1..N
  BY <1>2
<1> HIDE DEF joined, N, I
<1>5. mine = [i \in 1..N |-> LinkTo(links, h, Other(joined[i], h), i)]
  BY <1>4 DEF joined, HostLinks, LinkTo
<1> HIDE DEF mine
<1>6. /\ Len(mine) = N /\ DOMAIN mine = 1..N
      /\ \A i \in 1..N : mine[i] = LinkTo(links, h, Other(joined[i], h), i)
  <2> DEFINE those == {LinkTo(links, h, Other(joined[i], h), i) : i \in 1..N}
  <2>1. mine \in [1..N -> those]
    BY <1>5
  <2> HIDE DEF those
  <2>2. mine \in Seq(those)
    BY <1>2, <2>1
  <2>3. QED
    BY <1>2, <1>5, <2>2
<1>7. ASSUME NEW s, Linked(links, h, s) PROVE \E i \in 1..N : mine[i] = LinkTo(links, h, s, i)
  <2>1. PICK i \in DOMAIN links : Ends(links[i]) = {h, s}
    BY <1>7, LinkedAtPlaces
  <2>2. i \in I
    BY <2>1 DEF Joined, I
  <2>3. Other(links[i], h) = s
    <3>1. Ends(links[i]) = {h, Other(links[i], h)} /\ Other(links[i], h) # h
      BY <2>2, OtherEnd DEF I
    <3>2. QED
      BY <2>1, <3>1
  <2> DEFINE k == Preceding(I, i) + 1
  <2>4. k \in 1..N /\ joined[k] = links[i]
    BY <1>2, <2>2
  <2> HIDE DEF k
  <2>5. QED
    BY <1>6, <2>3, <2>4
<1>8. ToSet(mine) = {mine[i] : i \in 1..N} /\ Last(mine) = mine[N]
  BY <1>6 DEF ToSet, Last
<1>9. QED
  BY <1>2, <1>3, <1>6, <1>7, <1>8 DEF mine, joined

\* A route, by a gateway in the ARP table, to an address of g, and on the way to g.
LeadsOn(links, h, g, r, e, ip) ==
  /\ r[1] = ip /\ r[2] = e[2]
  /\ g \in Layer(links, Other(LinksOf(links, h)[e[1] + 1], h))[Len(Path(links, h, g)) - 2]

\* A path goes on from its second node as it began.
LEMMA PathGoesOn ==
  ASSUME NEW links, IsNetwork(links), NEW h \in Nodes(links), NEW g \in Nodes(links),
         h # g, Path(links, h, g) # NoPath
  PROVE  /\ Linked(links, h, Path(links, h, g)[2])
         /\ g \in Layer(links, Path(links, h, g)[2])[Len(Path(links, h, g)) - 2]
<1> DEFINE path == Path(links, h, g)
           s == path[2]
<1>1. IsWay(links, path, h, g)
  BY PathIsAsShort
<1>2. Shuns(path, {})
  BY DEF Shuns
<1> HIDE DEF path
<1>3. /\ path \in Seq(Nodes(links)) /\ Len(path) \in Nat /\ Len(path) > 1
      /\ path[1] = h /\ Linked(links, path[1], path[1 + 1])
  <2>1. /\ path \in Seq(Nodes(links)) /\ Len(path) \in Nat /\ Len(path) > 0
        /\ path[1] = h /\ path[Len(path)] = g
        /\ \A i \in 1..(Len(path) - 1) : Linked(links, path[i], path[i + 1])
    BY <1>1 DEF IsWay
  <2>2. Len(path) > 1 /\ 1 \in 1..(Len(path) - 1)
    BY <2>1
  <2>3. QED
    BY <2>1, <2>2
<1>4. Linked(links, h, s)
  BY <1>3
<1>5. PICK v : IsWay(links, v, s, g) /\ Len(v) = Len(path) - 1
  <2>1. PICK i \in Joined(links, h) :
          RestIsBehind(links, path, h, g, {}, Other(links[i], h))
    BY <1>1, <1>2, RestOfWay
  <2>2. QED
    BY <2>1 DEF RestIsBehind
<1>6. g \in Layer(links, s)[Len(v) - 1]
  <2>1. Len(v) \in 1..Len(v) /\ v[Len(v)] = g
    BY <1>5 DEF IsWay
  <2>2. QED
    BY <1>5, <2>1, WaysAreInLayers
<1>7. Len(v) - 1 = Len(path) - 2
  BY <1>3, <1>5
<1>8. QED
  BY <1>4, <1>6, <1>7 DEF path

\* A host's gateways, and the addresses it has routes to.
LEMMA GatewaysAreKnown ==
  ASSUME NEW links, IsNetwork(links), NEW h \in Nodes(links), IsHost(h)
  PROVE  LET config == HostConfig(links, h) IN
         /\ {config.default} \cup {r[2] : r \in Routes(links, h)} \subseteq {e[2] : e \in config.arp}
         /\ config.default[1] = config.ip[1]
         /\ \A g \in ToSet(HostNames(links)) \ {h} :
              Len(LinksOf(links, g)) = 1 /\ Path(links, h, g) # NoPath =>
                \E r \in Routes(links, h), e \in config.arp :
                  LeadsOn(links, h, g, r, e, HostConfig(links, g).ip)
<1> DEFINE mine == HostLinks(links, h)
           n == Len(mine)
           config == HostConfig(links, h)
<1>1. /\ n \in Nat /\ n > 0
      /\ ToSet(mine) = {mine[i] : i \in 1..n} /\ Last(mine) = mine[n]
      /\ \A i \in 1..n : mine[i] = LinkTo(links, h, Other(LinksOf(links, h)[i], h), i)
      /\ \A s : Linked(links, h, s) => \E i \in 1..n : mine[i] = LinkTo(links, h, s, i)
  BY HostLinksList
<1>2. ToSet(HostNames(links)) = {g \in Nodes(links) : IsHost(g)}
  BY NetworkFacts, SortedLists DEF HostNames, Hosts
<1>3. /\ config.ip = Last(mine).host_ip /\ config.default = Last(mine).sw_ip
      /\ config.arp = {<<link.idx, link.sw_ip, link.sw_mac>> : link \in ToSet(mine)}
  BY DEF HostConfig
<1> HIDE DEF mine, n, config
<1>4. n \in 1..n
  BY <1>1
<1> DEFINE entry(link) == <<link.idx, link.sw_ip, link.sw_mac>>
<1>5. \A link \in ToSet(mine) :
        entry(link) \in config.arp /\ entry(link)[1] = link.idx /\ entry(link)[2] = link.sw_ip
  BY <1>3
<1> HIDE DEF entry
<1>6. config.default \in {e[2] : e \in config.arp}
  BY <1>1, <1>3, <1>4, <1>5
\* The gateway on the path to g is behind the interface to its first switch.
<1>7. ASSUME NEW g \in ToSet(HostNames(links)) \ {h}, Path(links, h, g) # NoPath
      PROVE  \E e \in config.arp :
               /\ e[2] = Gateway(links, h, Path(links, h, g)[2])
               /\ Other(LinksOf(links, h)[e[1] + 1], h) = Path(links, h, g)[2]
  <2> DEFINE s == Path(links, h, g)[2]
             link == CHOOSE link \in ToSet(mine) : link.sw = s
  <2>1. Linked(links, h, s)
    BY <1>2, <1>7, PathGoesOn
  <2> HIDE DEF s
  <2>2. PICK i \in 1..n : mine[i] = LinkTo(links, h, s, i)
    BY <1>1, <2>1
  <2>3. mine[i] \in ToSet(mine) /\ mine[i].sw = s
    BY <1>1, <2>2 DEF LinkTo
  <2>4. link \in ToSet(mine) /\ link.sw = s
    BY <2>3
  <2>5. Gateway(links, h, s) = link.sw_ip
    BY DEF Gateway, mine
  <2> HIDE DEF link
  <2>6. PICK j \in 1..n : link = mine[j]
    BY <1>1, <2>4
  <2> DEFINE t == Other(LinksOf(links, h)[j], h)
  <2>7. link.idx = j - 1 /\ link.sw = t
    <3>1. link = LinkTo(links, h, t, j)
      BY <1>1, <2>6
    <3> HIDE DEF t
    <3>2. QED
      BY <3>1 DEF LinkTo
  <2>8. link.idx + 1 = j
    BY <1>1, <2>7
  <2>9. /\ entry(link) \in config.arp /\ entry(link)[2] = Gateway(links, h, s)
        /\ Other(LinksOf(links, h)[entry(link)[1] + 1], h) = s
    BY <1>5, <2>4, <2>5, <2>7, <2>8
  <2>10. QED
    BY <2>9 DEF s
<1>8. ASSUME NEW r \in Routes(links, h) PROVE r[2] \in {e[2] : e \in config.arp}
  <2>1. PICK g \in ToSet(HostNames(links)) \ {h} :
          /\ Path(links, h, g) # NoPath
          /\ r = <<HostLinks(links, g)[1].host_ip, Gateway(links, h, Path(links, h, g)[2])>>
    BY DEF Routes
  <2>2. PICK e \in config.arp : e[2] = Gateway(links, h, Path(links, h, g)[2])
    BY <1>7, <2>1
  <2>3. r[2] = e[2]
    BY <2>1, <2>2
  <2>4. QED
    BY <2>3
<1>9. config.default[1] = config.ip[1]
  <2> DEFINE s == Other(LinksOf(links, h)[n], h)
  <2>1. mine[n] = LinkTo(links, h, s, n)
    BY <1>1, <1>4
  <2>2. config.default = <<s[2], 254>> /\ config.ip = <<s[2], h[2]>>
    BY <1>1, <1>3, <2>1 DEF LinkTo
  <2>3. QED
    BY <2>2
<1>10. ASSUME NEW g \in ToSet(HostNames(links)) \ {h},
              Len(LinksOf(links, g)) = 1, Path(links, h, g) # NoPath
       PROVE  \E r \in Routes(links, h), e \in config.arp :
                LeadsOn(links, h, g, r, e, HostConfig(links, g).ip)
  <2>1. g \in Nodes(links) /\ g # h
    BY <1>2
  <2>2. Last(HostLinks(links, g)) = HostLinks(links, g)[1]
    BY <1>10, <2>1, HostLinksList
  <2>3. HostConfig(links, g).ip = HostLinks(links, g)[1].host_ip
    BY <2>2 DEF HostConfig
  <2> DEFINE r == <<HostLinks(links, g)[1].host_ip, Gateway(links, h, Path(links, h, g)[2])>>
  <2>4. r \in Routes(links, h)
    BY <1>10 DEF Routes
  <2>5. r[1] = HostConfig(links, g).ip /\ r[2] = Gateway(links, h, Path(links, h, g)[2])
    BY <2>3
  <2> HIDE DEF r
  <2>6. PICK e \in config.arp :
          /\ e[2] = Gateway(links, h, Path(links, h, g)[2])
          /\ Other(LinksOf(links, h)[e[1] + 1], h) = Path(links, h, g)[2]
    BY <1>7, <1>10
  <2>7. g \in Layer(links, Path(links, h, g)[2])[Len(Path(links, h, g)) - 2]
    BY <1>10, <2>1, PathGoesOn
  <2>8. LeadsOn(links, h, g, r, e, HostConfig(links, g).ip)
    BY <2>5, <2>6, <2>7 DEF LeadsOn
  <2>9. QED
    BY <2>4, <2>8
<1>11. QED
  BY <1>6, <1>8, <1>9, <1>10 DEF config
=============================================================================
