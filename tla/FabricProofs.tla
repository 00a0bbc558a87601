----------------------------- MODULE FabricProofs ------------------------------
(***************************************************************************)
(* Proofs about Fabric, for every number of leaves, every set of hosts,    *)
(* every payload and every order of events: the types, and that the        *)
(* telemetry header is transparent.                                        *)
(***************************************************************************)
EXTENDS Fabric, Integers, SequenceTheorems, TLAPS

-----------------------------------------------------------------------------
(***************************************************************************)
(* What one switch does to the telemetry header, for every packet: the     *)
(* facts about Stack, Unparsed, PushFront, ClearRecords and Emit that the  *)
(* rest stands on.                                                         *)
(***************************************************************************)
\* What set_metrics writes is a cell.
LEMMA MetricIsCell == ASSUME NEW s \in Nat PROVE Metric(s) \in Cell
  BY DEF Metric, Cell

\* The parser takes the least of records + 1, the stack's size and what is there.
LEMMA ExtractedBounds ==
  ASSUME NEW n \in Nat, NEW body \in Seq(Cell)
  PROVE  /\ Extracted(n, body) \in 0..Len(body)
         /\ Extracted(n, body) <= n + 1
         /\ Extracted(n, body) <= MaxRec
         /\ n = 0 => Extracted(n, body) = 0
         /\ n # 0 /\ n < MaxRec /\ n < Len(body) => Extracted(n, body) = n + 1
<1> DEFINE T == {n + 1, MaxRec, Len(body)}
<1>1. Len(body) \in Nat /\ MaxRec \in Nat
  BY LenProperties, MaxRecAssumption
<1>2. CASE n = 0
  BY <1>1, <1>2 DEF Extracted
<1>3. CASE n # 0
  <2>1. \E k \in T : \A j \in T : k <= j
    BY <1>1
  <2>2. PICK k : k = Extracted(n, body) /\ k \in T /\ \A j \in T : k <= j
    BY <1>3, <2>1 DEF Extracted
  <2>3. QED
    BY <1>1, <1>3, <2>2
<1>4. QED
  BY <1>2, <1>3

\* Parsing loses nothing: the stack and the rest are the packet's cells.
LEMMA ParseSplits ==
  ASSUME NEW n \in Nat, NEW body \in Seq(Cell)
  PROVE  /\ Stack(n, body) \in Seq(Cell)
         /\ Unparsed(n, body) \in Seq(Cell)
         /\ Len(Stack(n, body)) = Extracted(n, body)
         /\ Emit(Stack(n, body), Unparsed(n, body)) = body
<1> DEFINE k == Extracted(n, body)
<1>1. k \in 0..Len(body) /\ Len(body) \in Nat
  BY ExtractedBounds, LenProperties
<1>2. \A i \in 1..Len(body) : body[i] \in Cell
  BY ElementOfSeq
<1>3. Stack(n, body) \in Seq(Cell) /\ Len(Stack(n, body)) = k
  <2>1. \A i \in 1..k : body[i] \in Cell
    BY <1>1, <1>2
  <2>2. SubSeq(body, 1, k) \in Seq(Cell) /\ Len(SubSeq(body, 1, k)) = IF 1 <= k THEN k - 1 + 1 ELSE 0
    BY <1>1, <2>1, SubSeqProperties
  <2>3. QED
    BY <1>1, <2>2 DEF Stack
<1>4. Unparsed(n, body) \in Seq(Cell)
  <2>1. \A i \in k + 1 .. Len(body) : body[i] \in Cell
    BY <1>1, <1>2
  <2>2. k + 1 \in Int /\ Len(body) \in Int
    BY <1>1
  <2>3. QED
    BY <2>1, <2>2, SubSeqProperties DEF Unparsed
<1>5. Emit(Stack(n, body), Unparsed(n, body)) = body
  <2>1. 1 \in 1..Len(body) + 1 /\ k \in 1 - 1 .. Len(body) /\ Len(body) \in k .. Len(body)
    BY <1>1
  <2>2. SubSeq(body, 1, k) \o SubSeq(body, k + 1, Len(body)) = SubSeq(body, 1, Len(body))
    BY <2>1, ConcatAdjacentSubSeq
  <2>3. QED
    BY <2>2, SubSeqFull DEF Emit, Stack, Unparsed
<1>6. QED
  BY <1>3, <1>4, <1>5

(***************************************************************************)
(* A hop that is no sink puts its metrics in front of the packet and       *)
(* changes no other byte, as long as the packet has at most MaxRec - 2     *)
(* records: with more the stack may be full and push_front loses a cell.   *)
(***************************************************************************)
LEMMA HopPrepends ==
  ASSUME NEW n \in Nat, n + 1 < MaxRec, NEW body \in Seq(Cell), NEW m \in Cell
  PROVE  Emit(PushFront(m, Stack(n, body)), Unparsed(n, body)) = <<m>> \o body
<1>1. Len(Stack(n, body)) < MaxRec
  <2>1. Extracted(n, body) \in 0..Len(body) /\ Extracted(n, body) <= n + 1
    BY ExtractedBounds
  <2>2. Len(body) \in Nat
    BY LenProperties
  <2>3. Len(Stack(n, body)) = Extracted(n, body)
    BY ParseSplits
  <2>4. QED
    BY <2>1, <2>2, <2>3, MaxRecAssumption
<1>2. PushFront(m, Stack(n, body)) = <<m>> \o Stack(n, body)
  BY <1>1 DEF PushFront
<1>3. <<m>> \in Seq(Cell)
  OBVIOUS
<1>4. (<<m>> \o Stack(n, body)) \o Unparsed(n, body) = <<m>> \o (Stack(n, body) \o Unparsed(n, body))
  BY <1>3, ParseSplits, ConcatAssociative
<1>5. QED
  BY <1>2, <1>4, ParseSplits DEF Emit

\* Of a packet without records nothing is extracted.
LEMMA NothingExtracted ==
  ASSUME NEW body \in Seq(Cell)
  PROVE  Stack(0, body) = <<>> /\ Unparsed(0, body) = body
<1>1. Extracted(0, body) = 0 /\ Len(body) \in Nat
  BY ExtractedBounds, LenProperties
<1>2. SubSeq(body, 1, 0) = <<>>
  BY SubSeqEmpty
<1>3. QED
  BY <1>1, <1>2, SubSeqFull DEF Stack, Unparsed

(***************************************************************************)
(* A sink that starts the recording itself clears the one cell it wrote.   *)
(***************************************************************************)
LEMMA SinkOfOwnRecord ==
  ASSUME NEW body \in Seq(Cell), NEW m \in Cell
  PROVE  Emit(ClearRecords(PushFront(m, Stack(0, body))), Unparsed(0, body)) = body
<1>1. Stack(0, body) = <<>> /\ Unparsed(0, body) = body
  BY NothingExtracted
<1>2. PushFront(m, <<>>) = <<m>>
  <2>1. Len(<<>>) < MaxRec
    BY MaxRecAssumption, EmptySeq
  <2>2. <<m>> \o <<>> = <<m>>
    BY ConcatEmptySeq
  <2>3. QED
    BY <2>1, <2>2 DEF PushFront
<1>3. ClearRecords(<<m>>) = <<>>
  BY SubSeqEmpty DEF ClearRecords
<1>4. <<>> \o body = body
  BY ConcatEmptySeq
<1>5. QED
  BY <1>1, <1>2, <1>3, <1>4 DEF Emit

\* The fourth cell of a sequence with one cell in front is the third without it.
LEMMA ThirdCell ==
  ASSUME NEW own \in Seq(Cell), Len(own) = 1, NEW st \in Seq(Cell), Len(st) = 3
  PROVE  ClearRecords(own \o st) = SubSeq(st, 3, 3)
<1>1. Len(own \o st) = 4
  <2>1. Len(own \o st) = Len(own) + Len(st)
    BY ConcatProperties
  <2>2. Len(own) + Len(st) = 1 + 3
    OBVIOUS
  <2>3. QED
    BY <2>1, <2>2
<1>2. 4 \in Len(own) + 1 .. Len(own) + Len(st)
  OBVIOUS
<1>3. SubSeq(own \o st, 4, 4) = SubSeq(st, 4 - Len(own), 4 - Len(own))
  BY <1>2, SubSeqOfConcat2
<1>4. QED
  BY <1>1, <1>3 DEF ClearRecords

(***************************************************************************)
(* A sink that finds two records clears its own cell and these two; the    *)
(* cell the parser took by mistake stays where it was.                     *)
(***************************************************************************)
LEMMA SinkDropsTwo ==
  ASSUME NEW m \in Cell, NEW body \in Seq(Cell), Len(body) >= 3
  PROVE  Emit(ClearRecords(PushFront(m, Stack(2, body))), Unparsed(2, body))
           = SubSeq(body, 3, Len(body))
<1>1. Len(body) \in Nat
  BY LenProperties
<1>2. Extracted(2, body) = 3
  <2>1. 2 < MaxRec /\ 2 < Len(body)
    BY <1>1, MaxRecAssumption
  <2>2. Extracted(2, body) = 2 + 1
    BY <2>1, ExtractedBounds
  <2>3. QED
    BY <2>2
<1>3. PICK st \in Seq(Cell) : st = Stack(2, body) /\ Len(st) = 3
  BY <1>2, ParseSplits
<1>4. st = SubSeq(body, 1, 3) /\ Unparsed(2, body) = SubSeq(body, 4, Len(body))
  BY <1>2, <1>3 DEF Stack, Unparsed
<1>5. ClearRecords(PushFront(m, st)) = SubSeq(st, 3, 3)
  <2>1. Len(st) < MaxRec
    <3>1. 3 < MaxRec
      BY MaxRecAssumption
    <3>2. QED
      BY <1>3, <3>1
  <2>2. PushFront(m, st) = <<m>> \o st
    BY <2>1 DEF PushFront
  <2>3. <<m>> \in Seq(Cell) /\ Len(<<m>>) = 1
    OBVIOUS
  <2>4. ClearRecords(<<m>> \o st) = SubSeq(st, 3, 3)
    BY <1>3, <2>3, ThirdCell
  <2>5. QED
    BY <2>2, <2>4
<1>6. SubSeq(st, 3, 3) = SubSeq(body, 3, 3)
  <2>1. 1 \in 1..Len(body) /\ 3 \in 1..Len(body) /\ 3 \in 1..3 - 1 + 1
    BY <1>1
  <2>2. SubSeq(SubSeq(body, 1, 3), 3, 3) = SubSeq(body, 1 + 3 - 1, 1 + 3 - 1)
    BY <2>1, SubSeqOfSubSeq, <1>3, <1>4
  <2>3. QED
    BY <1>4, <2>2
<1>7. SubSeq(body, 3, 3) \o SubSeq(body, 4, Len(body)) = SubSeq(body, 3, Len(body))
  <2>1. 3 \in 1..Len(body) + 1 /\ 3 \in 3 - 1..Len(body) /\ Len(body) \in 3..Len(body)
    BY <1>1
  <2>2. SubSeq(body, 3, 3) \o SubSeq(body, 3 + 1, Len(body)) = SubSeq(body, 3, Len(body))
    BY <2>1, ConcatAdjacentSubSeq
  <2>3. QED
    BY <2>2
<1>8. QED
  BY <1>3, <1>4, <1>5, <1>6, <1>7 DEF Emit

\* Two sequences joined and cut where they meet.
LEMMA CutAfter ==
  ASSUME NEW front \in Seq(Cell), NEW payload \in Seq(Cell), payload # <<>>
  PROVE  /\ SubSeq(front \o payload, Len(front) + 1, Len(front \o payload)) = payload
         /\ front # <<>> => SubSeq(front \o payload, 1, Len(front)) = front
         /\ Len(front \o payload) = Len(front) + Len(payload)
         /\ Len(front) \in Nat /\ Len(payload) \in Nat \ {0}
<1>1. Len(front) \in Nat /\ Len(payload) \in Nat \ {0} /\ (front # <<>> => Len(front) # 0)
  BY LenProperties, EmptySeq
<1>2. Len(front \o payload) = Len(front) + Len(payload)
  BY ConcatProperties
<1>3. SubSeq(front \o payload, Len(front) + 1, Len(front \o payload)) = payload
  <2>1. PICK a \in Nat, b \in Nat :
          a = Len(front) + 1 /\ b = Len(front) + Len(payload)
    BY <1>1
  <2>2. a \in Len(front) + 1 .. Len(front) + Len(payload) /\ b \in Len(front) + 1 .. Len(front) + Len(payload)
    BY <1>1, <2>1
  <2>3. SubSeq(front \o payload, a, b) = SubSeq(payload, a - Len(front), b - Len(front))
    BY <2>2, SubSeqOfConcat2
  <2>4. a - Len(front) = 1 /\ b - Len(front) = Len(payload)
    BY <1>1, <2>1
  <2>5. QED
    BY <1>2, <2>1, <2>3, <2>4, SubSeqFull
<1>4. ASSUME front # <<>> PROVE SubSeq(front \o payload, 1, Len(front)) = front
  <2>1. 1 \in 1..Len(front) /\ Len(front) \in 1..Len(front)
    BY <1>1, <1>4
  <2>2. SubSeq(front \o payload, 1, Len(front)) = SubSeq(front, 1, Len(front))
    BY <2>1, SubSeqOfConcat1
  <2>3. QED
    BY <2>2, SubSeqFull
<1>5. QED
  BY <1>1, <1>2, <1>3, <1>4

(***************************************************************************)
(* Two hops after the start a sink gives back the host's packet, whatever  *)
(* that is, and a clone there gives the controller all three records.      *)
(***************************************************************************)
LEMMA SinkAfterTwoHops ==
  ASSUME NEW m \in Cell, NEW records \in Seq(Cell), Len(records) = 2,
         NEW payload \in Seq(Cell), payload # <<>>
  PROVE  Emit(ClearRecords(PushFront(m, Stack(2, records \o payload))),
              Unparsed(2, records \o payload)) = payload
<1>1. PICK body \in Seq(Cell) : body = records \o payload
  BY ConcatProperties
<1>2. SubSeq(body, 3, Len(body)) = payload /\ Len(body) >= 3
  <2>1. SubSeq(body, Len(records) + 1, Len(body)) = payload
    BY <1>1, CutAfter
  <2>2. Len(body) = Len(records) + Len(payload) /\ Len(payload) \in Nat \ {0}
    BY <1>1, CutAfter
  <2>3. QED
    BY <2>1, <2>2
<1>3. QED
  BY <1>1, <1>2, SinkDropsTwo

\* The controller reads back the records in front of a packet.
LEMMA ReadBack ==
  ASSUME NEW records \in Seq(Cell), records # <<>>, NEW payload \in Seq(Cell), payload # <<>>
  PROVE  ReadRecords(Len(records), records \o payload) = records
<1>1. /\ Len(records \o payload) = Len(records) + Len(payload)
      /\ Len(records) \in Nat /\ Len(payload) \in Nat \ {0}
  BY CutAfter
<1>2. SubSeq(records \o payload, 1, Len(records)) = records
  BY CutAfter
<1>3. Len(records) <= Len(records \o payload)
  BY <1>1
<1>4. QED
  BY <1>2, <1>3 DEF ReadRecords

\* The operations keep sequences of cells.
LEMMA HeaderTypes ==
  ASSUME NEW n \in Nat, NEW stack \in Seq(Cell), NEW rest \in Seq(Cell), NEW m \in Cell
  PROVE  /\ PushFront(m, stack) \in Seq(Cell)
         /\ ClearRecords(stack) \in Seq(Cell)
         /\ Emit(stack, rest) \in Seq(Cell)
         /\ ReadRecords(n, rest) \in Seq(Cell)
         /\ Byte(n) \in 0..255
<1>1. /\ Len(stack) \in Nat /\ (\A i \in 1..Len(stack) : stack[i] \in Cell)
      /\ Len(rest) \in Nat /\ (\A i \in 1..Len(rest) : rest[i] \in Cell)
  BY LenProperties, ElementOfSeq
<1>2. PushFront(m, stack) \in Seq(Cell)
  <2>1. ASSUME ~(Len(stack) < MaxRec) PROVE SubSeq(stack, 1, MaxRec - 1) \in Seq(Cell)
    <3>1. \A i \in 1..MaxRec - 1 : stack[i] \in Cell
      BY <1>1, <2>1, MaxRecAssumption
    <3>2. MaxRec - 1 \in Int
      BY MaxRecAssumption
    <3>3. QED
      BY <3>1, <3>2, SubSeqProperties
  <2>2. <<m>> \in Seq(Cell)
    OBVIOUS
  <2>3. QED
    BY <2>1, <2>2, ConcatProperties DEF PushFront
<1>3. ClearRecords(stack) \in Seq(Cell)
  <2>1. \A i \in 4..Len(stack) : stack[i] \in Cell
    BY <1>1
  <2>2. Len(stack) \in Int
    BY <1>1
  <2>3. QED
    BY <2>1, <2>2, SubSeqProperties DEF ClearRecords
<1>4. Emit(stack, rest) \in Seq(Cell)
  BY ConcatProperties DEF Emit
<1>5. ReadRecords(n, rest) \in Seq(Cell)
  <2>1. PICK k \in Nat : k = (IF n <= Len(rest) THEN n ELSE Len(rest)) /\ k <= Len(rest)
    BY <1>1
  <2>2. \A i \in 1..k : rest[i] \in Cell
    BY <1>1, <2>1
  <2>3. SubSeq(rest, 1, k) \in Seq(Cell)
    BY <2>2, SubSeqProperties
  <2>4. QED
    BY <2>1, <2>3 DEF ReadRecords
<1>6. Byte(n) \in 0..255
  BY DEF Byte
<1>7. QED
  BY <1>2, <1>3, <1>4, <1>5, <1>6

\* Records put in front one by one are one sequence of records.
LEMMA FrontAssociates ==
  ASSUME NEW m \in Cell, NEW g \in Seq(Cell), NEW o \in Seq(Cell)
  PROVE  <<m>> \o (g \o o) = (<<m>> \o g) \o o
<1>1. PICK f \in Seq(Cell) : f = <<m>>
  <2>1. <<m>> \in Seq(Cell)
    OBVIOUS
  <2>2. QED
    BY <2>1
<1>2. f \o (g \o o) = (f \o g) \o o
  BY ConcatAssociative
<1>3. QED
  BY <1>1, <1>2

\* The paths a packet can have gathered.
LEMMA PathCells ==
  ASSUME NEW m \in Cell, NEW a \in Cell, NEW b \in Cell
  PROVE  /\ <<m>> \o <<>> = <<m>> /\ Len(<<m>>) = 1 /\ <<m>> \in Seq(Cell)
         /\ <<m>> \o <<b>> = <<m, b>> /\ Len(<<m, b>>) = 2 /\ <<m, b>> \in Seq(Cell)
         /\ <<m>> \o <<a, b>> = <<m, a, b>> /\ <<m, a, b>> \in Seq(Cell)
         /\ <<m, a, b>> # <<>> /\ Len(<<m, a, b>>) = 3
<1>1. <<m>> \o <<>> = <<m>> /\ Len(<<m>>) = 1 /\ <<m>> \in Seq(Cell)
  OBVIOUS
<1>2. <<m, b>> \in Seq(Cell) /\ Len(<<m, b>>) = 2
  OBVIOUS
<1>3. <<a, b>> \in Seq(Cell) /\ Len(<<a, b>>) = 2
  OBVIOUS
<1>4. <<m, a, b>> \in Seq(Cell) /\ Len(<<m, a, b>>) = 3
  OBVIOUS
<1>5. <<b>> \in Seq(Cell) /\ Len(<<b>>) = 1
  OBVIOUS
<1>6. PICK f \in Seq(Cell) : f = <<m>> /\ Len(f) = 1 /\ f[1] = m
  BY <1>1
<1>7. PICK g \in Seq(Cell) : g = <<a, b>> /\ Len(g) = 2 /\ g[1] = a /\ g[2] = b
  BY <1>3
<1>8. PICK r \in Seq(Cell) : r = <<m, a, b>> /\ Len(r) = 3 /\ r[1] = m /\ r[2] = a /\ r[3] = b
  BY <1>4
<1>9. PICK h \in Seq(Cell) : h = <<b>> /\ Len(h) = 1 /\ h[1] = b
  BY <1>5
<1>10. PICK q \in Seq(Cell) : q = <<m, b>> /\ Len(q) = 2 /\ q[1] = m /\ q[2] = b
  BY <1>2
<1>11. f \o g = r
  <2>1. /\ f \o g \in Seq(Cell) /\ Len(f \o g) = Len(f) + Len(g)
        /\ \A i \in 1..Len(f) + Len(g) :
             (f \o g)[i] = IF i <= Len(f) THEN f[i] ELSE g[i - Len(f)]
    BY ConcatProperties
  <2>2. Len(f \o g) = Len(r) /\ \A i \in 1..Len(f \o g) : (f \o g)[i] = r[i]
    BY <1>6, <1>7, <1>8, <2>1
  <2>3. QED
    BY <2>1, <2>2, SeqEqual
<1>12. f \o h = q
  <2>1. /\ f \o h \in Seq(Cell) /\ Len(f \o h) = Len(f) + Len(h)
        /\ \A i \in 1..Len(f) + Len(h) :
             (f \o h)[i] = IF i <= Len(f) THEN f[i] ELSE h[i - Len(f)]
    BY ConcatProperties
  <2>2. Len(f \o h) = Len(q) /\ \A i \in 1..Len(f \o h) : (f \o h)[i] = q[i]
    BY <1>6, <1>9, <1>10, <2>1
  <2>3. QED
    BY <2>1, <2>2, SeqEqual
<1>13. <<m, a, b>> # <<>>
  BY <1>4, EmptySeq
<1>14. QED
  BY <1>1, <1>2, <1>4, <1>6, <1>7, <1>8, <1>9, <1>10, <1>11, <1>12, <1>13

-----------------------------------------------------------------------------
(***************************************************************************)
(* Types.  A header stack never outgrows data[].                           *)
(***************************************************************************)

\* Ids and addresses of the topology are what the arithmetic on ports expects.
LEMMA Topology ==
  /\ \A h \in Host : h[1] \in Leaves /\ h[2] \in {1, 2} /\ h = <<h[1], h[2]>>
  /\ \A s \in Leaves : s \in Nat /\ s # Spine /\ s # CpuPort
  /\ \A s \in Switch : s \in Nat
<1>1. \A h \in Host : h \in Leaves \X {1, 2}
  BY TopologyAssumption
<1>2. \A s \in Leaves : s \in 1..254
  BY TopologyAssumption DEF CpuPort
<1>3. QED
  BY <1>1, <1>2 DEF Switch, Spine, CpuPort

\* An address names two numbers.
LEMMA AddressPorts ==
  /\ \A a \in Address : a[1] \in Nat /\ a[2] \in Nat
  /\ \A a \in Source : a[1] \in Switch /\ a[2] \in Nat
  /\ \A s \in Switch, a \in Address : FlowPort(s, a) \in Nat
  /\ \A s \in Switch : GroupPorts(s) \subseteq Nat
  /\ \A s \in Switch : \A p \in PortsOf(s) : Peer(s, p)[1] \in Switch /\ Peer(s, p)[2] \in Nat
<1>1. \A a \in Address : a[1] \in Nat /\ a[2] \in Nat
  BY Topology DEF Address, Broadcast, Lldp
<1>2. \A a \in Source : a[1] \in Switch /\ a[2] \in Nat
  BY Topology DEF Source, Switch
<1>3. \A s \in Switch, a \in Address : FlowPort(s, a) \in Nat
  BY <1>1 DEF FlowPort, Uplink
<1>4. \A s \in Switch : GroupPorts(s) \subseteq Nat
  <2>1. Leaves \subseteq Nat
    BY Topology
  <2>2. {1, 2, Uplink} \subseteq Nat
    BY DEF Uplink
  <2>3. QED
    BY <2>1, <2>2 DEF GroupPorts
<1>5. \A s \in Switch : \A p \in PortsOf(s) : Peer(s, p)[1] \in Switch /\ Peer(s, p)[2] \in Nat
  BY Topology DEF PortsOf, Peer, Uplink, Switch
<1>6. QED
  BY <1>1, <1>2, <1>3, <1>4, <1>5

\* The rules the application writes are rules.
LEMMA RuleTypes ==
  /\ \A s \in Switch : BridgingRules(s) \subseteq Rule /\ MetricRules(s) \subseteq Rule
  /\ \A h \in Host : HostRules(h) \subseteq Rule
  /\ \A src, dst \in Host : RecordRules(src, dst) \subseteq Rule
<1>1. PICK K : K = Seq(Address)
  OBVIOUS
<1>2. /\ <<>> \in K /\ <<Broadcast>> \in K
      /\ \A h \in Host : <<h>> \in K
      /\ \A src, dst \in Host : <<src, dst>> \in K
  <2>1. Host \subseteq Address /\ Broadcast \in Address
    BY DEF Address
  <2>2. QED
    BY <1>1, <2>1
<1>3. ASSUME NEW s \in Switch, NEW k \in K, NEW t \in {"l2_ternary_table", "sw_sink", "sw_metric",
               "l2_exact_table", "record_table", "acl_table"}
      PROVE  [table |-> t, sw |-> s, key |-> k] \in Rule
  BY <1>1 DEF Rule
<1>4. ASSUME NEW s \in Switch PROVE BridgingRules(s) \subseteq Rule
  BY <1>2, <1>3 DEF BridgingRules, BroadcastRule, SinkRule
<1>5. ASSUME NEW s \in Switch PROVE MetricRules(s) \subseteq Rule
  BY <1>2, <1>3 DEF MetricRules, MetricRule
<1>6. ASSUME NEW h \in Host PROVE HostRules(h) \subseteq Rule
  BY <1>2, <1>3, <1>6 DEF HostRules, UnicastRule
<1>7. ASSUME NEW src \in Host, NEW dst \in Host PROVE RecordRules(src, dst) \subseteq Rule
  BY <1>2, <1>3 DEF RecordRules, RecordRule, Switch
<1>8. QED
  BY <1>4, <1>5, <1>6, <1>7

\* A group is no rule, and what SetUpBridging writes are entries.
LEMMA GroupTypes ==
  /\ \A s, r : GroupEntry(s) = r /\ r.table # "multicast_group" => FALSE
  /\ \A r \in Entry : r.table = "multicast_group" => r \in {GroupEntry(s) : s \in Switch}
  /\ \A s \in Switch : \A late : Group(s, late) \subseteq {GroupEntry(t) : t \in Switch}
<1>1. \A r \in Rule : r.table # "multicast_group"
  BY DEF Rule
<1>2. QED
  BY <1>1 DEF GroupEntry, Group, Entry

Typed(c) == c \in Copy /\ Len(c.stack) <= MaxRec

\* What the parser makes of a copy.
LEMMA ParsedType ==
  ASSUME NEW c \in Copy
  PROVE  Typed(Parsed(c))
<1>1. c.n \in Count /\ c.rest \in Cells /\ c.rec \in BOOLEAN
  BY DEF Copy
<1>2. c.n \in Nat
  BY <1>1 DEF Count
<1>3. /\ Stack(c.n, c.rest) \in Cells /\ Unparsed(c.n, c.rest) \in Cells
      /\ Len(Stack(c.n, c.rest)) <= MaxRec
  BY <1>1, <1>2, ParseSplits, ExtractedBounds DEF Cells
<1>4. <<>> \in Cells /\ Len(<<>>) <= MaxRec
  BY EmptySeq, MaxRecAssumption DEF Cells
<1>5. PICK st \in Cells, un \in Cells :
        /\ st = (IF c.rec THEN Stack(c.n, c.rest) ELSE <<>>)
        /\ un = (IF c.rec THEN Unparsed(c.n, c.rest) ELSE c.rest)
        /\ Len(st) <= MaxRec
  BY <1>1, <1>3, <1>4
<1>6. Parsed(c) = [c EXCEPT !.stage = "egress", !.stack = st, !.rest = un]
  BY <1>5 DEF Parsed
<1>7. "egress" \in Stage
  BY DEF Stage
<1>8. Parsed(c) \in Copy /\ Parsed(c).stack = st
  BY <1>5, <1>6, <1>7 DEF Copy
<1>9. QED
  BY <1>5, <1>8 DEF Typed

\* Everything the ingress pipeline queues.
LEMMA IngressTypes ==
  ASSUME NEW c \in Copy
  PROVE  /\ \A d \in Forwarded(c) : Typed(d)
         /\ Typed(CpuClone(c))
         /\ Typed(PacketOutCopy(c))
<1>1. PICK p \in Copy : p = Parsed(c) /\ Len(p.stack) <= MaxRec
  BY ParsedType DEF Typed
<1>2. /\ c.at \in Switch /\ c.dst \in Address /\ c.src \in Source
      /\ c.rec \in BOOLEAN /\ c.n \in Count
  BY DEF Copy
<1>3. "clone" \in Instance /\ "replica" \in Instance /\ CpuPort \in Nat
  BY DEF Instance, CpuPort
<1>4. Typed(CpuClone(c))
  BY <1>1, <1>3 DEF CpuClone, Typed, Copy
<1>5. Typed(PacketOutCopy(c))
  <2>1. c.src[2] \in Nat
    BY <1>2, AddressPorts
  <2>2. QED
    BY <1>1, <2>1 DEF PacketOutCopy, Typed, Copy
<1>6. ASSUME NEW d \in Forwarded(c) PROVE Typed(d)
  <2>1. IsSink(c) \in BOOLEAN /\ Recorded(c) \in BOOLEAN
    BY <1>2 DEF IsSink, Recorded, StartsRecording
  <2>2. (IF StartsRecording(c) THEN 0 ELSE c.n) \in Count
    BY <1>2 DEF Count
  <2>3. PICK k \in Count, sk \in BOOLEAN, rc \in BOOLEAN :
          k = (IF StartsRecording(c) THEN 0 ELSE c.n) /\ sk = IsSink(c) /\ rc = Recorded(c)
    BY <2>1, <2>2
  <2>4. PICK out \in Copy : /\ out = [p EXCEPT !.sink = sk, !.rec = rc, !.n = k]
                            /\ Len(out.stack) <= MaxRec
    <3>1. [p EXCEPT !.sink = sk, !.rec = rc, !.n = k] \in Copy
      BY <2>3, ZenonT(30) DEF Copy
    <3>2. [p EXCEPT !.sink = sk, !.rec = rc, !.n = k].stack = p.stack
      BY DEF Copy
    <3>3. QED
      BY <1>1, <3>1, <3>2
  <2>5. \/ d = [out EXCEPT !.outPort = FlowPort(c.at, c.dst)]
        \/ \E q \in GroupPorts(c.at) : d = [out EXCEPT !.inst = "replica", !.outPort = q]
    BY <1>1, <1>6, <2>3, <2>4 DEF Forwarded
  <2>6. FlowPort(c.at, c.dst) \in Nat /\ GroupPorts(c.at) \subseteq Nat
    BY <1>2, AddressPorts
  <2>7. CASE d = [out EXCEPT !.outPort = FlowPort(c.at, c.dst)]
    BY <2>4, <2>6, <2>7 DEF Typed, Copy
  <2>8. ASSUME NEW q \in GroupPorts(c.at),
               d = [out EXCEPT !.inst = "replica", !.outPort = q]
        PROVE  Typed(d)
    BY <1>3, <2>4, <2>6, <2>8 DEF Typed, Copy
  <2>9. QED
    BY <2>5, <2>7, <2>8
<1>7. QED
  BY <1>4, <1>5, <1>6

\* What the egress pipeline writes to the header and puts on the wire.
LEMMA EgressTypes ==
  ASSUME NEW c \in Copy
  PROVE  Body(c) \in Cells /\ Pushed(c).n \in Count
<1>1. /\ c.stack \in Cells /\ c.rest \in Cells /\ c.n \in Count /\ c.at \in Switch
      /\ c.rec \in BOOLEAN
  BY DEF Copy
<1>2. Metric(c.at) \in Cell
  BY <1>1, MetricIsCell, Topology
<1>3. c.n + 1 \in Nat
  BY <1>1 DEF Count
<1>4. PushFront(Metric(c.at), c.stack) \in Cells
  BY <1>1, <1>2, <1>3, HeaderTypes DEF Cells
<1>5. PICK st \in Cells :
        st = IF MetricRule(c.at) \in tables THEN PushFront(Metric(c.at), c.stack) ELSE c.stack
  BY <1>1, <1>4
<1>6. PICK k \in Count : k = Byte(c.n + 1)
  BY <1>1, <1>2, <1>3, HeaderTypes DEF Cells, Count
<1>7. PICK p \in Copy : p = Pushed(c)
  <2>1. ~c.rec => Pushed(c) = c
    BY DEF Pushed
  <2>2. c.rec => Pushed(c) = [c EXCEPT !.stack = st, !.n = k]
    BY <1>5, <1>6 DEF Pushed
  <2>3. QED
    BY <1>1, <1>5, <1>6, <2>1, <2>2 DEF Copy
<1>8. p.n \in Count /\ p.stack \in Cells /\ p.rest \in Cells
  BY <1>7 DEF Copy
<1>9. ClearRecords(p.stack) \in Cells
  BY <1>2, <1>3, <1>8, HeaderTypes DEF Cells
<1>10. PICK top \in Cells : top = IF Stripped(c) THEN ClearRecords(p.stack) ELSE p.stack
  BY <1>8, <1>9
<1>11. Emit(top, p.rest) \in Cells
  BY <1>2, <1>3, <1>8, <1>10, HeaderTypes DEF Cells
<1>12. QED
  BY <1>7, <1>8, <1>10, <1>11 DEF Body

\* What a host or the controller sends.
LEMMA NewCopyType ==
  ASSUME NEW pid \in Nat, NEW kind \in Kinds, NEW src \in Source, NEW dst \in Address,
         NEW s \in Switch, NEW port \in Nat, NEW rec \in BOOLEAN, NEW body \in Cells
  PROVE  Typed(NewCopy(pid, kind, src, dst, s, port, rec, body))
<1>1. <<>> \in Cells /\ Len(<<>>) = 0 /\ <<>> \in Trail
  BY EmptySeq DEF Cells, Trail
<1>2. PICK e : e = <<>>
  OBVIOUS
<1>3. "ingress" \in Stage /\ "normal" \in Instance /\ NoPort \in Nat /\ 0 \in Count
  BY DEF Stage, Instance, NoPort, Count
<1>4. NewCopy(pid, kind, src, dst, s, port, rec, body) \in Copy
  BY <1>1, <1>2, <1>3 DEF NewCopy, Copy
<1>5. NewCopy(pid, kind, src, dst, s, port, rec, body).stack = <<>>
  BY DEF NewCopy
<1>6. QED
  BY <1>1, <1>4, <1>5, MaxRecAssumption DEF Typed

\* TypeOK of the copies, said of each one.
LEMMA CopiesTyped ==
  TypeOK <=> /\ store \subseteq Entry /\ tables \subseteq Entry
             /\ groupsLeft \subseteq {GroupEntry(s) : s \in Switch}
             /\ \A c \in copies : Typed(c)
             /\ sent \in 0..MaxPackets /\ ops \in 0..MaxOps
             /\ delivered \subseteq Delivery /\ reports \subseteq Report
             /\ packetIns \subseteq PacketIn
  BY DEF TypeOK, Typed

LEMMA InitTypes == Init => TypeOK
<1> SUFFICES ASSUME Init PROVE TypeOK
  OBVIOUS
<1>1. ASSUME NEW h \in InitialHosts
      PROVE  [kind |-> "arp", src |-> h, at |-> h[1], inPort |-> h[2]] \in PacketIn
  <2>1. h \in Host /\ h[1] \in Switch /\ h[2] \in Nat
    BY TopologyAssumption, Topology DEF Switch
  <2>2. QED
    BY <2>1 DEF PacketIn, Source
<1>2. packetIns \subseteq PacketIn
  BY <1>1 DEF Init
<1>3. QED
  BY <1>2, InitialRulesAssumption, TopologyAssumption DEF Init, TypeOK

LEMMA IngressKeepsTypes ==
  ASSUME TypeOK, NEW c \in copies, Ingress(c)
  PROVE  TypeOK'
<1>1. Typed(c) /\ c \in Copy
  BY DEF TypeOK, Typed
<1>2. \A d \in copies' : Typed(d)
  BY <1>1, IngressTypes, CopiesTyped DEF Ingress
<1>3. QED
  BY <1>2 DEF Ingress, TypeOK, Typed, control, seen

LEMMA EgressKeepsTypes ==
  ASSUME TypeOK, NEW c \in copies, Egress(c)
  PROVE  TypeOK'
<1>1. /\ c \in Copy /\ c.pid \in Nat /\ c.kind \in Kinds /\ c.src \in Source
      /\ c.dst \in Address /\ c.at \in Switch /\ c.inPort \in Nat /\ c.rec \in BOOLEAN
      /\ c.orig \in Cells /\ c.trail \in Trail
  BY DEF TypeOK, Copy
<1>2. PICK body \in Cells, n \in Count : body = Body(c) /\ n = Pushed(c).n
  BY <1>1, EgressTypes
<1>3. PICK trail \in Trail : trail = Append(c.trail, c.at)
  BY <1>1, AppendProperties DEF Trail
<1>4. UNCHANGED <<store, tables, groupsLeft, sent, ops>>
  BY DEF Egress, control
<1>5. CASE ToCpu(c)
  <2>1. n \in Nat /\ ReadRecords(n, body) \in Cells
    <3>1. n \in Nat
      BY DEF Count
    <3>2. PICK m : m \in Cell
      BY MetricIsCell, Topology, <1>1
    <3>3. QED
      BY <3>1, <3>2, HeaderTypes DEF Cells
  <2>2. [pid |-> c.pid, kind |-> c.kind, src |-> c.src, dst |-> c.dst, from |-> c.at,
         cells |-> ReadRecords(n, body)] \in Report
    BY <1>1, <2>1 DEF Report
  <2>3. [kind |-> c.kind, src |-> c.src, at |-> c.at, inPort |-> c.inPort] \in PacketIn
    BY <1>1 DEF PacketIn
  <2>4. reports' \subseteq Report /\ packetIns' \subseteq PacketIn
    BY <1>2, <1>5, <2>2, <2>3 DEF ToCpu, TypeOK
  <2>5. QED
    BY <1>4, <1>5, <2>4 DEF ToCpu, TypeOK
<1>6. CASE DropReplica(c)
  BY <1>4, <1>6 DEF DropReplica, TypeOK, seen
<1>7. CASE ToHost(c)
  <2>1. PICK header \in BOOLEAN : header = (c.rec /\ ~Stripped(c))
    BY <1>1
  <2>2. PICK d : d = [pid |-> c.pid, kind |-> c.kind, src |-> c.src, dst |-> c.dst,
                      host |-> <<c.at, c.outPort>>, header |-> header, recorded |-> c.rec,
                      body |-> body, orig |-> c.orig, trail |-> trail]
    OBVIOUS
  <2>3. <<c.at, c.outPort>> \in Host
    BY <1>7 DEF ToHost
  <2>4. d \in Delivery
    BY <1>1, <2>2, <2>3 DEF Delivery
  <2>5. delivered' = delivered \cup {d}
    BY <1>2, <1>3, <1>7, <2>1, <2>2 DEF ToHost
  <2>6. QED
    BY <1>4, <1>7, <2>4, <2>5 DEF ToHost, TypeOK
<1>8. CASE ToSwitch(c)
  <2>1. PICK rec \in BOOLEAN : rec = (c.rec /\ ~Stripped(c))
    BY <1>1
  <2>2. ASSUME c.outPort \in PortsOf(c.at)
        PROVE  Typed([c EXCEPT !.at = Peer(c.at, c.outPort)[1],
                 !.inPort = Peer(c.at, c.outPort)[2], !.stage = "ingress", !.inst = "normal",
                 !.outPort = NoPort, !.sink = FALSE, !.rec = rec, !.n = n, !.stack = <<>>,
                 !.rest = body, !.trail = trail])
    <3>1. PICK at \in Switch, port \in Nat :
            at = Peer(c.at, c.outPort)[1] /\ port = Peer(c.at, c.outPort)[2]
      BY <1>1, <2>2, AddressPorts
    <3>2. "ingress" \in Stage /\ "normal" \in Instance /\ NoPort \in Nat
      BY DEF Stage, Instance, NoPort
    <3>3. PICK e \in Cells : e = <<>> /\ Len(e) <= MaxRec
      <4>1. <<>> \in Cells /\ Len(<<>>) = 0
        BY EmptySeq DEF Cells
      <4>2. QED
        BY <4>1, MaxRecAssumption
    <3>4. PICK d : d = [c EXCEPT !.at = at, !.inPort = port, !.stage = "ingress",
                 !.inst = "normal", !.outPort = NoPort, !.sink = FALSE, !.rec = rec,
                 !.n = n, !.stack = e, !.rest = body, !.trail = trail]
      OBVIOUS
    <3>5. d \in Copy /\ d.stack = e
      BY <1>1, <3>2, <3>4 DEF Copy
    <3>6. QED
      BY <3>1, <3>3, <3>4, <3>5 DEF Typed
  <2>3. \A d \in copies' : Typed(d)
    BY <1>2, <1>3, <1>8, <2>1, <2>2, CopiesTyped DEF ToSwitch
  <2>4. QED
    BY <1>4, <1>8, <2>3 DEF ToSwitch, TypeOK, Typed, seen
<1>9. QED
  BY <1>5, <1>6, <1>7, <1>8 DEF Egress

LEMMA TrafficKeepsTypes ==
  ASSUME TypeOK, Traffic
  PROVE  TypeOK'
<1>1. ASSUME NEW c, Launch(c), c.kind \in Kinds => Typed(c)
      PROVE  TypeOK'
  BY <1>1, CopiesTyped, TopologyAssumption DEF Launch, TypeOK, Typed, control, seen
<1>2. sent \in Nat
  BY DEF TypeOK
<1>3. /\ \A h \in Host : h \in Source /\ h \in Address /\ h[1] \in Switch /\ h[2] \in Nat
      /\ Broadcast \in Address /\ Lldp \in Address
  BY Topology DEF Source, Address, Switch
<1>4. Payloads \subseteq Cells /\ <<>> \in Cells
  BY TopologyAssumption, EmptySeq DEF Cells
<1>5. ASSUME NEW h \in Host, NEW d \in Host, SendIp(h, d) PROVE TypeOK'
  <2>1. PICK p \in Payloads : Launch(NewCopy(sent, "ip", h, d, h[1], h[2], FALSE, p))
    BY <1>5 DEF SendIp
  <2>2. NewCopy(sent, "ip", h, d, h[1], h[2], FALSE, p).kind = "ip"
    BY DEF NewCopy
  <2>3. QED
    BY <1>1, <1>2, <1>3, <1>4, <2>1, <2>2, NewCopyType
<1>6. ASSUME NEW h \in Host, SendArp(h) PROVE TypeOK'
  <2>1. PICK p \in Payloads : Launch(NewCopy(sent, "arp", h, Broadcast, h[1], h[2], FALSE, p))
    BY <1>6 DEF SendArp
  <2>2. NewCopy(sent, "arp", h, Broadcast, h[1], h[2], FALSE, p).kind = "arp"
    BY DEF NewCopy
  <2>3. QED
    BY <1>1, <1>2, <1>3, <1>4, <2>1, <2>2, NewCopyType
<1>7. ASSUME NEW h \in Host, NEW d \in Host, SendProbe(h, d) PROVE TypeOK'
  <2>1. Launch(NewCopy(sent, "probe", h, d, h[1], h[2], TRUE, <<>>))
    BY <1>7 DEF SendProbe
  <2>2. NewCopy(sent, "probe", h, d, h[1], h[2], TRUE, <<>>).kind = "probe"
    BY DEF NewCopy
  <2>3. QED
    BY <1>1, <1>2, <1>3, <1>4, <2>1, <2>2, NewCopyType
<1>8. ASSUME NEW s \in Switch, NEW q \in PortsOf(s), PacketOut(s, q) PROVE TypeOK'
  <2>1. PICK p \in Payloads : Launch(NewCopy(sent, "lldp", <<s, q>>, Lldp, s, CpuPort, FALSE, p))
    BY <1>8 DEF PacketOut
  <2>2. NewCopy(sent, "lldp", <<s, q>>, Lldp, s, CpuPort, FALSE, p).kind = "lldp"
    BY DEF NewCopy
  <2>3. <<s, q>> \in Source /\ CpuPort \in Nat
    BY Topology DEF Source, PortsOf, Uplink, CpuPort
  <2>4. QED
    BY <1>1, <1>2, <1>3, <1>4, <2>1, <2>2, <2>3, NewCopyType
<1>9. QED
  BY <1>5, <1>6, <1>7, <1>8 DEF Traffic

LEMMA ControlKeepsTypes ==
  ASSUME TypeOK, Application \/ Sync
  PROVE  TypeOK'
<1>1. ASSUME NEW operation, NEW entries \in SUBSET Entry, Operate(operation, entries),
             groupsLeft' \subseteq {GroupEntry(s) : s \in Switch}
      PROVE  TypeOK'
  BY <1>1, TopologyAssumption DEF Operate, TypeOK, seen
<1>2. store \subseteq Entry /\ Rule \subseteq Entry /\ {GroupEntry(s) : s \in Switch} \subseteq Entry
  BY DEF TypeOK, Entry
<1>9. ASSUME NEW operation, NEW entries \in SUBSET Entry, Write(operation, entries)
      PROVE  TypeOK'
  BY <1>1, <1>9 DEF Write, TypeOK
<1>3. ASSUME NEW s \in Switch, SetUpBridging(s) \/ SetUpMetrics(s) PROVE TypeOK'
  <2>1. CASE SetUpBridging(s)
    <3>1. PICK late \in SUBSET LateConfig :
            Write("bridging", store \cup BridgingEntries(s, Switch \ late))
      BY <2>1 DEF SetUpBridging
    <3>2. store \cup BridgingEntries(s, Switch \ late) \subseteq Entry
      BY <1>2, RuleTypes, GroupTypes DEF BridgingEntries
    <3>3. QED
      BY <1>9, <3>1, <3>2
  <2>2. CASE SetUpMetrics(s)
    BY <1>2, <1>9, <2>2, RuleTypes DEF SetUpMetrics
  <2>3. QED
    BY <1>3, <2>1, <2>2
<1>4. ASSUME NEW h \in Host, LearnHost(h) PROVE TypeOK'
  BY <1>2, <1>4, <1>9, RuleTypes DEF LearnHost
<1>5. ASSUME NEW src \in Host, NEW dst \in Host,
             EnableRecording(src, dst) \/ StopRecording(src, dst)
      PROVE  TypeOK'
  BY <1>2, <1>5, <1>9, RuleTypes DEF EnableRecording, StopRecording
<1>6. CASE CleanUp
  <2>1. OfTable("multicast_group", store) \subseteq {GroupEntry(s) : s \in Switch}
    BY <1>2, GroupTypes DEF OfTable
  <2>2. OfTable("acl_table", store) \cup OfTable("multicast_group", store) \subseteq Entry
    BY <1>2 DEF OfTable
  <2>3. QED
    BY <1>1, <1>6, <2>1, <2>2 DEF CleanUp
<1>10. CASE RemoveGroups
  BY <1>10 DEF RemoveGroups, TypeOK, seen
<1>7. CASE Sync
  BY <1>7 DEF Sync, SyncAdd, SyncRemove, TypeOK, seen
<1>8. QED
  BY <1>3, <1>4, <1>5, <1>6, <1>7, <1>10 DEF Application

(***************************************************************************)
(* Type correctness of the fabric for every topology and every order of    *)
(* events; the header stack never holds more cells than data[] has.        *)
(***************************************************************************)
THEOREM TypeCorrect == Spec => []TypeOK
<1>1. Init => TypeOK
  BY InitTypes
<1>2. TypeOK /\ [Next]_vars => TypeOK'
  <2> SUFFICES ASSUME TypeOK, [Next]_vars PROVE TypeOK'
    OBVIOUS
  <2>1. CASE Forward
    BY <2>1, IngressKeepsTypes, EgressKeepsTypes DEF Forward
  <2>2. CASE Traffic
    BY <2>2, TrafficKeepsTypes
  <2>3. CASE Sync \/ Application
    BY <2>3, ControlKeepsTypes
  <2>4. CASE UNCHANGED vars
    BY <2>4 DEF vars, TypeOK
  <2>5. QED
    BY <2>1, <2>2, <2>3, <2>4 DEF Next
<1>3. QED
  BY <1>1, <1>2, PTL DEF Spec

-----------------------------------------------------------------------------
(***************************************************************************)
(* What the application and ONOS do keeps recording safe.                  *)
(***************************************************************************)

\* The rules that record are none of the rules the header needs.
LEMMA TelemetryIsNotRecording ==
  /\ \A r \in TelemetryRules : r.table # "record_table"
  /\ \A s, src, dst : RecordRule(s, src, dst).table = "record_table"
  /\ \A s, r : r \in BridgingRules(s) \cup MetricRules(s) => r.table # "record_table"
  /\ \A h, r : r \in HostRules(h) => r.table # "record_table"
  /\ \A src, dst, r : r \in RecordRules(src, dst) => r.table = "record_table"
BY DEF TelemetryRules, SinkRule, MetricRule, AclRule, RecordRule, BridgingRules,
       BroadcastRule, MetricRules, HostRules, UnicastRule, RecordRules

\* No operation ever wants the spine to be a sink.
LEMMA SpineIsNoSink ==
  /\ \A s, src, dst : SinkRule(Spine) # RecordRule(s, src, dst)
  /\ \A s \in Switch : SinkRule(Spine) \notin BridgingRules(s) \cup MetricRules(s)
  /\ \A h : SinkRule(Spine) \notin HostRules(h)
  /\ \A src, dst : SinkRule(Spine) \notin RecordRules(src, dst)
<1>1. \A s \in Switch \ {Spine} : SinkRule(Spine) # SinkRule(s)
  BY DEF SinkRule
<1>2. \A s, src, dst : SinkRule(Spine) # RecordRule(s, src, dst)
  BY DEF SinkRule, RecordRule
<1>3. \A s : SinkRule(Spine) # BroadcastRule(s) /\ SinkRule(Spine) # MetricRule(s)
  BY DEF SinkRule, BroadcastRule, MetricRule
<1>4. \A s, h : SinkRule(Spine) # UnicastRule(s, h)
  BY DEF SinkRule, UnicastRule
<1>5. QED
  BY <1>1, <1>2, <1>3, <1>4 DEF BridgingRules, MetricRules, HostRules, RecordRules

\* Rules wanted besides: the ones that record stay as they are.
LEMMA ControlStep ==
  ASSUME TypeOK, Careful, SinkRule(Spine) \notin store \cup tables, RecordingIsSafe,
         Application \/ Sync
  PROVE  SinkRule(Spine) \notin (store \cup tables)' /\ RecordingIsSafe'
<1> USE DEF Operate, Write, Recording, OfTable, RecordingIsSafe, SetUp
<1>1. ASSUME NEW s \in Switch, SetUpBridging(s)
      PROVE  SinkRule(Spine) \notin (store \cup tables)' /\ RecordingIsSafe'
  <2>1. PICK late \in SUBSET LateConfig :
          Write("bridging", store \cup BridgingEntries(s, Switch \ late))
    BY <1>1 DEF SetUpBridging
  <2>2. \A r \in Group(s, Switch \ late) : r.table = "multicast_group"
    BY DEF Group, GroupEntry
  <2>3. SinkRule(Spine).table # "multicast_group"
    BY DEF SinkRule
  <2>4. QED
    BY <2>1, <2>2, <2>3, SpineIsNoSink, TelemetryIsNotRecording DEF BridgingEntries
<1>2. ASSUME NEW s \in Switch, SetUpMetrics(s)
      PROVE  SinkRule(Spine) \notin (store \cup tables)' /\ RecordingIsSafe'
  BY <1>2, SpineIsNoSink, TelemetryIsNotRecording DEF SetUpMetrics
<1>3. ASSUME NEW h \in Host, LearnHost(h)
      PROVE  SinkRule(Spine) \notin (store \cup tables)' /\ RecordingIsSafe'
  BY <1>3, SpineIsNoSink, TelemetryIsNotRecording DEF LearnHost
<1>4. ASSUME NEW src \in Host, NEW dst \in Host, EnableRecording(src, dst)
      PROVE  SinkRule(Spine) \notin (store \cup tables)' /\ RecordingIsSafe'
  BY <1>4, SpineIsNoSink DEF EnableRecording
<1>5. ASSUME NEW src \in Host, NEW dst \in Host, StopRecording(src, dst)
      PROVE  SinkRule(Spine) \notin (store \cup tables)' /\ RecordingIsSafe'
  BY <1>5, TelemetryIsNotRecording DEF StopRecording
<1>6. CASE CleanUp
  BY <1>6 DEF CleanUp
<1>10. CASE RemoveGroups
  <2>1. \A r \in groupsLeft : r.table = "multicast_group"
    BY DEF TypeOK, GroupEntry
  <2>2. \A r \in TelemetryRules : r.table # "multicast_group"
    BY DEF TelemetryRules, SinkRule, MetricRule, AclRule
  <2>3. QED
    BY <1>10, <2>1, <2>2 DEF RemoveGroups
<1>7. ASSUME NEW r \in store, SyncAdd(r)
      PROVE  SinkRule(Spine) \notin (store \cup tables)' /\ RecordingIsSafe'
  BY <1>7 DEF SyncAdd
<1>8. ASSUME NEW r \in tables, SyncRemove(r)
      PROVE  SinkRule(Spine) \notin (store \cup tables)' /\ RecordingIsSafe'
  BY <1>8 DEF SyncRemove
<1>9. QED
  BY <1>1, <1>2, <1>3, <1>4, <1>5, <1>6, <1>7, <1>8, <1>10 DEF Application, Sync

-----------------------------------------------------------------------------
(***************************************************************************)
(* Where a host's packet is decides what it has gathered.                  *)
(***************************************************************************)
LEMMA GatheredFacts ==
  ASSUME NEW c \in Copy, CopyOK(c)
  PROVE  /\ Gathered(c) \in Seq(Cell)
         /\ c.at = c.src[1] => Gathered(c) = <<>> /\ Len(Gathered(c)) = 0
         /\ c.at = Spine => Gathered(c) = <<Metric(c.src[1])>> /\ Len(Gathered(c)) = 1
         /\ c.at # c.src[1] /\ c.at # Spine =>
              Gathered(c) = <<Metric(Spine), Metric(c.src[1])>> /\ Len(Gathered(c)) = 2
         /\ Len(Gathered(c)) \in 0..2
         /\ c.at \in Switch /\ c.src[1] # Spine /\ c.dst[1] # Spine
         /\ c.src \in Host /\ c.dst \in Host
         /\ c.at = c.src[1] \/ c.at = Spine \/ c.at = c.dst[1]
<1>1. c.src \in Host /\ c.dst \in Host /\ OnPath(c)
  BY DEF CopyOK
<1>2. c.src[1] \in Leaves /\ c.dst[1] \in Leaves
  BY <1>1, Topology
<1>3. c.src[1] # Spine /\ c.dst[1] # Spine /\ Spine \in Nat /\ c.src[1] \in Nat
  BY <1>2, Topology DEF Spine
<1>4. c.at = c.src[1] \/ c.at = Spine \/ c.at = c.dst[1]
  BY <1>1 DEF OnPath
<1>5. PICK a \in Cell, b \in Cell : a = Metric(Spine) /\ b = Metric(c.src[1])
  BY <1>3, MetricIsCell
<1>6. PICK e \in Seq(Cell) : e = <<>> /\ Len(e) = 0
  BY EmptySeq
<1>7. /\ <<b>> \in Seq(Cell) /\ Len(<<b>>) = 1
      /\ <<a, b>> \in Seq(Cell) /\ Len(<<a, b>>) = 2
  OBVIOUS
<1>8. c.at \in Switch
  BY <1>2, <1>4 DEF Switch
<1>9. CASE c.at = c.src[1]
  BY <1>1, <1>3, <1>4, <1>6, <1>8, <1>9 DEF Gathered
<1>10. CASE c.at = Spine
  BY <1>1, <1>3, <1>4, <1>5, <1>7, <1>8, <1>10 DEF Gathered
<1>11. CASE c.at # c.src[1] /\ c.at # Spine
  BY <1>1, <1>3, <1>4, <1>5, <1>7, <1>8, <1>11 DEF Gathered
<1>12. QED
  BY <1>9, <1>10, <1>11

\* What a host's packet arrives with, for the parser and the deparser.
LEMMA ArrivingFacts ==
  ASSUME NEW c \in Copy, CopyOK(c)
  PROVE  /\ Arriving(c) \in Seq(Cell)
         /\ c.orig \in Seq(Cell) /\ c.orig # <<>>
         /\ Gathered(c) = <<>> => Arriving(c) = c.orig
<1>1. c.orig \in Seq(Cell) /\ c.orig # <<>>
  BY DEF CopyOK
<1>2. Gathered(c) \in Seq(Cell)
  BY GatheredFacts
<1>3. Gathered(c) \o c.orig \in Seq(Cell) /\ <<>> \o c.orig = c.orig
  BY <1>1, <1>2, ConcatProperties, ConcatEmptySeq
<1>4. QED
  BY <1>1, <1>3 DEF Arriving

-----------------------------------------------------------------------------
(***************************************************************************)
(* The ingress pipeline.                                                   *)
(***************************************************************************)

\* A host's packet in ingress.
LEMMA WaitingFacts ==
  ASSUME NEW c \in Copy, CopyOK(c), c.stage = "ingress"
  PROVE  /\ Waiting(c)
         /\ c.inPort # CpuPort
         /\ HostPort(c.inPort) /\ c.at # Spine => c.at = c.src[1]
         /\ c.dst # Broadcast
<1>1. Waiting(c) /\ OnPath(c) /\ c.src \in Host /\ c.dst \in Host
  BY DEF CopyOK, Queued
<1>2. /\ c.src[1] \in Leaves /\ c.src[2] \in {1, 2}
      /\ c.dst[1] \in Leaves /\ c.dst = <<c.dst[1], c.dst[2]>>
  BY <1>1, Topology
<1>3. c.src[1] # Spine /\ c.src[1] # CpuPort /\ c.dst[1] # 0
  BY <1>2, Topology DEF Spine
<1>4. c.dst # Broadcast
  BY <1>2, <1>3 DEF Broadcast
<1>5. QED
  BY <1>1, <1>2, <1>3, <1>4 DEF OnPath, HostPort, Uplink, CpuPort, Switch, Spine

\* Recording starts only where the packet enters, and only with the rules in place.
LEMMA RecordedFacts ==
  ASSUME SinkRule(Spine) \notin tables, RecordingIsSafe,
         NEW c \in copies, c \in Copy, c.kind = "ip", CopyOK(c), c.stage = "ingress"
  PROVE  /\ IsSink(c) => c.at # Spine
         /\ Recorded(c) => SetUp
         /\ Recorded(c) /\ c.at # Spine => IsSink(c)
         /\ StartsRecording(c) => ~c.rec /\ c.at = c.src[1]
<1>1. HostPort(c.inPort) /\ c.at # Spine => c.at = c.src[1]
  BY WaitingFacts
<1>2. c.at \in Switch
  BY GatheredFacts
<1>3. IsSink(c) => c.at # Spine
  BY DEF IsSink
<1>4. Recorded(c) => SetUp
  <2>1. StartsRecording(c) => Recording # {}
    BY DEF StartsRecording, Recording, OfTable, RecordRule
  <2>2. QED
    BY <2>1 DEF RecordingIsSafe, Recorded
<1>5. Recorded(c) /\ c.at # Spine => IsSink(c)
  BY <1>2, <1>4 DEF SetUp, TelemetryRules, IsSink, Switch
<1>6. StartsRecording(c) => ~c.rec /\ c.at = c.src[1]
  BY <1>1, <1>3 DEF StartsRecording
<1>7. QED
  BY <1>3, <1>4, <1>5, <1>6

\* The packet itself, field by field, when l2_exact_table forwards it.
LEMMA ForwardedFields ==
  ASSUME NEW c \in Copy, c.dst # Broadcast, NEW d \in Forwarded(c)
  PROVE  /\ d.kind = c.kind /\ d.src = c.src /\ d.dst = c.dst /\ d.at = c.at
         /\ d.inPort = c.inPort /\ d.orig = c.orig
         /\ d.stage = "egress" /\ d.inst = c.inst
         /\ d.outPort = FlowPort(c.at, c.dst)
         /\ d.sink = IsSink(c) /\ d.rec = Recorded(c)
         /\ d.n = (IF StartsRecording(c) THEN 0 ELSE c.n)
         /\ d.stack = (IF c.rec THEN Stack(c.n, c.rest) ELSE <<>>)
         /\ d.rest = (IF c.rec THEN Unparsed(c.n, c.rest) ELSE c.rest)
<1>1. d = [Parsed(c) EXCEPT !.sink = IsSink(c), !.rec = Recorded(c),
                            !.n = IF StartsRecording(c) THEN 0 ELSE c.n,
                            !.outPort = FlowPort(c.at, c.dst)]
  BY DEF Forwarded, Parsed, Copy
<1>2. QED
  BY <1>1 DEF Parsed, Copy

\* The clone, field by field.
LEMMA CloneFields ==
  ASSUME NEW c \in Copy
  PROVE  /\ CpuClone(c).kind = c.kind /\ CpuClone(c).src = c.src /\ CpuClone(c).dst = c.dst
         /\ CpuClone(c).at = c.at /\ CpuClone(c).inPort = c.inPort
         /\ CpuClone(c).orig = c.orig /\ CpuClone(c).rec = c.rec /\ CpuClone(c).n = c.n
         /\ CpuClone(c).stage = "egress" /\ CpuClone(c).inst = "clone"
         /\ CpuClone(c).outPort = CpuPort
         /\ CpuClone(c).stack = (IF c.rec THEN Stack(c.n, c.rest) ELSE <<>>)
         /\ CpuClone(c).rest = (IF c.rec THEN Unparsed(c.n, c.rest) ELSE c.rest)
  BY DEF CpuClone, Parsed, Copy

\* What ingress queues for a host's packet is in order again.
LEMMA IngressKeepsCopies ==
  ASSUME SinkRule(Spine) \notin tables, RecordingIsSafe,
         NEW c \in copies, c \in Copy, c.kind = "ip", CopyOK(c), c.stage = "ingress"
  PROVE  /\ \A d \in Forwarded(c) : CopyOK(d) /\ (d.rec => SetUp)
         /\ ClonedToCpu(c) => CopyOK(CpuClone(c)) /\ (CpuClone(c).rec => SetUp)
<1>1. Waiting(c) /\ c.dst # Broadcast
  BY WaitingFacts
<1>2. /\ IsSink(c) => c.at # Spine
      /\ Recorded(c) => SetUp
      /\ Recorded(c) /\ c.at # Spine => IsSink(c)
      /\ StartsRecording(c) => ~c.rec /\ c.at = c.src[1]
  BY RecordedFacts
<1>3. c.at = c.src[1] => Gathered(c) = <<>> /\ Len(Gathered(c)) = 0
  BY GatheredFacts
<1>4. c.orig \in Seq(Cell) /\ <<>> \o c.orig = c.orig
  BY ArrivingFacts, ConcatEmptySeq
<1>5. /\ c.src \in Host /\ c.dst \in Host /\ c.orig \in Seq(Cell) \ {<<>>} /\ OnPath(c)
      /\ c.rec => c.n = Len(Gathered(c))
  BY DEF CopyOK
<1>6. ASSUME NEW d \in Forwarded(c) PROVE CopyOK(d) /\ (d.rec => SetUp)
  <2>1. /\ d.src = c.src /\ d.dst = c.dst /\ d.at = c.at /\ d.inPort = c.inPort
        /\ d.orig = c.orig /\ d.stage = "egress" /\ d.inst = "normal"
        /\ d.outPort = FlowPort(c.at, c.dst) /\ d.sink = IsSink(c) /\ d.rec = Recorded(c)
        /\ d.n = (IF StartsRecording(c) THEN 0 ELSE c.n)
        /\ d.stack = (IF c.rec THEN Stack(c.n, c.rest) ELSE <<>>)
        /\ d.rest = (IF c.rec THEN Unparsed(c.n, c.rest) ELSE c.rest)
    BY <1>1, ForwardedFields DEF Waiting
  <2>2. OnPath(d) /\ Gathered(d) = Gathered(c)
    BY <1>5, <2>1 DEF OnPath, Gathered
  <2>3. /\ d.rec => d.n = Len(Gathered(c))
        /\ d.rec => d.stack = Stack(d.n, Arriving(d)) /\ d.rest = Unparsed(d.n, Arriving(d))
        /\ ~d.rec => d.stack = <<>> /\ d.rest = d.orig
    <3>1. CASE c.rec
      BY <1>1, <1>2, <1>5, <2>1, <2>2, <3>1 DEF Waiting, Arriving, Recorded
    <3>2. CASE StartsRecording(c)
      BY <1>1, <1>2, <1>3, <1>4, <2>1, <2>2, <3>2, NothingExtracted
         DEF Waiting, Arriving, Recorded
    <3>3. CASE ~c.rec /\ ~StartsRecording(c)
      BY <1>1, <2>1, <3>3 DEF Waiting, Arriving, Recorded
    <3>4. QED
      BY <3>1, <3>2, <3>3
  <2>4. Queued(d)
    BY <1>2, <2>1, <2>3 DEF Queued
  <2>5. QED
    BY <1>2, <1>5, <2>1, <2>2, <2>3, <2>4 DEF CopyOK
<1>7. ASSUME ClonedToCpu(c) PROVE CopyOK(CpuClone(c)) /\ (CpuClone(c).rec => SetUp)
  <2>1. PICK d : d = CpuClone(c)
    OBVIOUS
  <2>2. /\ d.src = c.src /\ d.dst = c.dst /\ d.at = c.at /\ d.inPort = c.inPort
        /\ d.orig = c.orig /\ d.rec = c.rec /\ d.n = c.n
        /\ d.stage = "egress" /\ d.inst = "clone" /\ d.outPort = CpuPort
        /\ d.stack = (IF c.rec THEN Stack(c.n, c.rest) ELSE <<>>)
        /\ d.rest = (IF c.rec THEN Unparsed(c.n, c.rest) ELSE c.rest)
    BY <2>1, CloneFields
  <2>3. OnPath(d) /\ Gathered(d) = Gathered(c)
    BY <1>5, <2>2 DEF OnPath, Gathered
  <2>4. c.at # Spine
    BY <1>2, <1>7 DEF ClonedToCpu
  <2>5. Queued(d)
    BY <1>1, <2>2, <2>3, <2>4 DEF Queued, Waiting, Arriving
  <2>6. QED
    BY <1>2, <1>5, <2>1, <2>2, <2>3, <2>5 DEF CopyOK, Recorded
<1>8. QED
  BY <1>6, <1>7

-----------------------------------------------------------------------------
(***************************************************************************)
(* The egress pipeline.                                                    *)
(***************************************************************************)

\* What the deparser puts on the wire, when nothing is stripped.
LEMMA BodyUnrecorded ==
  ASSUME NEW c \in Copy, CopyOK(c), c.stage = "egress", ~c.rec
  PROVE  ~Stripped(c) /\ Body(c) = c.orig /\ Pushed(c).n = c.n
<1>1. c.stack = <<>> /\ c.rest = c.orig
  BY DEF CopyOK, Waiting, Queued
<1>2. <<>> \o c.orig = c.orig
  BY ArrivingFacts, ConcatEmptySeq
<1>3. QED
  BY <1>1, <1>2 DEF Stripped, Body, Pushed, Emit

LEMMA BodyRecorded ==
  ASSUME NEW c \in Copy, CopyOK(c), c.stage = "egress", c.rec, SetUp
  PROVE  /\ Pushed(c).n = Len(Gathered(c)) + 1
         /\ ~Stripped(c) => Body(c) = <<Metric(c.at)>> \o Arriving(c)
         /\ Stripped(c) /\ c.at # Spine => Body(c) = c.orig
<1>1. /\ c.n = Len(Gathered(c))
      /\ c.stack = Stack(c.n, Arriving(c)) /\ c.rest = Unparsed(c.n, Arriving(c))
      /\ Arriving(c) = Gathered(c) \o c.orig
  BY DEF CopyOK, Waiting, Queued, Arriving
<1>2. /\ c.at \in Switch /\ Len(Gathered(c)) \in 0..2 /\ Gathered(c) \in Seq(Cell)
      /\ c.at = c.src[1] => Gathered(c) = <<>> /\ Len(Gathered(c)) = 0
      /\ c.at # c.src[1] /\ c.at # Spine => Len(Gathered(c)) = 2
  BY GatheredFacts
<1>3. c.orig \in Seq(Cell) /\ c.orig # <<>> /\ Arriving(c) \in Seq(Cell)
      /\ (Gathered(c) = <<>> => Arriving(c) = c.orig)
  BY ArrivingFacts
<1>4. MetricRule(c.at) \in tables
  BY <1>2 DEF SetUp, TelemetryRules
<1>5. PICK m \in Cell : m = Metric(c.at)
  BY <1>2, MetricIsCell, Topology
<1>6. Byte(c.n + 1) = Len(Gathered(c)) + 1
  BY <1>1, <1>2 DEF Byte
<1>7. Pushed(c) = [c EXCEPT !.stack = PushFront(m, c.stack), !.n = Byte(c.n + 1)]
  BY <1>4, <1>5 DEF Pushed
<1>8. /\ Pushed(c).n = Byte(c.n + 1) /\ Pushed(c).stack = PushFront(m, c.stack)
      /\ Pushed(c).rest = c.rest
  BY <1>7 DEF Copy
<1>9. ASSUME ~Stripped(c) PROVE Body(c) = <<m>> \o Arriving(c)
  <2>1. c.n \in Nat /\ c.n + 1 < MaxRec
    BY <1>1, <1>2, MaxRecAssumption
  <2>2. Body(c) = Emit(PushFront(m, Stack(c.n, Arriving(c))), Unparsed(c.n, Arriving(c)))
    BY <1>1, <1>8, <1>9 DEF Body
  <2>3. QED
    BY <1>3, <2>1, <2>2, HopPrepends
<1>10. ASSUME Stripped(c), c.at # Spine PROVE Body(c) = c.orig
  <2>1. Body(c) = Emit(ClearRecords(PushFront(m, Stack(c.n, Arriving(c)))),
                       Unparsed(c.n, Arriving(c)))
    BY <1>1, <1>8, <1>10 DEF Body
  <2>2. CASE c.at = c.src[1]
    <3>1. c.n = 0 /\ Arriving(c) = c.orig
      BY <1>1, <1>2, <1>3, <2>2
    <3>2. QED
      BY <1>3, <2>1, <3>1, SinkOfOwnRecord
  <2>3. CASE c.at # c.src[1]
    <3>1. PICK g \in Seq(Cell) : g = Gathered(c) /\ Len(g) = 2
      BY <1>2, <1>10, <2>3
    <3>2. c.n = 2 /\ Arriving(c) = g \o c.orig
      BY <1>1, <3>1
    <3>3. QED
      BY <1>3, <2>1, <3>1, <3>2, SinkAfterTwoHops
  <2>4. QED
    BY <2>2, <2>3
<1>11. QED
  BY <1>5, <1>6, <1>8, <1>9, <1>10

\* A packet that is still itself goes to its host's port or towards the spine.
LEMMA QueuedFacts ==
  ASSUME NEW c \in Copy, CopyOK(c), c.stage = "egress"
  PROVE  /\ c.outPort = CpuPort =>
              c.inst = "clone" /\ c.at # Spine /\ (c.rec => c.at # c.src[1])
         /\ c.outPort # CpuPort =>
              /\ c.inst = "normal" /\ c.outPort = FlowPort(c.at, c.dst)
              /\ c.sink => c.at # Spine
              /\ c.rec /\ c.at # Spine => c.sink
<1>1. Queued(c) /\ c.dst \in Host
  BY DEF CopyOK, Waiting
<1>2. FlowPort(c.at, c.dst) # CpuPort
  <2>1. c.dst[1] # CpuPort /\ c.dst[2] \in {1, 2}
    BY <1>1, Topology
  <2>2. QED
    BY <2>1 DEF FlowPort, CpuPort, Uplink
<1>3. QED
  BY <1>1, <1>2 DEF Queued

\* What the controller extracts from a recorded clone is the path of the packet.
LEMMA ClonesReportPath ==
  ASSUME NEW c \in Copy, CopyOK(c), c.stage = "egress", c.outPort = CpuPort, c.rec, SetUp
  PROVE  /\ c.src[1] # c.dst[1] /\ c.at = c.dst[1]
         /\ ReadRecords(Pushed(c).n, Body(c))
              = <<Metric(c.dst[1]), Metric(Spine), Metric(c.src[1])>>
<1>1. c.inst = "clone" /\ c.at # Spine /\ c.at # c.src[1]
  BY QueuedFacts
<1>2. c.src[1] # c.dst[1] /\ c.at = c.dst[1]
  BY <1>1 DEF CopyOK, OnPath
<1>3. /\ Gathered(c) = <<Metric(Spine), Metric(c.src[1])>> /\ Len(Gathered(c)) = 2
      /\ c.at \in Switch /\ c.src \in Host
  BY <1>1, GatheredFacts
<1>4. PICK a \in Cell, b \in Cell, m \in Cell :
        a = Metric(Spine) /\ b = Metric(c.src[1]) /\ m = Metric(c.at)
  <2>1. Spine \in Nat /\ c.src[1] \in Nat /\ c.at \in Nat
    BY <1>3, Topology DEF Spine
  <2>2. QED
    BY <2>1, MetricIsCell
<1>5. ~Stripped(c)
  BY <1>1 DEF Stripped
<1>6. Pushed(c).n = 3 /\ Body(c) = <<m>> \o Arriving(c)
  <2>1. Pushed(c).n = 2 + 1
    BY <1>3, BodyRecorded
  <2>2. Body(c) = <<m>> \o Arriving(c)
    BY <1>4, <1>5, BodyRecorded
  <2>3. QED
    BY <2>1, <2>2
<1>7. PICK o \in Seq(Cell) : o = c.orig /\ o # <<>>
  BY ArrivingFacts
<1>8. PICK g \in Seq(Cell) : g = <<a, b>>
  BY PathCells
<1>9. PICK r \in Seq(Cell) : r = <<m, a, b>> /\ r # <<>> /\ Len(r) = 3 /\ <<m>> \o g = r
  BY <1>8, PathCells
<1>10. Arriving(c) = g \o o
  BY <1>3, <1>4, <1>7, <1>8 DEF Arriving
<1>11. <<m>> \o (g \o o) = (<<m>> \o g) \o o
  BY FrontAssociates
<1>12. Body(c) = r \o o
  BY <1>6, <1>9, <1>10, <1>11
<1>13. ReadRecords(3, r \o o) = r
  BY <1>7, <1>9, ReadBack
<1>14. QED
  BY <1>2, <1>4, <1>6, <1>9, <1>12, <1>13

\* What leaves through a host's port.
LEMMA DeliveryIsIntact ==
  ASSUME NEW c \in Copy, CopyOK(c), c.stage = "egress", c.rec => SetUp,
         c.outPort # CpuPort, <<c.at, c.outPort>> \in Host
  PROVE  <<c.at, c.outPort>> = c.dst /\ ~(c.rec /\ ~Stripped(c)) /\ Body(c) = c.orig
<1>1. /\ c.inst = "normal" /\ c.outPort = FlowPort(c.at, c.dst)
      /\ c.rec /\ c.at # Spine => c.sink
  BY QueuedFacts
<1>2. c.at \in Leaves /\ c.at # Spine /\ c.outPort \in {1, 2} /\ c.dst \in Host
  BY Topology DEF CopyOK
<1>3. c.at = c.dst[1] /\ c.outPort = c.dst[2] /\ HostPort(c.outPort)
  BY <1>1, <1>2 DEF FlowPort, Uplink, HostPort
<1>4. <<c.at, c.outPort>> = c.dst
  BY <1>2, <1>3, Topology
<1>5. c.rec => Stripped(c)
  BY <1>1, <1>2, <1>3 DEF Stripped
<1>6. c.rec => Body(c) = c.orig
  BY <1>2, <1>5, BodyRecorded
<1>7. ~c.rec => Body(c) = c.orig
  BY BodyUnrecorded
<1>8. QED
  BY <1>4, <1>5, <1>6, <1>7 DEF Copy

\* What arrives at the next switch.
LEMMA NextHopIsInOrder ==
  ASSUME NEW c \in Copy, CopyOK(c), c.stage = "egress", c.rec => SetUp,
         c.outPort # CpuPort, <<c.at, c.outPort>> \notin Host,
         NEW d, d = [c EXCEPT !.at = Peer(c.at, c.outPort)[1],
                         !.inPort = Peer(c.at, c.outPort)[2],
                         !.stage = "ingress", !.inst = "normal", !.outPort = NoPort,
                         !.sink = FALSE, !.rec = c.rec /\ ~Stripped(c), !.n = Pushed(c).n,
                         !.stack = <<>>, !.rest = Body(c), !.trail = Append(@, c.at)]
  PROVE  CopyOK(d) /\ (d.rec => SetUp)
<1>1. /\ c.inst = "normal" /\ c.outPort = FlowPort(c.at, c.dst)
      /\ c.sink => c.at # Spine
  BY QueuedFacts
<1>2. /\ d.src = c.src /\ d.dst = c.dst /\ d.orig = c.orig
      /\ d.at = Peer(c.at, c.outPort)[1] /\ d.inPort = Peer(c.at, c.outPort)[2]
      /\ d.stage = "ingress" /\ d.inst = "normal" /\ d.n = Pushed(c).n /\ d.rest = Body(c)
      /\ d.rec = (c.rec /\ ~Stripped(c))
  BY DEF Copy
<1>3. /\ c.src \in Host /\ c.dst \in Host /\ OnPath(c)
      /\ c.orig \in Seq(Cell) \ {<<>>} /\ c.rec \in BOOLEAN
  BY DEF CopyOK, Copy
<1>4. /\ c.src[1] \in Leaves /\ c.src[1] # Spine /\ c.dst[1] # Spine
      /\ c.dst = <<c.dst[1], c.dst[2]>>
  BY <1>3, Topology
<1>5. \* Not yet where it is going.
      /\ c.src[1] # c.dst[1]
      /\ \/ c.at = c.src[1] /\ d.at = Spine /\ d.inPort = c.src[1] /\ c.outPort = Uplink
         \/ c.at = Spine /\ d.at = c.dst[1] /\ d.inPort = Uplink
  <2>1. c.at # c.dst[1]
    BY <1>1, <1>3, <1>4 DEF FlowPort
  <2>2. QED
    BY <1>1, <1>2, <1>3, <1>4, <2>1 DEF OnPath, FlowPort, Peer
<1>6. OnPath(d)
  BY <1>2, <1>5 DEF OnPath
<1>7. ~Stripped(c) /\ d.rec = c.rec
  BY <1>1, <1>2, <1>3, <1>5 DEF Stripped, HostPort, Uplink
<1>8. PICK a \in Cell, b \in Cell, m \in Cell :
        a = Metric(Spine) /\ b = Metric(c.src[1]) /\ m = Metric(c.at)
  <2>1. Spine \in Nat /\ c.src[1] \in Nat /\ c.at \in Nat
    BY <1>4, <1>5, Topology DEF Spine
  <2>2. QED
    BY <2>1, MetricIsCell
<1>9. Gathered(d) = <<m>> \o Gathered(c) /\ Len(Gathered(d)) = Len(Gathered(c)) + 1
  <2>1. CASE c.at = c.src[1]
    <3>1. Gathered(c) = <<>> /\ Gathered(d) = <<m>>
      BY <1>2, <1>4, <1>5, <1>8, <2>1 DEF Gathered
    <3>2. <<m>> \o <<>> = <<m>> /\ Len(<<m>>) = 1 /\ Len(Gathered(c)) = 0
      BY <2>1, PathCells, GatheredFacts
    <3>3. QED
      BY <3>1, <3>2
  <2>2. CASE c.at = Spine
    <3>1. Gathered(c) = <<b>> /\ Gathered(d) = <<m, b>>
      BY <1>2, <1>4, <1>5, <1>8, <2>2 DEF Gathered
    <3>2. <<m>> \o <<b>> = <<m, b>> /\ Len(Gathered(c)) = 1 /\ Len(<<m, b>>) = 2
      BY <2>2, PathCells, GatheredFacts
    <3>3. QED
      BY <3>1, <3>2
  <2>3. QED
    BY <1>5, <2>1, <2>2
<1>10. ASSUME c.rec
       PROVE  d.n = Len(Gathered(d)) /\ d.rest = Arriving(d) /\ d.at # d.src[1] /\ SetUp
  <2>1. Pushed(c).n = Len(Gathered(c)) + 1 /\ Body(c) = <<m>> \o (Gathered(c) \o c.orig)
    BY <1>7, <1>8, <1>10, BodyRecorded DEF Arriving
  <2>2. <<m>> \o (Gathered(c) \o c.orig) = (<<m>> \o Gathered(c)) \o c.orig
    <3>1. Gathered(c) \in Seq(Cell) /\ c.orig \in Seq(Cell)
      BY GatheredFacts, ArrivingFacts
    <3>2. QED
      BY <3>1, FrontAssociates
  <2>3. QED
    BY <1>2, <1>4, <1>5, <1>7, <1>9, <1>10, <2>1, <2>2, ZenonT(20) DEF Arriving
<1>11. ASSUME ~c.rec PROVE d.rest = Arriving(d)
  BY <1>2, <1>7, <1>11, BodyUnrecorded DEF Arriving
<1>12. QED
  BY <1>2, <1>3, <1>6, <1>7, <1>10, <1>11 DEF CopyOK, Waiting

-----------------------------------------------------------------------------
(***************************************************************************)
(* The inductive invariant.                                                *)
(***************************************************************************)
LEMMA InitTransparency == Init => TransparencyInv
<1> SUFFICES ASSUME Init PROVE TransparencyInv
  OBVIOUS
<1>1. SinkRule(Spine) \notin store \cup tables
  BY InitialRulesAssumption DEF Init
<1>2. RecordingIsSafe
  BY InitialRulesAssumption DEF Init, RecordingIsSafe, Recording, OfTable
<1>3. QED
  BY <1>1, <1>2 DEF Init, TransparencyInv, PayloadIntact, ReportIsPath

\* Copies that are new keep the invariant if they are in order.
LEMMA NewCopiesKeep ==
  ASSUME TransparencyInv, UNCHANGED <<store, tables>>,
         \A c \in copies' \ copies : c.kind = "ip" => CopyOK(c) /\ (c.rec => SetUp),
         PayloadIntact', ReportIsPath'
  PROVE  TransparencyInv'
<1>1. \A c \in copies : c.kind = "ip" => CopyOK(c)
  BY DEF TransparencyInv
<1>2. \A c \in copies' : c.kind = "ip" => CopyOK(c)
  BY <1>1
<1>3. \A c \in copies' : c.kind = "ip" /\ c.rec => SetUp
  BY DEF TransparencyInv, RecordingIsSafe
<1>4. SetUp' = SetUp /\ Recording' = Recording
  BY DEF SetUp, Recording
<1>5. RecordingIsSafe'
  BY <1>3, <1>4 DEF TransparencyInv, RecordingIsSafe
<1>6. QED
  BY <1>2, <1>5 DEF TransparencyInv

LEMMA IngressKeepsTransparency ==
  ASSUME TypeOK, TransparencyInv, NEW c \in copies, Ingress(c)
  PROVE  TransparencyInv'
<1>1. c \in Copy /\ c.stage = "ingress"
  BY DEF TypeOK, Ingress
<1>2. UNCHANGED <<store, tables, delivered, reports>>
  BY DEF Ingress, control, seen
<1>3. PayloadIntact' /\ ReportIsPath'
  BY <1>2 DEF TransparencyInv, PayloadIntact, ReportIsPath
<1>4. CASE c.kind = "ip"
  <2>1. CopyOK(c) /\ c.inPort # CpuPort
    BY <1>1, <1>4, WaitingFacts DEF TransparencyInv
  <2>2. \A d \in copies' \ copies :
          d \in Forwarded(c) \/ (ClonedToCpu(c) /\ d = CpuClone(c))
    BY <2>1 DEF Ingress
  <2>3. \A d \in copies' \ copies : CopyOK(d) /\ (d.rec => SetUp)
    BY <1>1, <1>4, <2>1, <2>2, IngressKeepsCopies DEF TransparencyInv
  <2>4. QED
    BY <1>2, <1>3, <2>3, NewCopiesKeep
<1>5. CASE c.kind # "ip"
  <2>1. CpuClone(c).kind # "ip" /\ PacketOutCopy(c).kind # "ip"
    BY <1>1, <1>5 DEF CpuClone, PacketOutCopy, Parsed, Copy
  <2>2. \A d \in Forwarded(c) : d.kind # "ip"
    BY <1>1, <1>5, ZenonT(30) DEF Forwarded, Parsed, Copy
  <2>3. \A d \in copies' \ copies : d.kind # "ip"
    BY <2>1, <2>2 DEF Ingress
  <2>4. QED
    BY <1>2, <1>3, <2>3, NewCopiesKeep
<1>6. QED
  BY <1>4, <1>5

LEMMA EgressKeepsTransparency ==
  ASSUME TypeOK, TransparencyInv, NEW c \in copies, Egress(c)
  PROVE  TransparencyInv'
<1>1. c \in Copy /\ c.stage = "egress" /\ UNCHANGED <<store, tables>>
  BY DEF TypeOK, Egress, control
<1>2. c.kind = "ip" => CopyOK(c) /\ (c.rec => SetUp)
  BY DEF TransparencyInv, RecordingIsSafe
<1>3. PayloadIntact /\ ReportIsPath
  BY DEF TransparencyInv
<1>4. CASE ToCpu(c)
  <2>1. copies' \subseteq copies /\ UNCHANGED delivered
    BY <1>4 DEF ToCpu
  <2>2. PayloadIntact'
    BY <1>3, <2>1 DEF PayloadIntact
  <2>3. ReportIsPath'
    <3>1. CASE ~c.rec
      BY <1>3, <1>4, <3>1 DEF ToCpu, ReportIsPath
    <3>2. CASE c.rec
      <4>1. PICK cells : cells = ReadRecords(Pushed(c).n, Body(c))
        OBVIOUS
      <4>2. PICK r : r = [pid |-> c.pid, kind |-> c.kind, src |-> c.src, dst |-> c.dst,
                          from |-> c.at, cells |-> cells]
        OBVIOUS
      <4>3. reports' = reports \cup {r}
        BY <1>4, <3>2, <4>1, <4>2 DEF ToCpu
      <4>4. c.kind = "ip" =>
              /\ c.src[1] # c.dst[1] /\ c.at = c.dst[1]
              /\ cells = <<Metric(c.dst[1]), Metric(Spine), Metric(c.src[1])>>
        BY <1>1, <1>2, <1>4, <3>2, <4>1, ClonesReportPath DEF ToCpu
      <4>5. r.kind = "ip" =>
              /\ r.src[1] # r.dst[1] /\ r.from = r.dst[1]
              /\ r.cells = <<Metric(r.dst[1]), Metric(Spine), Metric(r.src[1])>>
        BY <4>2, <4>4
      <4>6. QED
        BY <1>3, <4>3, <4>5 DEF ReportIsPath
    <3>3. QED
      BY <3>1, <3>2
  <2>4. QED
    BY <1>1, <2>1, <2>2, <2>3, NewCopiesKeep
<1>5. CASE DropReplica(c)
  <2>1. copies' \subseteq copies /\ PayloadIntact' /\ ReportIsPath'
    BY <1>3, <1>5 DEF DropReplica, seen, PayloadIntact, ReportIsPath
  <2>2. QED
    BY <1>1, <2>1, NewCopiesKeep
<1>6. CASE ToHost(c)
  <2>1. copies' \subseteq copies /\ UNCHANGED reports
    BY <1>6 DEF ToHost
  <2>2. ReportIsPath'
    BY <1>3, <2>1 DEF ReportIsPath
  <2>3. PICK header, body, host, trail :
          /\ header = (c.rec /\ ~Stripped(c)) /\ body = Body(c)
          /\ host = <<c.at, c.outPort>> /\ trail = Append(c.trail, c.at)
    OBVIOUS
  <2>4. PICK d : d = [pid |-> c.pid, kind |-> c.kind, src |-> c.src, dst |-> c.dst,
                      host |-> host, header |-> header, recorded |-> c.rec, body |-> body,
                      orig |-> c.orig, trail |-> trail]
    OBVIOUS
  <2>5. delivered' = delivered \cup {d}
    BY <1>6, <2>3, <2>4 DEF ToHost
  <2>6. c.kind = "ip" => host = c.dst /\ ~header /\ body = c.orig
    BY <1>1, <1>2, <1>6, <2>3, DeliveryIsIntact DEF ToHost, GoesOut
  <2>7. PayloadIntact'
    BY <1>3, <2>4, <2>5, <2>6 DEF PayloadIntact
  <2>8. QED
    BY <1>1, <2>1, <2>2, <2>7, NewCopiesKeep
<1>7. CASE ToSwitch(c)
  <2>1. PayloadIntact' /\ ReportIsPath'
    BY <1>3, <1>7 DEF ToSwitch, seen, PayloadIntact, ReportIsPath
  <2>2. PICK d : d = [c EXCEPT !.at = Peer(c.at, c.outPort)[1],
                         !.inPort = Peer(c.at, c.outPort)[2],
                         !.stage = "ingress", !.inst = "normal", !.outPort = NoPort,
                         !.sink = FALSE, !.rec = c.rec /\ ~Stripped(c), !.n = Pushed(c).n,
                         !.stack = <<>>, !.rest = Body(c), !.trail = Append(@, c.at)]
    OBVIOUS
  <2>3. d.kind = c.kind
    BY <1>1, <2>2 DEF Copy
  <2>4. \A e \in copies' \ copies : e = d
    BY <1>7, <2>2 DEF ToSwitch
  <2>5. d.kind = "ip" => CopyOK(d) /\ (d.rec => SetUp)
    BY <1>1, <1>2, <1>7, <2>2, <2>3, NextHopIsInOrder DEF ToSwitch, GoesOut
  <2>6. QED
    BY <1>1, <2>1, <2>4, <2>5, NewCopiesKeep
<1>8. QED
  BY <1>4, <1>5, <1>6, <1>7 DEF Egress

LEMMA TrafficKeepsTransparency ==
  ASSUME TypeOK, TransparencyInv, Traffic
  PROVE  TransparencyInv'
<1>1. ASSUME NEW c, Launch(c), c.kind = "ip" => CopyOK(c) /\ (c.rec => SetUp)
      PROVE  TransparencyInv'
  <2>1. /\ UNCHANGED <<store, tables>> /\ PayloadIntact' /\ ReportIsPath'
        /\ \A d \in copies' \ copies : d = c
    BY <1>1 DEF Launch, control, seen, TransparencyInv, PayloadIntact, ReportIsPath
  <2>2. QED
    BY <1>1, <2>1, NewCopiesKeep
<1>2. ASSUME NEW h \in Host, NEW d \in Host, SendIp(h, d) PROVE TransparencyInv'
  <2>1. PICK p \in Payloads : Launch(NewCopy(sent, "ip", h, d, h[1], h[2], FALSE, p))
    BY <1>2 DEF SendIp
  <2>2. p \in Seq(Cell) \ {<<>>}
    BY TopologyAssumption
  <2>3. PICK c : c = NewCopy(sent, "ip", h, d, h[1], h[2], FALSE, p)
    OBVIOUS
  <2>4. /\ c.src = h /\ c.dst = d /\ c.at = h[1] /\ c.inPort = h[2] /\ c.stage = "ingress"
        /\ c.inst = "normal" /\ c.rec = FALSE /\ c.rest = p /\ c.orig = p
    BY <2>3 DEF NewCopy
  <2>5. CopyOK(c)
    BY <2>2, <2>4 DEF CopyOK, OnPath, Waiting, Arriving
  <2>6. QED
    BY <1>1, <2>1, <2>3, <2>4, <2>5
<1>3. ASSUME NEW h \in Host, SendArp(h) PROVE TransparencyInv'
  BY <1>1, <1>3 DEF SendArp, NewCopy
<1>4. ASSUME NEW h \in Host, NEW d \in Host, SendProbe(h, d) PROVE TransparencyInv'
  BY <1>1, <1>4 DEF SendProbe, NewCopy
<1>5. ASSUME NEW s \in Switch, NEW p \in PortsOf(s), PacketOut(s, p) PROVE TransparencyInv'
  BY <1>1, <1>5 DEF PacketOut, NewCopy
<1>6. QED
  BY <1>2, <1>3, <1>4, <1>5 DEF Traffic

LEMMA ControlKeepsTransparency ==
  ASSUME TypeOK, Careful, TransparencyInv, Application \/ Sync
  PROVE  TransparencyInv'
<1>1. SinkRule(Spine) \notin (store \cup tables)' /\ RecordingIsSafe'
  BY ControlStep DEF TransparencyInv
<1>2. UNCHANGED <<copies, seen>>
  BY DEF Application, Sync, SetUpBridging, SetUpMetrics, LearnHost, EnableRecording,
         StopRecording, CleanUp, RemoveGroups, Operate, Write, SyncAdd, SyncRemove
<1>3. QED
  BY <1>1, <1>2 DEF TransparencyInv, seen, PayloadIntact, ReportIsPath

(***************************************************************************)
(* If the operator records only on a fabric that is set up, then for every *)
(* number of leaves and hosts, every payload and every interleaving of     *)
(* packets, rule writes and operations the header is transparent.          *)
(***************************************************************************)
THEOREM Transparency ==
  ASSUME Careful
  PROVE  Spec => []TransparencyInv
<1>1. Init => TransparencyInv
  BY InitTransparency
<1>2. TypeOK /\ TransparencyInv /\ [Next]_vars => TransparencyInv'
  <2> SUFFICES ASSUME TypeOK, TransparencyInv, [Next]_vars PROVE TransparencyInv'
    OBVIOUS
  <2>1. CASE Forward
    BY <2>1, IngressKeepsTransparency, EgressKeepsTransparency DEF Forward
  <2>2. CASE Traffic
    BY <2>2, TrafficKeepsTransparency
  <2>3. CASE Sync \/ Application
    BY <2>3, ControlKeepsTransparency
  <2>4. CASE UNCHANGED vars
    <3>1. UNCHANGED <<store, tables, copies, delivered, reports>>
      BY <2>4 DEF vars
    <3>2. PayloadIntact' /\ ReportIsPath'
      BY <3>1 DEF TransparencyInv, PayloadIntact, ReportIsPath
    <3>3. QED
      BY <3>1, <3>2, NewCopiesKeep
  <2>5. QED
    BY <2>1, <2>2, <2>3, <2>4 DEF Next
<1>3. QED
  BY <1>1, <1>2, TypeCorrect, PTL DEF Spec

(***************************************************************************)
(* Hosts get what was sent to them, and only that.                         *)
(***************************************************************************)
THEOREM PayloadsIntact ==
  ASSUME Careful
  PROVE  Spec => []PayloadIntact
<1>1. TransparencyInv => PayloadIntact
  BY DEF TransparencyInv
<1>2. QED
  BY <1>1, Transparency, PTL

(***************************************************************************)
(* The controller is given full paths, and only those.                     *)
(***************************************************************************)
THEOREM ReportsArePaths ==
  ASSUME Careful
  PROVE  Spec => []ReportIsPath
<1>1. TransparencyInv => ReportIsPath
  BY DEF TransparencyInv
<1>2. QED
  BY <1>1, Transparency, PTL
=============================================================================
