--------------------------- MODULE ForwardingProofs ---------------------------
(***************************************************************************)
(* What is proved of the packets in the networks of the run.py scripts:    *)
(* the network adds nothing to what the script does, so what is proved of  *)
(* Exercise holds of it; what a host receives tells the way it came; it is *)
(* for the host, if hosts and tables are Addressed; and no frame loops, if *)
(* the network is a Tree.                                                  *)
(***************************************************************************)
EXTENDS Forwarding, ExerciseProofs, SequenceTheorems

-----------------------------------------------------------------------------
(***************************************************************************)
(* The network over the script.                                            *)
(***************************************************************************)
LEMMA NetInitIsInit == NetInit => Init
  BY DEF NetInit

LEMMA NetStepIsStep == [NetNext]_allVars => [Next]_vars
<1>1. Deliver => UNCHANGED vars
  BY DEF Deliver, Forward, LearnArp, Answer, Take
<1>2. (\E h, g \in Hosts : Ping(h, g) \/ SendProbe(h, g)) => UNCHANGED vars
  BY DEF Ping, SendProbe
<1>3. Runs \/ ConfigureHosts => Next
  BY DEF Runs, ConfigureHosts, Next, Script
<1>4. UNCHANGED allVars => UNCHANGED vars
  BY DEF allVars
<1>5. QED
  BY <1>1, <1>2, <1>3, <1>4 DEF NetNext

\* A network in which packets travel is brought up, programmed and stopped as
\* Exercise says: what is proved of Spec holds of it.
THEOREM NetRuns == NetSpec => Spec
  BY NetInitIsInit, NetStepIsStep, PTL DEF NetSpec, Spec

-----------------------------------------------------------------------------
(***************************************************************************)
(* What travels: there are packets only once the user has had the prompt   *)
(* of a run.py script, and each is of one of three kinds.                  *)
(***************************************************************************)
IsSequence(q) == \E S : q \in Seq(S)
IsEcho(d) == DOMAIN d = {"kind", "src", "dst", "ttl"} /\ d.ttl = Ttl

IsFrame(f) ==
  /\ DOMAIN f = {"src", "dst", "type", "body", "at", "trail"}
  /\ IsSequence(f.trail)
  /\ f.type \in {"ip", "arp", "probe"}
  /\ f.type = "ip" => DOMAIN f.body = {"kind", "src", "dst", "ttl"}
  /\ f.type = "probe" => DOMAIN f.body = {"records", "data"} /\ IsSequence(f.body.data)

TravelInv ==
  /\ frames # {} \/ pending # {} => IsRunner /\ Prompted /\ setup.talks # {}
  /\ \A w \in pending : IsEcho(w[3])
  /\ \A f \in frames : IsFrame(f) /\ TellsTheWay(f)

NetInv == Inv /\ PromptInv /\ Deployed!ReadyIsComplete /\ TravelInv

LEMMA SetupStays ==
  ASSUME Inv, PromptInv, [Next]_vars
  PROVE  UNCHANGED <<setup, conf>> /\ (Prompted => Prompted')
<1>1. UNCHANGED setup
  BY StepNetwork DEF PromptInv
<1>2. UNCHANGED conf
  BY <1>1, StepInv DEF Inv, Types, LoopInv
<1>3. ASSUME Prompted PROVE Prompted'
  <2>1. CASE UNCHANGED phase
    BY <1>3, <2>1 DEF Prompted
  <2>2. CASE LeaveCli
    BY <2>2 DEF LeaveCli, Prompted
  <2>3. CASE StopSwitch
    BY <2>3 DEF StopSwitch, Advance, Prompted
  <2>4. ~Compile /\ ~ReadTopology /\ ~MakeSwitch /\ ~StartSwitch /\ ~CheckSwitchStarted
    BY <1>3 DEF Compile, ReadTopology, MakeSwitch, StartSwitch, CheckSwitchStarted, Prompted
  <2>5. ~ProgramHosts /\ ~ProgramExerciseSwitch /\ ~CallProgramSwitch /\ ~InProgramSwitch /\ ~ProgramNext
    BY <1>3 DEF ProgramHosts, ProgramExerciseSwitch, CallProgramSwitch, InProgramSwitch, ProgramNext, Prompted
  <2>6. ASSUME NEW s \in Switch, Bind(s) \/ Die(s) \/ RunCli(s) PROVE UNCHANGED phase
    BY <2>6 DEF Bind, Die, RunCli, runnerVars
  <2>7. OtherPrograms \/ UNCHANGED vars => UNCHANGED phase
    BY DEF OtherPrograms, Occupy, Leave, vars, runnerVars
  <2>8. QED
    BY <2>1, <2>2, <2>3, <2>4, <2>5, <2>6, <2>7 DEF Next, Script
<1>4. QED
  BY <1>1, <1>2, <1>3

\* A way told is told whatever the script does.
LEMMA ToldStays ==
  ASSUME UNCHANGED <<setup, conf>>, NEW f, TellsTheWay(f)
  PROVE  TellsTheWay(f)'
<1>1. Routers' = Routers /\ Recorders' = Recorders
  BY DEF Routers, Recorders, InNetwork, Elements
<1>2. \A s : Stage(s, Sends(s))' = Stage(s, Sends(s))
  BY DEF Stage, Sends
<1>3. QED
  BY <1>1, <1>2 DEF TellsTheWay, Since

-----------------------------------------------------------------------------
(***************************************************************************)
(* Counting the switches of a way.                                         *)
(***************************************************************************)
LEMMA MinOfTwo ==
  ASSUME NEW a \in Int, NEW b \in Int
  PROVE  Min({a, b}) = IF a <= b THEN a ELSE b
<1>1. ASSUME NEW m \in {a, b}, \A y \in {a, b} : m <= y PROVE m = IF a <= b THEN a ELSE b
  BY <1>1
<1>2. \E m \in {a, b} : \A y \in {a, b} : m <= y
  OBVIOUS
<1>3. Min({a, b}) \in {a, b} /\ \A y \in {a, b} : Min({a, b}) <= y
  BY <1>2 DEF Min
<1>4. QED
  BY <1>1, <1>3

LEMMA SinceIsNumber ==
  ASSUME NEW f, IsSequence(f.trail), NEW switches, NEW j \in Nat \ {0}
  PROVE  /\ Since(f, j, switches) \in Nat
         /\ Since(f, j, switches) <= Since(f, 1, switches)
         /\ IsFiniteSet({k \in DOMAIN f.trail : k >= j /\ f.trail[k][1] \in switches})
<1> DEFINE Of(i) == {k \in DOMAIN f.trail : k >= i /\ f.trail[k][1] \in switches}
<1>1. DOMAIN f.trail = 1..Len(f.trail) /\ Len(f.trail) \in Nat
  BY DEF IsSequence
<1>2. IsFiniteSet(1..Len(f.trail))
  BY <1>1, FS_Interval
<1>3. IsFiniteSet(Of(1)) /\ Of(j) \subseteq Of(1)
  <2>1. Of(1) \subseteq 1..Len(f.trail)
    BY <1>1
  <2>2. Of(j) \subseteq Of(1)
    BY <1>1
  <2>3. QED
    BY <1>2, <2>1, <2>2, FS_Subset
<1>4. IsFiniteSet(Of(j)) /\ Cardinality(Of(j)) <= Cardinality(Of(1)) /\ Cardinality(Of(j)) \in Nat
  BY <1>3, FS_Subset, FS_CardinalityType
<1>5. QED
  BY <1>4 DEF Since

LEMMA TrailGrows ==
  ASSUME NEW f, IsSequence(f.trail), NEW g, g.trail = Append(f.trail, f.at)
  PROVE  /\ Len(f.trail) \in Nat /\ DOMAIN f.trail = 1..Len(f.trail)
         /\ IsSequence(g.trail) /\ DOMAIN g.trail = 1..(Len(f.trail) + 1)
         /\ g.trail[Len(f.trail) + 1] = f.at
         /\ \A k \in 1..Len(f.trail) : g.trail[k] = f.trail[k]
<1>1. PICK S : f.trail \in Seq(S)
  BY DEF IsSequence
<1>2. f.trail \in Seq(S \cup {f.at})
  BY <1>1
<1>3. g.trail \in Seq(S \cup {f.at})
  BY <1>2
<1>4. Len(g.trail) = Len(f.trail) + 1 /\ Len(f.trail) \in Nat
  BY <1>2
<1>5. QED
  BY <1>2, <1>3, <1>4 DEF IsSequence

LEMMA SinceGrows ==
  ASSUME NEW f, IsSequence(f.trail), NEW g, g.trail = Append(f.trail, f.at),
         NEW switches, NEW j \in Nat \ {0}, j <= Len(f.trail) + 1
  PROVE  Since(g, j, switches) = Since(f, j, switches) + (IF f.at[1] \in switches THEN 1 ELSE 0)
<1> DEFINE Of(q) == {k \in DOMAIN q : k >= j /\ q[k][1] \in switches}
           n == Len(f.trail) + 1
           place == f.at
<1>1. /\ DOMAIN f.trail = 1..(n - 1) /\ n \in Nat \ {0} /\ IsSequence(g.trail)
      /\ DOMAIN g.trail = 1..n /\ g.trail[n] = place
      /\ \A k \in 1..(n - 1) : g.trail[k] = f.trail[k]
  <2>1. /\ Len(f.trail) \in Nat /\ DOMAIN f.trail = 1..Len(f.trail)
        /\ IsSequence(g.trail) /\ DOMAIN g.trail = 1..(Len(f.trail) + 1)
        /\ g.trail[Len(f.trail) + 1] = f.at
        /\ \A k \in 1..Len(f.trail) : g.trail[k] = f.trail[k]
    BY TrailGrows
  <2>2. n \in Nat \ {0} /\ Len(f.trail) = n - 1
    BY <2>1
  <2> HIDE DEF n
  <2>3. QED
    BY <2>1, <2>2 DEF n
<1>2. IsFiniteSet(Of(f.trail)) /\ Cardinality(Of(f.trail)) \in Nat
  BY SinceIsNumber, FS_CardinalityType
<1>3. n \notin Of(f.trail)
  BY <1>1
<1>4. CASE place[1] \in switches
  <2>1. Of(g.trail) = Of(f.trail) \cup {n}
    BY <1>1, <1>4
  <2>2. Cardinality(Of(f.trail) \cup {n}) = Cardinality(Of(f.trail)) + 1
    BY <1>2, <1>3, FS_AddElement
  <2>3. Since(g, j, switches) = Cardinality(Of(g.trail)) /\ Since(f, j, switches) = Cardinality(Of(f.trail))
    BY DEF Since
  <2> HIDE DEF Of
  <2>4. QED
    BY <1>4, <2>1, <2>2, <2>3
<1>5. CASE place[1] \notin switches
  <2>1. Of(g.trail) = Of(f.trail)
    BY <1>1, <1>5
  <2>2. Since(g, j, switches) = Cardinality(Of(g.trail)) /\ Since(f, j, switches) = Cardinality(Of(f.trail))
    BY DEF Since
  <2> HIDE DEF Of
  <2>3. QED
    BY <1>2, <1>5, <2>1, <2>2
<1>6. QED
  BY <1>4, <1>5

LEMMA SinceOfNothing ==
  ASSUME NEW f, NEW switches, NEW j \in Nat,
         \A k \in DOMAIN f.trail : k \in Nat /\ ~(k >= j)
  PROVE  Since(f, j, switches) = 0
<1>1. {k \in DOMAIN f.trail : k >= j /\ f.trail[k][1] \in switches} = {}
  OBVIOUS
<1>2. QED
  BY <1>1, FS_EmptySet DEF Since

LEMMA ModuloSteps ==
  ASSUME NEW n \in Nat
  PROVE  /\ (((Ttl - n) % 256) - 1) % 256 = (Ttl - (n + 1)) % 256
         /\ ((n % 256) + 1) % 256 = (n + 1) % 256
  BY DEF Ttl
-----------------------------------------------------------------------------
(***************************************************************************)
(* What a switch makes of a packet.                                        *)
(***************************************************************************)
Counted(s, f) == IF setup.program[s] \in {"l3", "linear/l3"} THEN (f.body.ttl - 1) % 256 ELSE f.body.ttl
Recorded(s, f) == IF setup.program[s] = "p4-cpu/l2" THEN SetMetrics(s, f).body ELSE f.body

Becomes(s, f, g) ==
  /\ DOMAIN g = DOMAIN f /\ g.trail = f.trail /\ g.type = f.type
  /\ f.type = "ip" => DOMAIN g.body = DOMAIN f.body /\ g.body.ttl = Counted(s, f)
  /\ f.type = "probe" => g.body = Recorded(s, f)

LEMMA ForwardCounts ==
  ASSUME NEW f, IsFrame(f), f.type = "ip", NEW mac, NEW s, setup.program[s] \in {"l3", "linear/l3"}
  PROVE  Becomes(s, f, Ipv4Forward(f, mac))
<1>1. DOMAIN f = {"src", "dst", "type", "body", "at", "trail"} /\ DOMAIN f.body = {"kind", "src", "dst", "ttl"}
  BY DEF IsFrame
<1>2. QED
  BY <1>1 DEF Becomes, Ipv4Forward, Counted

LEMMA Processed ==
  ASSUME NEW s, setup.program[s] \in Programs, NEW p, NEW f, IsFrame(f),
         NEW out \in Process(s, p, f), out[1] # Dropped
  PROVE  Becomes(s, f, out[2])
<1> USE DEF Out
<1>0. DOMAIN f = {"src", "dst", "type", "body", "at", "trail"} /\ f.type \in {"ip", "arp", "probe"}
  BY DEF IsFrame
<1>1. CASE setup.program[s] = "l2"
  <2>1. out[2] = f
    BY <1>1 DEF Process, L2
  <2>2. QED
    BY <1>1, <2>1 DEF Becomes, Counted, Recorded
<1>2. CASE setup.program[s] = "linear/l2"
  <2>1. out[2] = f
    BY <1>2 DEF Process, Bridge
  <2>2. QED
    BY <1>2, <2>1 DEF Becomes, Counted, Recorded
<1>3. CASE setup.program[s] = "p4-cpu/l2"
  <2>1. out[2] = IF f.type = "probe" THEN SetMetrics(s, f) ELSE f
    BY <1>3 DEF Process, CpuL2
  <2>2. CASE f.type = "probe"
    BY <1>0, <1>3, <2>1, <2>2 DEF Becomes, Recorded, SetMetrics
  <2>3. CASE f.type # "probe"
    BY <1>0, <1>3, <2>1, <2>3 DEF Becomes, Counted
  <2>4. QED
    BY <2>2, <2>3
<1>4. CASE setup.program[s] = "l3"
  <2>1. CASE f.type # "ip"
    <3>1. out[2] = f
      BY <1>4, <2>1 DEF Process, L3
    <3>2. QED
      BY <1>4, <2>1, <3>1 DEF Becomes, Recorded
  <2>2. CASE f.type = "ip"
    <3>1. \E mac : out[2] = Ipv4Forward(f, mac)
      BY <1>4, <2>2 DEF Process, L3
    <3>2. QED
      BY <1>4, <2>2, <3>1, ForwardCounts
  <2>3. QED
    BY <2>1, <2>2
<1>5. CASE setup.program[s] = "linear/l3"
  <2>0. out \in Router(s, p, f)
    BY <1>5 DEF Process
  <2>1. CASE f.type = "ip"
    <3>1. \E mac : out[2] = Ipv4Forward(f, mac)
      BY <2>0, <2>1 DEF Router
    <3>2. QED
      BY <1>5, <2>1, <3>1, ForwardCounts
  <2>2. CASE f.type # "ip"
    <3>1. out[2] = f \/ (f.type = "arp" /\ \E mac : out[2] = ArpReply(f, mac))
      BY <2>0, <2>2 DEF Router
    <3>2. QED
      BY <1>0, <1>5, <2>2, <3>1 DEF Becomes, Recorded, ArpReply
  <2>3. QED
    BY <2>1, <2>2
<1>6. QED
  BY <1>1, <1>2, <1>3, <1>4, <1>5 DEF Programs

-----------------------------------------------------------------------------
(***************************************************************************)
(* The records of a probe: the one a switch writes goes on top.            *)
(***************************************************************************)
LEMMA OnTop ==
  ASSUME NEW S, NEW data \in Seq(S), NEW d
  PROVE  /\ <<d>> \o data \in Seq(S \cup {d}) /\ Len(<<d>> \o data) = Len(data) + 1
         /\ (<<d>> \o data)[1] = d
         /\ \A k \in 1..Len(data) : (<<d>> \o data)[k + 1] = data[k]
<1>1. PICK one : one = <<d>>
  OBVIOUS
<1>0. PICK T : T = S \cup {d}
  OBVIOUS
<1>2. data \in Seq(T) /\ one \in Seq(T) /\ Len(one) = 1 /\ one[1] = d
  BY <1>0, <1>1
<1>3. /\ one \o data \in Seq(T) /\ Len(one \o data) = 1 + Len(data)
      /\ \A i \in 1..(1 + Len(data)) : (one \o data)[i] = IF i <= 1 THEN one[i] ELSE data[i - 1]
  <2>1. /\ one \o data \in Seq(T) /\ Len(one \o data) = Len(one) + Len(data)
        /\ \A i \in 1..(Len(one) + Len(data)) :
             (one \o data)[i] = IF i <= Len(one) THEN one[i] ELSE data[i - Len(one)]
    BY <1>2, ConcatProperties, Zenon
  <2>2. QED
    BY <1>2, <2>1, Zenon
<1>4. PICK all : all = one \o data
  OBVIOUS
<1>5. Len(data) \in Nat
  OBVIOUS
<1>6. /\ \A i \in 1..(1 + Len(data)) : all[i] = IF i <= 1 THEN one[i] ELSE data[i - 1]
      /\ all \in Seq(T) /\ Len(all) = Len(data) + 1
  BY <1>3, <1>4, <1>5
<1>7. all[1] = d
  BY <1>2, <1>5, <1>6
<1>8. ASSUME NEW k \in 1..Len(data) PROVE all[k + 1] = data[k]
  <2>1. k + 1 \in 1..(1 + Len(data)) /\ ~(k + 1 <= 1) /\ (k + 1) - 1 = k
    BY <1>5
  <2>2. QED
    BY <1>6, <2>1
<1>9. QED
  BY <1>0, <1>1, <1>4, <1>6, <1>7, <1>8, Zenon

LEMMA Beginning ==
  ASSUME NEW S, NEW all \in Seq(S), NEW m \in 0..Len(all)
  PROVE  /\ SubSeq(all, 1, m) \in Seq(S) /\ Len(SubSeq(all, 1, m)) = m
         /\ \A k \in 1..m : SubSeq(all, 1, m)[k] = all[k]
<1>1. m \in Int /\ \A k \in 1..m : all[k] \in S
  OBVIOUS
<1>2. /\ SubSeq(all, 1, m) \in Seq(S) /\ Len(SubSeq(all, 1, m)) = (IF 1 <= m THEN m - 1 + 1 ELSE 0)
      /\ \A k \in 1..(m - 1 + 1) : SubSeq(all, 1, m)[k] = all[1 + k - 1]
  BY <1>1, SubSeqProperties
<1>3. \A k \in 1..m : k \in 1..(m - 1 + 1) /\ 1 + k - 1 = k
  OBVIOUS
<1>4. QED
  BY <1>2, <1>3

\* How many of n records are kept.
Remembered(n) == Min({n, MaxRec})

LEMMA RecordsKept == ASSUME NEW n \in Nat PROVE Remembered(n) = IF n <= MaxRec THEN n ELSE MaxRec
  BY MinOfTwo DEF Remembered, MaxRec

LEMMA MetricsOnTop ==
  ASSUME NEW s, NEW f, IsFrame(f), f.type = "probe", NEW n \in Nat, Len(f.body.data) = Remembered(n),
         NEW g, g.body = SetMetrics(s, f).body
  PROVE  /\ DOMAIN g.body = {"records", "data"} /\ g.body.records = (f.body.records + 1) % 256
         /\ IsSequence(g.body.data) /\ Len(g.body.data) = Remembered(n + 1)
         /\ g.body.data[1] = DpidAmong(installed[s])
         /\ \A k \in 1..n : k + 1 <= MaxRec => g.body.data[k + 1] = f.body.data[k]
<1>1. PICK d : d = DpidAmong(installed[s])
  OBVIOUS
<1>2. PICK data : data = f.body.data
  OBVIOUS
<1>3. PICK all : all = <<d>> \o data
  OBVIOUS
<1>4. g.body = [records |-> (f.body.records + 1) % 256, data |-> SubSeq(all, 1, Remembered(Len(all)))]
  BY <1>1, <1>2, <1>3 DEF SetMetrics, IsFrame, Remembered
<1>5. PICK S : data \in Seq(S)
  BY <1>2 DEF IsFrame, IsSequence
<1>6. /\ all \in Seq(S \cup {d}) /\ Len(all) = Len(data) + 1 /\ all[1] = d
      /\ \A k \in 1..Len(data) : all[k + 1] = data[k]
  BY <1>3, <1>5, OnTop
<1>7. PICK l \in Nat : l = Len(data)
  BY <1>5
<1>8. PICK m \in Nat : m = IF n + 1 <= MaxRec THEN n + 1 ELSE MaxRec
  BY DEF MaxRec
<1>9. l = IF n <= MaxRec THEN n ELSE MaxRec
  BY <1>2, <1>7, RecordsKept
<1>10. Remembered(n + 1) = m /\ Remembered(Len(all)) = m
  <2>1. Remembered(n + 1) = m
    BY <1>8, RecordsKept
  <2>2. Remembered(l + 1) = IF l + 1 <= MaxRec THEN l + 1 ELSE MaxRec
    BY RecordsKept
  <2>3. (IF l + 1 <= MaxRec THEN l + 1 ELSE MaxRec) = m
    BY <1>8, <1>9 DEF MaxRec
  <2>4. QED
    BY <1>6, <1>7, <2>1, <2>2, <2>3
<1>11. m \in 0..(l + 1) /\ 1 \in 1..m /\ \A k \in 1..n : k + 1 <= MaxRec => k + 1 \in 1..m /\ k \in 1..l
  BY <1>8, <1>9 DEF MaxRec
<1>12. PICK new : new = SubSeq(all, 1, m)
  OBVIOUS
<1>13. new \in Seq(S \cup {d}) /\ Len(new) = m /\ \A k \in 1..m : new[k] = all[k]
  <2>1. m \in 0..Len(all)
    BY <1>6, <1>7, <1>11
  <2>2. /\ SubSeq(all, 1, m) \in Seq(S \cup {d}) /\ Len(SubSeq(all, 1, m)) = m
        /\ \A k \in 1..m : SubSeq(all, 1, m)[k] = all[k]
    BY <1>6, <2>1, Beginning, Zenon
  <2>3. QED
    BY <1>12, <2>2
<1>14. PICK count : count = (f.body.records + 1) % 256
  OBVIOUS
<1>15. g.body = [records |-> count, data |-> new]
  BY <1>4, <1>10, <1>12, <1>14
<1>16. DOMAIN g.body = {"records", "data"} /\ g.body.records = count /\ g.body.data = new
  BY <1>15
<1>17. IsSequence(new) /\ Len(new) = Remembered(n + 1) /\ new[1] = d
  BY <1>6, <1>10, <1>11, <1>13 DEF IsSequence
<1>18. \A k \in 1..n : k + 1 <= MaxRec => new[k + 1] = data[k]
  BY <1>6, <1>7, <1>11, <1>13
<1>19. QED
  BY <1>1, <1>2, <1>14, <1>16, <1>17, <1>18

-----------------------------------------------------------------------------
(***************************************************************************)
(* A switch that forwards a packet adds itself to its way, and to what the *)
(* packet tells of it.                                                     *)
(***************************************************************************)
LEMMA CrossingTells ==
  ASSUME NEW f, IsFrame(f), TellsTheWay(f),
         NEW s, s = f.at[1], s \in InNetwork, installed[s] = Stage(s, Sends(s)),
         NEW h, Becomes(s, f, h),
         NEW g, DOMAIN g = DOMAIN f, g.trail = Append(f.trail, f.at), g.type = h.type, g.body = h.body
  PROVE  IsFrame(g) /\ TellsTheWay(g)
<1> DEFINE n == Len(f.trail) + 1
<1>1. /\ DOMAIN f = {"src", "dst", "type", "body", "at", "trail"}
      /\ g.trail = Append(f.trail, f.at) /\ g.type = f.type /\ g.body = h.body
      /\ DOMAIN g = DOMAIN f
  BY DEF IsFrame, Becomes
<1>2. IsSequence(f.trail)
  BY DEF IsFrame
<1>3. /\ Len(f.trail) \in Nat /\ DOMAIN f.trail = 1..Len(f.trail)
      /\ IsSequence(g.trail) /\ DOMAIN g.trail = 1..n
      /\ g.trail[n] = f.at /\ \A k \in 1..Len(f.trail) : g.trail[k] = f.trail[k]
  BY <1>2, TrailGrows
<1>4. /\ n \in Nat \ {0} /\ DOMAIN f.trail = 1..(n - 1) /\ DOMAIN g.trail = 1..n
      /\ g.trail[n] = f.at /\ \A k \in 1..(n - 1) : g.trail[k] = f.trail[k]
  BY <1>3
<1> HIDE DEF n
<1>5. IsSequence(f.trail) /\ IsSequence(g.trail)
  BY <1>2, <1>3
<1>6. \A j \in 1..n : \A sw :
        /\ Since(g, j, sw) = Since(f, j, sw) + (IF s \in sw THEN 1 ELSE 0)
        /\ Since(f, j, sw) \in Nat /\ Since(f, j, sw) <= Since(f, 1, sw)
  <2> TAKE j \in 1..n
  <2> TAKE sw
  <2>1. j \in Nat \ {0} /\ j <= Len(f.trail) + 1
    BY <1>4 DEF n
  <2>2. Since(g, j, sw) = Since(f, j, sw) + (IF s \in sw THEN 1 ELSE 0)
    BY <1>5, <2>1, SinceGrows
  <2>3. QED
    BY <1>5, <2>1, <2>2, SinceIsNumber
<1>7. \A sw : Since(f, n, sw) = 0
  BY <1>4, SinceOfNothing
<1>8. CASE f.type = "ip"
  <2>1. f.body.ttl = (Ttl - Since(f, 1, Routers)) % 256 /\ h.body.ttl = Counted(s, f)
        /\ DOMAIN h.body = DOMAIN f.body
    BY <1>8 DEF TellsTheWay, Becomes
  <2>2. s \in Routers <=> setup.program[s] \in {"l3", "linear/l3"}
    BY DEF Routers
  <2>3. /\ Since(g, 1, Routers) = Since(f, 1, Routers) + (IF s \in Routers THEN 1 ELSE 0)
        /\ Since(f, 1, Routers) \in Nat
    BY <1>4, <1>6
  <2>4. h.body.ttl = (Ttl - Since(g, 1, Routers)) % 256
    <3>1. CASE s \in Routers
      BY <2>1, <2>2, <2>3, <3>1, ModuloSteps DEF Counted
    <3>2. CASE s \notin Routers
      <4>1. Since(g, 1, Routers) = Since(f, 1, Routers)
        BY <2>3, <3>2
      <4>2. QED
        BY <2>1, <2>2, <3>2, <4>1 DEF Counted
    <3>3. QED
      BY <3>1, <3>2
  <2>5. QED
    BY <1>1, <1>5, <1>8, <2>1, <2>4 DEF IsFrame, TellsTheWay
<1>9. CASE f.type = "probe" /\ s \notin Recorders
  <2>1. g.body = f.body
    BY <1>1, <1>9 DEF Becomes, Recorded, Recorders
  <2>2. \A j \in 1..n : Since(g, j, Recorders) = Since(f, j, Recorders)
    BY <1>6, <1>9
  <2>3. /\ f.body.records = Since(f, 1, Recorders) % 256
        /\ Len(f.body.data) = Min({Since(f, 1, Recorders), MaxRec})
        /\ \A j \in DOMAIN f.trail :
             f.trail[j][1] \in Recorders /\ Since(f, j, Recorders) <= MaxRec =>
               f.body.data[Since(f, j, Recorders)] = DpidAmong(Stage(f.trail[j][1], Sends(f.trail[j][1])))
    BY <1>9 DEF TellsTheWay
  <2>4. ASSUME NEW j \in DOMAIN g.trail, g.trail[j][1] \in Recorders, Since(g, j, Recorders) <= MaxRec
        PROVE  g.body.data[Since(g, j, Recorders)] = DpidAmong(Stage(g.trail[j][1], Sends(g.trail[j][1])))
    <3>1. j \in 1..(n - 1)
      BY <1>4, <1>9, <2>4
    <3>2. j \in 1..n
      BY <1>4, <2>4
    <3>3. QED
      BY <1>4, <2>1, <2>2, <2>3, <2>4, <3>1, <3>2
  <2>5. 1 \in 1..n
    BY <1>4
  <2>6. QED
    BY <1>1, <1>5, <1>9, <2>1, <2>2, <2>3, <2>4, <2>5 DEF IsFrame, TellsTheWay
<1>10. CASE f.type = "probe" /\ s \in Recorders
  <2> DEFINE seen == Since(f, 1, Recorders)
  <2>1. g.body = SetMetrics(s, f).body
    BY <1>1, <1>10 DEF Becomes, Recorded, Recorders
  <2>3. /\ f.body.records = seen % 256 /\ Len(f.body.data) = Remembered(seen)
        /\ \A j \in DOMAIN f.trail :
             f.trail[j][1] \in Recorders /\ Since(f, j, Recorders) <= MaxRec =>
               f.body.data[Since(f, j, Recorders)] = DpidAmong(Stage(f.trail[j][1], Sends(f.trail[j][1])))
    BY <1>10 DEF TellsTheWay, Remembered
  <2>4. seen \in Nat /\ Since(g, 1, Recorders) = seen + 1
    BY <1>4, <1>6, <1>10
  <2> HIDE DEF seen
  <2>6. /\ DOMAIN g.body = {"records", "data"} /\ g.body.records = (f.body.records + 1) % 256
        /\ IsSequence(g.body.data) /\ Len(g.body.data) = Remembered(seen + 1)
        /\ g.body.data[1] = DpidAmong(installed[s])
        /\ \A k \in 1..seen : k + 1 <= MaxRec => g.body.data[k + 1] = f.body.data[k]
    <3>1. f.type = "probe" /\ seen \in Nat /\ Len(f.body.data) = Remembered(seen)
      BY <1>10, <2>3, <2>4
    <3>2. QED
      BY <2>1, <3>1, MetricsOnTop
  <2>7. g.body.records = (seen + 1) % 256
    BY <2>3, <2>4, <2>6, ModuloSteps
  <2>8. ASSUME NEW j \in DOMAIN g.trail, g.trail[j][1] \in Recorders, Since(g, j, Recorders) <= MaxRec
        PROVE  g.body.data[Since(g, j, Recorders)] = DpidAmong(Stage(g.trail[j][1], Sends(g.trail[j][1])))
    <3>1. j \in 1..n /\ Since(g, j, Recorders) = Since(f, j, Recorders) + 1 /\ Since(f, j, Recorders) \in Nat
          /\ Since(f, j, Recorders) <= seen
      BY <1>4, <1>6, <1>10, <2>8 DEF seen
    <3>2. CASE j = n
      BY <1>4, <1>7, <2>6, <3>1, <3>2
    <3>3. CASE j # n
      <4>1. j \in 1..(n - 1) /\ g.trail[j] = f.trail[j] /\ j \in DOMAIN f.trail
        BY <1>4, <3>1, <3>3
      <4>2. Since(f, j, Recorders) <= MaxRec /\ Since(f, j, Recorders) + 1 <= MaxRec
        BY <2>8, <3>1 DEF MaxRec
      <4>3. Since(f, j, Recorders) \in 1..seen
        <5>1. Since(f, j, Recorders) # 0
          <6>1. j \in {k \in DOMAIN f.trail : k >= j /\ f.trail[k][1] \in Recorders}
            BY <2>8, <4>1
          <6>2. IsFiniteSet({k \in DOMAIN f.trail : k >= j /\ f.trail[k][1] \in Recorders})
            <7>1. j \in Nat \ {0}
              BY <1>4, <4>1
            <7>2. QED
              BY <1>5, <7>1, SinceIsNumber
          <6>3. QED
            BY <6>1, <6>2, FS_EmptySet DEF Since
        <5>2. QED
          BY <2>4, <3>1, <5>1
      <4>4. QED
        BY <2>3, <2>6, <2>8, <3>1, <4>1, <4>2, <4>3
    <3>4. QED
      BY <3>2, <3>3
  <2>9. QED
    BY <1>1, <1>5, <1>10, <2>4, <2>6, <2>7, <2>8 DEF IsFrame, TellsTheWay, Remembered
<1>11. CASE f.type = "arp"
  BY <1>1, <1>5, <1>11 DEF IsFrame, TellsTheWay
<1>12. QED
  BY <1>8, <1>9, <1>10, <1>11 DEF IsFrame

-----------------------------------------------------------------------------
(***************************************************************************)
(* Every step keeps what travels.                                          *)
(***************************************************************************)
LEMMA NewIsTold ==
  ASSUME NEW h, NEW dst, NEW type \in {"ip", "arp", "probe"}, NEW body,
         type = "ip" => IsEcho(body),
         type = "probe" => body = [records |-> 0, data |-> <<>>]
  PROVE  IsFrame(Frame(h, dst, type, body)) /\ TellsTheWay(Frame(h, dst, type, body))
<1>1. PICK f : f = Frame(h, dst, type, body)
  OBVIOUS
<1>2. /\ DOMAIN f = {"src", "dst", "type", "body", "at", "trail"}
      /\ f.type = type /\ f.body = body /\ f.trail = <<>>
  BY <1>1 DEF Frame
<1>3. f.trail \in Seq({}) /\ DOMAIN f.trail = {}
  BY <1>2
<1>4. \A sw : Since(f, 1, sw) = 0
  BY <1>3, SinceOfNothing
<1>5. CASE type = "ip"
  <2>1. DOMAIN body = {"kind", "src", "dst", "ttl"} /\ body.ttl = Ttl
    BY <1>5 DEF IsEcho
  <2>2. Ttl = (Ttl - 0) % 256
    BY DEF Ttl
  <2>3. QED
    BY <1>1, <1>2, <1>3, <1>4, <1>5, <2>1, <2>2 DEF IsFrame, IsSequence, TellsTheWay
<1>6. CASE type = "probe"
  <2>1. DOMAIN body = {"records", "data"} /\ body.records = 0 /\ body.data = <<>>
    BY <1>6
  <2>2. body.data \in Seq({}) /\ Len(body.data) = 0
    BY <2>1
  <2>3. Min({0, MaxRec}) = 0 /\ 0 % 256 = 0
    BY MinOfTwo DEF MaxRec
  <2>4. QED
    BY <1>1, <1>2, <1>3, <1>4, <1>6, <2>1, <2>2, <2>3 DEF IsFrame, IsSequence, TellsTheWay
<1>7. CASE type = "arp"
  BY <1>1, <1>2, <1>3, <1>7 DEF IsFrame, IsSequence, TellsTheWay
<1>8. QED
  BY <1>5, <1>6, <1>7

LEMMA SentIsTold ==
  ASSUME NEW h, NEW d, IsEcho(d)
  PROVE  /\ \A f \in Sent(h, d) : IsFrame(f) /\ TellsTheWay(f)
         /\ \A w \in Waits(h, d) : w[3] = d
<1>1. \A ip : IsFrame(ArpRequest(h, ip)) /\ TellsTheWay(ArpRequest(h, ip))
  BY NewIsTold DEF ArpRequest
<1>2. \A mac : IsFrame(Frame(h, mac, "ip", d)) /\ TellsTheWay(Frame(h, mac, "ip", d))
  BY NewIsTold
<1>3. QED
  BY <1>1, <1>2 DEF Sent, Waits

LEMMA EchoIsEcho == \A from, to, kind : IsEcho(Echo(from, to, kind))
  BY DEF IsEcho, Echo

\* A switch that forwards is in the network, runs one of the programs and holds
\* what its configuration calls for.
LEMMA ForwarderIsProgrammed ==
  ASSUME NetInv, frames # {}, NEW s \in pipeline
  PROVE  s \in InNetwork /\ setup.program[s] \in Programs /\ installed[s] = Stage(s, Sends(s))
<1>1. IsRunner /\ Prompted /\ setup.talks # {} /\ Inv /\ PromptInv /\ Deployed!ReadyIsComplete
  BY DEF NetInv, TravelInv
<1>2. Types /\ ProcessInv /\ setup \in Setups /\ s \in serving /\ s \in Switch
  BY <1>1 DEF Inv, Types, TypeOK, LoopInv
<1>3. process[s] = "serving"
  BY <1>2 DEF ProcessInv
<1>4. s \in InNetwork
  BY <1>1, <1>2, <1>3 DEF PromptInv
<1>5. setup.program[s] \in Programs
  BY <1>1, <1>2, <1>4, ForwardingAssumption DEF InNetwork
<1>6. installed[s] = Stage(s, Sends(s))
  BY <1>1, <1>2, PromptedIsProgrammed
<1>7. QED
  BY <1>4, <1>5, <1>6

LEMMA ForwarderHolds ==
  ASSUME NetInv, frames # {}, NEW s \in pipeline
  PROVE  s \in InNetwork /\ setup.program[s] \in Programs /\ installed[s] = Contents(setup, s)
<1>1. s \in InNetwork /\ setup.program[s] \in Programs /\ installed[s] = Stage(s, Sends(s))
  BY ForwarderIsProgrammed
<1>2. conf = setup.conf
  BY DEF NetInv, TravelInv, Inv, Types, LoopInv
<1>3. QED
  BY <1>1, <1>2 DEF Stage, Sends, Contents

LEMMA ForwardTells ==
  ASSUME NetInv, NEW f \in frames, Forward(f)
  PROVE  \A g \in frames' : IsFrame(g) /\ TellsTheWay(g)
<1> SUFFICES ASSUME NEW g \in frames', g \notin frames PROVE IsFrame(g) /\ TellsTheWay(g)
  BY DEF NetInv, TravelInv
<1>1. f.at[1] \in pipeline /\ IsFrame(f) /\ TellsTheWay(f)
  BY DEF Forward, NetInv, TravelInv
<1>2. PICK s : s = f.at[1]
  OBVIOUS
<1>3. s \in InNetwork /\ setup.program[s] \in Programs /\ installed[s] = Stage(s, Sends(s))
  BY <1>1, <1>2, ForwarderIsProgrammed
<1>4. PICK out \in Process(s, f.at[2], f) : g \in Crossing(f.at, out)
  BY <1>2 DEF Forward
<1>5. PICK to : out[1] # Dropped /\ g = [out[2] EXCEPT !.at = to, !.trail = Append(@, f.at)]
  BY <1>4 DEF Crossing
<1>6. Becomes(s, f, out[2])
  BY <1>1, <1>3, <1>4, <1>5, Processed
<1>7. PICK h : h = out[2]
  OBVIOUS
<1>8. /\ DOMAIN f = {"src", "dst", "type", "body", "at", "trail"}
      /\ DOMAIN h = DOMAIN f /\ h.trail = f.trail
  BY <1>1, <1>6, <1>7 DEF IsFrame, Becomes
<1>9. DOMAIN g = DOMAIN f /\ g.trail = Append(f.trail, f.at) /\ g.type = h.type /\ g.body = h.body
  BY <1>5, <1>7, <1>8
<1>10. QED
  BY <1>1, <1>2, <1>3, <1>6, <1>7, <1>9, CrossingTells

LEMMA HostTells ==
  ASSUME NetInv, NEW f \in frames, NEW h, LearnArp(h, f) \/ Answer(h, f) \/ Take(h, f)
  PROVE  /\ \A g \in frames' : IsFrame(g) /\ TellsTheWay(g)
         /\ \A w \in pending' : IsEcho(w[3])
<1>1. /\ \A g \in frames : IsFrame(g) /\ TellsTheWay(g)
      /\ \A w \in pending : IsEcho(w[3])
  BY DEF NetInv, TravelInv
<1>2. CASE LearnArp(h, f)
  <2>1. \A w \in pending : LET g == Frame(h, f.body.sha, "ip", w[3]) IN IsFrame(g) /\ TellsTheWay(g)
    BY <1>1, NewIsTold
  <2>2. QED
    BY <1>1, <1>2, <2>1 DEF LearnArp
<1>3. CASE Answer(h, f)
  <2> DEFINE d == Echo(H[h].ip, f.body.src, "reply")
  <2>1. /\ \A g \in Sent(h, d) : IsFrame(g) /\ TellsTheWay(g)
        /\ \A w \in Waits(h, d) : IsEcho(w[3])
    BY EchoIsEcho, SentIsTold
  <2>2. QED
    BY <1>1, <1>3, <2>1 DEF Answer
<1>4. CASE Take(h, f)
  BY <1>1, <1>4 DEF Take
<1>5. QED
  BY <1>2, <1>3, <1>4

LEMMA TalkTells ==
  ASSUME NetInv, NEW h, NEW g, Ping(h, g) \/ SendProbe(h, g)
  PROVE  /\ \A f \in frames' : IsFrame(f) /\ TellsTheWay(f)
         /\ \A w \in pending' : IsEcho(w[3])
         /\ IsRunner /\ Prompted /\ setup.talks # {}
<1>1. /\ \A f \in frames : IsFrame(f) /\ TellsTheWay(f)
      /\ \A w \in pending : IsEcho(w[3])
  BY DEF NetInv, TravelInv
<1>2. IsRunner /\ Prompted /\ setup.talks # {}
  BY DEF Ping, SendProbe, May, Prompted
<1>3. CASE Ping(h, g)
  <2> DEFINE d == Echo(H[h].ip, H[g].ip, "request")
  <2>1. /\ \A f \in Sent(h, d) : IsFrame(f) /\ TellsTheWay(f)
        /\ \A w \in Waits(h, d) : IsEcho(w[3])
    BY EchoIsEcho, SentIsTold
  <2>2. QED
    BY <1>1, <1>2, <1>3, <2>1 DEF Ping
<1>4. CASE SendProbe(h, g)
  <2>1. LET f == Frame(h, H[g].mac, "probe", [records |-> 0, data |-> <<>>])
        IN  IsFrame(f) /\ TellsTheWay(f)
    BY NewIsTold
  <2>2. QED
    BY <1>1, <1>2, <1>4, <2>1 DEF SendProbe
<1>5. QED
  BY <1>3, <1>4

LEMMA InitTravel == NetInit => TravelInv
  BY DEF NetInit, TravelInv

LEMMA StepTravel == NetInv /\ [NetNext]_allVars => TravelInv'
<1> SUFFICES ASSUME NetInv, [NetNext]_allVars PROVE TravelInv'
  OBVIOUS
<1>1. [Next]_vars /\ Inv /\ PromptInv
  BY NetStepIsStep DEF NetInv
<1>2. UNCHANGED <<setup, conf>> /\ (Prompted => Prompted')
  BY <1>1, SetupStays
<1>3. IsRunner' <=> IsRunner
  BY <1>2 DEF IsRunner
<1>4. ASSUME \A f \in frames' : IsFrame(f) /\ TellsTheWay(f),
             \A w \in pending' : IsEcho(w[3]),
             frames' # {} \/ pending' # {} => IsRunner /\ Prompted /\ setup.talks # {}
      PROVE  TravelInv'
  <2>1. \A f \in frames' : TellsTheWay(f)'
    BY <1>2, <1>4, ToldStays
  <2>2. frames' # {} \/ pending' # {} => IsRunner' /\ Prompted' /\ setup'.talks # {}
    BY <1>2, <1>3, <1>4
  <2>3. QED
    BY <1>4, <2>1, <2>2 DEF TravelInv
<1>5. CASE UNCHANGED <<frames, pending>>
  BY <1>4, <1>5 DEF NetInv, TravelInv
<1>6. CASE Deliver
  <2>1. PICK f \in frames : Forward(f) \/ \E h \in Hosts : LearnArp(h, f) \/ Answer(h, f) \/ Take(h, f)
    BY <1>6 DEF Deliver
  <2>2. IsRunner /\ Prompted /\ setup.talks # {}
    BY DEF NetInv, TravelInv
  <2>3. CASE Forward(f)
    <3>1. \A g \in frames' : IsFrame(g) /\ TellsTheWay(g)
      BY <2>3, ForwardTells
    <3>2. \A w \in pending' : IsEcho(w[3])
      BY <2>3 DEF Forward, NetInv, TravelInv
    <3>3. QED
      BY <1>4, <2>2, <3>1, <3>2
  <2>4. ASSUME NEW h \in Hosts, LearnArp(h, f) \/ Answer(h, f) \/ Take(h, f)
        PROVE  TravelInv'
    BY <1>4, <2>2, <2>4, HostTells
  <2>5. QED
    BY <2>1, <2>3, <2>4
<1>7. ASSUME NEW h \in Hosts, NEW g \in Hosts, Ping(h, g) \/ SendProbe(h, g)
      PROVE  TravelInv'
  BY <1>4, <1>7, TalkTells
<1>8. Runs \/ ConfigureHosts \/ UNCHANGED allVars => UNCHANGED <<frames, pending>>
  BY DEF Runs, ConfigureHosts, allVars, netVars
<1>9. QED
  BY <1>5, <1>6, <1>7, <1>8 DEF NetNext

LEMMA NetAlways == NetSpec => []NetInv
<1>1. NetInit => Inv /\ PromptInv /\ TravelInv
  BY NetInitIsInit, InitInv, InitPrompt, InitTravel
<1>2. NetSpec => []Deployed!ReadyIsComplete
  BY NetRuns, ReadySwitches, PTL
<1>3. NetInv /\ [NetNext]_allVars => Inv' /\ PromptInv' /\ TravelInv'
  BY NetStepIsStep, StepInv, StepPrompt, StepTravel DEF NetInv
<1>4. NetInv <=> Inv /\ PromptInv /\ TravelInv /\ Deployed!ReadyIsComplete
  BY DEF NetInv
<1>5. QED
  BY <1>1, <1>2, <1>3, <1>4, PTL DEF NetSpec

\* What a host receives tells the way it came: the TTL of a datagram how many
\* routers sent it on, and a probe the dpids, as the configurations give them,
\* of the switches it came through, as many as there is room for.  This is so in
\* every network, whatever its size, its tables and the order things happen in.
THEOREM ArrivalsTell == NetSpec => []ArrivalsTellTheWay
<1>1. NetInit => ArrivalsTellTheWay
  BY DEF NetInit, ArrivalsTellTheWay
<1>2. NetInv /\ ArrivalsTellTheWay /\ [NetNext]_allVars => ArrivalsTellTheWay'
  <2> SUFFICES ASSUME NetInv, ArrivalsTellTheWay, [NetNext]_allVars, NEW f \in got'
               PROVE  TellsTheWay(f)'
    BY DEF ArrivalsTellTheWay
  <2>1. UNCHANGED <<setup, conf>>
    BY NetStepIsStep, SetupStays DEF NetInv
  <2>2. f \in got \cup frames
    <3>1. Deliver => got' \subseteq got \cup frames
      BY DEF Deliver, Forward, LearnArp, Answer, Take, Taken
    <3>2. Runs \/ ConfigureHosts \/ UNCHANGED allVars => UNCHANGED got
      BY DEF Runs, ConfigureHosts, allVars, netVars
    <3>3. (\E h, g \in Hosts : Ping(h, g) \/ SendProbe(h, g)) => UNCHANGED got
      BY DEF Ping, SendProbe
    <3>4. QED
      BY <3>1, <3>2, <3>3 DEF NetNext
  <2>3. TellsTheWay(f)
    BY <2>2 DEF NetInv, TravelInv, ArrivalsTellTheWay
  <2>4. QED
    BY <2>1, <2>3, ToldStays
<1>3. QED
  BY <1>1, <1>2, NetAlways, PTL DEF NetSpec
-----------------------------------------------------------------------------
(***************************************************************************)
(* Where frames end up.  In a network whose tables and hosts are Addressed *)
(* every address a frame carries, a host knows or a switch puts in is its  *)
(* owner's, so that the last switch's port is that of the right host.      *)
(***************************************************************************)
Addresses(f) ==
  /\ f.src # MulticastMac /\ f.dst # MulticastMac
  /\ f.type = "ip" => /\ {f.body.src, f.body.dst} \subseteq Ips(setup)
                      /\ NobodyElses(setup, f.body.dst, f.dst)
  /\ f.type = "arp" => /\ Owned(setup, f.body.spa, f.body.sha)
                       /\ f.body.op = "request" => f.body.tpa \in Askable(setup)

ArrivesRight(f) == \A h : f.at = <<h, NoPort>> => h \in HostNames /\ ForHost(h, f)

StrayInv ==
  /\ DOMAIN arp = Hosts
  /\ \A h \in Hosts : \A e \in arp[h] : IsRunner /\ Owned(setup, e[1], e[2])
  /\ \A w \in pending : /\ w[1] \in HostNames /\ w[2] = NextHop(w[1], w[3].dst)
                        /\ {w[3].src, w[3].dst} \subseteq Ips(setup)
  /\ \A f \in frames : Addresses(f) /\ ArrivesRight(f)
  /\ \A f \in got : ForHost(f.at[1], f)

LEMMA RunnerAddressed ==
  ASSUME AllAddressed, Inv, IsRunner
  PROVE  Addressed(setup) /\ Wired(setup) /\ HostsAddressed(setup) /\ HostNames \subseteq Hosts
<1>1. setup \in Setups
  BY DEF Inv, Types, LoopInv
<1>2. Addressed(setup) /\ Wired(setup)
  BY <1>1, ForwardingAssumption DEF AllAddressed, IsRunner
<1>3. HostNames \subseteq Hosts
  BY <1>1, ForwardingAssumption DEF HostNames, H
<1>4. QED
  BY <1>2, <1>3 DEF Addressed

\* The owner of the next hop's address is the next hop.
LEMMA NextHopIsNobodyElse ==
  ASSUME HostsAddressed(setup), NEW h \in HostNames, NEW ip \in Ips(setup),
         NEW mac, Owned(setup, NextHop(h, ip), mac)
  PROVE  NobodyElses(setup, ip, mac)
<1>1. CASE NextHop(h, ip) = ip
  BY <1>1 DEF Owned
<1>2. CASE NextHop(h, ip) = H[h].gateway
  <2>1. H[h].gateway \notin Ips(setup)
    BY DEF HostsAddressed, HostNames, H
  <2>2. NobodyElses(setup, H[h].gateway, mac)
    BY <1>2 DEF Owned
  <2>3. \A g \in DOMAIN setup.hosts : mac # setup.hosts[g].mac
    BY <2>1, <2>2 DEF NobodyElses, Ips
  <2>4. QED
    BY <2>2, <2>3 DEF NobodyElses
<1>3. QED
  BY <1>1, <1>2 DEF NextHop

LEMMA HopIsAskable ==
  ASSUME NEW h \in HostNames, NEW ip \in Ips(setup)
  PROVE  NextHop(h, ip) \in Askable(setup)
  BY DEF NextHop, Askable, HostNames, H

\* A frame starts at its host's switch.
LEMMA StartsRight ==
  ASSUME Wired(setup), HostsAddressed(setup), NEW h \in HostNames, NEW dst, NEW type, NEW body
  PROVE  ArrivesRight(Frame(h, dst, type, body)) /\ H[h].mac # MulticastMac
<1>1. H[h].at[2] # NoPort /\ Owned(setup, H[h].ip, H[h].mac)
  BY DEF Wired, HostsAddressed, HostNames, H
<1>2. Frame(h, dst, type, body).at = H[h].at
  BY DEF Frame
<1>3. QED
  BY <1>1, <1>2 DEF ArrivesRight, Owned, NobodyElses

LEMMA ReleasedRight ==
  ASSUME Wired(setup), HostsAddressed(setup), NEW h \in HostNames, NEW d, {d.src, d.dst} \subseteq Ips(setup),
         NEW mac, Owned(setup, NextHop(h, d.dst), mac)
  PROVE  Addresses(Frame(h, mac, "ip", d)) /\ ArrivesRight(Frame(h, mac, "ip", d))
<1>1. NobodyElses(setup, d.dst, mac)
  BY NextHopIsNobodyElse
<1>2. mac # MulticastMac
  BY <1>1 DEF NobodyElses
<1>3. PICK f : f = Frame(h, mac, "ip", d)
  OBVIOUS
<1>4. f.src = H[h].mac /\ f.dst = mac /\ f.type = "ip" /\ f.body = d
  BY <1>3 DEF Frame
<1>5. ArrivesRight(f) /\ H[h].mac # MulticastMac
  BY <1>3, StartsRight
<1>6. QED
  BY <1>1, <1>2, <1>3, <1>4, <1>5 DEF Addresses

LEMMA SentRight ==
  ASSUME Wired(setup), HostsAddressed(setup), NEW h \in HostNames \cap Hosts,
         \A e \in arp[h] : Owned(setup, e[1], e[2]),
         NEW d, {d.src, d.dst} \subseteq Ips(setup)
  PROVE  /\ \A f \in Sent(h, d) : Addresses(f) /\ ArrivesRight(f)
         /\ \A w \in Waits(h, d) : w = <<h, NextHop(h, d.dst), d>>
<1>1. PICK hop : hop = NextHop(h, d.dst)
  OBVIOUS
<1>2. hop \in Askable(setup)
  BY <1>1, HopIsAskable
<1>3. Owned(setup, H[h].ip, H[h].mac)
  BY DEF HostsAddressed, HostNames, H
<1>4. Addresses(ArpRequest(h, hop)) /\ ArrivesRight(ArpRequest(h, hop))
  <2>1. PICK body : body = [op |-> "request", sha |-> H[h].mac, spa |-> H[h].ip, tha |-> <<>>, tpa |-> hop]
    OBVIOUS
  <2>2. PICK f : f = Frame(h, Broadcast, "arp", body)
    OBVIOUS
  <2>3. f = ArpRequest(h, hop)
    BY <2>1, <2>2 DEF ArpRequest
  <2>4. f.src = H[h].mac /\ f.dst = Broadcast /\ f.type = "arp" /\ f.body = body
    BY <2>2 DEF Frame
  <2>5. Broadcast # MulticastMac
    BY DEF Broadcast, MulticastMac
  <2>6. ArrivesRight(f) /\ H[h].mac # MulticastMac
    BY <2>2, StartsRight
  <2>7. Addresses(f)
    BY <1>2, <1>3, <2>1, <2>4, <2>5, <2>6 DEF Addresses
  <2>8. QED
    BY <2>3, <2>6, <2>7
<1>5. ASSUME NEW mac \in Known(h, hop)
      PROVE  Addresses(Frame(h, mac, "ip", d)) /\ ArrivesRight(Frame(h, mac, "ip", d))
  <2>1. Owned(setup, hop, mac)
    BY <1>5 DEF Known
  <2>2. QED
    BY <1>1, <2>1, ReleasedRight
<1>6. QED
  BY <1>1, <1>4, <1>5 DEF Sent, Waits

-----------------------------------------------------------------------------
(***************************************************************************)
(* What a switch makes of addresses, and the last port of a way.           *)
(***************************************************************************)
LEMMA FarIsHost ==
  ASSUME Wired(setup), NEW end, NEW h, <<h, NoPort>> \in Far(end)
  PROVE  h \in HostNames /\ H[h].at = end
<1>1. PICK w \in Wires : end \in w /\ <<h, NoPort>> \in w /\ <<h, NoPort>> # end
  BY DEF Far
<1>2. PICK to : to = <<h, NoPort>>
  OBVIOUS
<1>3. to[1] = h /\ to[2] = NoPort
  BY <1>2
<1>4. w \notin setup.links
  BY <1>1, <1>2, <1>3 DEF Wired
<1>5. PICK g \in HostNames : w = {H[g].at, <<g, NoPort>>}
  BY <1>1, <1>4 DEF Wires
<1>6. H[g].at[2] # NoPort
  BY DEF Wired, HostNames, H
<1>7. to = <<g, NoPort>>
  BY <1>1, <1>2, <1>3, <1>5, <1>6
<1>8. g = h
  BY <1>3, <1>7
<1>9. end = H[g].at
  BY <1>1, <1>2, <1>5, <1>7
<1>10. QED
  BY <1>8, <1>9

Reaches(s, port, f) == \A h \in HostNames : H[h].at = <<s, port>> => ForHost(h, f)

LEMMA OwnMacReaches ==
  ASSUME NEW f, Addresses(f), IsFrame(f), NEW s, NEW port,
         \A h \in HostNames : H[h].at = <<s, port>> => f.dst = H[h].mac
  PROVE  Reaches(s, port, f)
<1>1. f.type = "ip" => \A h \in HostNames : f.dst = H[h].mac => f.body.dst = H[h].ip
  BY DEF Addresses, NobodyElses, HostNames, H
<1>2. QED
  BY <1>1 DEF Reaches, ForHost

\* The port a frame leaves by is its owner's or no host's.
LEMMA TableReaches ==
  ASSUME NEW s, NEW table, NEW own, SwitchAddressed(setup, s, table, own),
         installed[s] = Contents(setup, s), NEW f, Addresses(f), IsFrame(f),
         NEW port, port = PortOf(ExactMatch(installed[s], table, "dstAddr", f.dst, own))
  PROVE  Reaches(s, port, f)
<1>1. PICK entries : entries = Contents(setup, s)
  OBVIOUS
<1> DEFINE hits == {e \in EntriesIn(entries, table) : e.key[2]["dstAddr"] = <<f.dst>>}
<1>2. port = PortOf(IF hits = {} THEN DefaultAmong(entries, table, own) ELSE (CHOOSE e \in hits : TRUE).does)
  BY <1>1 DEF ExactMatch
<1>3. ASSUME NEW h \in HostNames, H[h].at = <<s, port>> PROVE f.dst = H[h].mac
  <2>1. H[h].at[1] = s /\ H[h].at[2] = port
    BY <1>3
  <2>2. /\ PortOf(DefaultAmong(entries, table, own)) # port
        /\ \A e \in EntriesIn(entries, table) : PortOf(e.does) = port => e.key[2].dstAddr = <<H[h].mac>>
    BY <1>1, <2>1 DEF SwitchAddressed, HostNames, H
  <2>3. hits # {}
    BY <1>2, <2>2
  <2>4. PICK e \in hits : port = PortOf(e.does)
    <3>1. (CHOOSE e \in hits : TRUE) \in hits
      BY <2>3
    <3>2. QED
      BY <1>2, <2>3, <3>1
  <2>5. <<f.dst>> = <<H[h].mac>>
    BY <2>2, <2>4
  <2>6. QED
    BY <2>5
<1>4. QED
  BY <1>3, OwnMacReaches

LEMMA ForwardAddresses ==
  ASSUME NEW f, IsFrame(f), Addresses(f), f.type = "ip", NEW mac, NobodyElses(setup, f.body.dst, mac)
  PROVE  Addresses(Ipv4Forward(f, mac)) /\ IsFrame(Ipv4Forward(f, mac)) /\ Ipv4Forward(f, mac).dst = mac
<1>1. DOMAIN f = {"src", "dst", "type", "body", "at", "trail"} /\ DOMAIN f.body = {"kind", "src", "dst", "ttl"}
  BY DEF IsFrame
<1>2. PICK g : g = Ipv4Forward(f, mac)
  OBVIOUS
<1>3. /\ g.src = f.dst /\ g.dst = mac /\ g.type = "ip" /\ g.trail = f.trail /\ DOMAIN g = DOMAIN f
      /\ DOMAIN g.body = DOMAIN f.body /\ g.body.src = f.body.src /\ g.body.dst = f.body.dst
  BY <1>1, <1>2 DEF Ipv4Forward
<1>4. mac # MulticastMac
  BY DEF NobodyElses
<1>5. Addresses(g)
  BY <1>3, <1>4 DEF Addresses
<1>6. IsFrame(g)
  BY <1>1, <1>3 DEF IsFrame
<1>7. QED
  BY <1>2, <1>3, <1>5, <1>6

LEMMA ReplyAddresses ==
  ASSUME NEW f, IsFrame(f), Addresses(f), f.type = "arp", NEW mac, Owned(setup, f.body.tpa, mac)
  PROVE  Addresses(ArpReply(f, mac))
<1>1. DOMAIN f = {"src", "dst", "type", "body", "at", "trail"}
  BY DEF IsFrame
<1>2. PICK g : g = ArpReply(f, mac)
  OBVIOUS
<1>3. /\ g.src = mac /\ g.dst = f.src /\ g.type = "arp"
      /\ g.body.op = "reply" /\ g.body.spa = f.body.tpa /\ g.body.sha = mac
  BY <1>1, <1>2 DEF ArpReply
<1>4. mac # MulticastMac
  BY DEF Owned, NobodyElses
<1>5. QED
  BY <1>2, <1>3, <1>4 DEF Addresses

LEMMA L3Reaches ==
  ASSUME NEW s, L3Addressed(setup, s), Wired(setup), installed[s] = Contents(setup, s),
         NEW p, NEW f, IsFrame(f), Addresses(f), NEW out \in L3(s, p, f), out[1] # Dropped
  PROVE  Addresses(out[2]) /\ Reaches(s, out[1], out[2])
<1>1. CASE f.type # "ip"
  <2>1. out[1] = 0 /\ out[2] = f
    BY <1>1 DEF L3, Out
  <2>2. ASSUME NEW h \in HostNames PROVE H[h].at # <<s, 0>>
    BY DEF Wired, HostNames, H, NoPort
  <2>3. QED
    BY <2>1, <2>2 DEF Reaches
<1>2. CASE f.type = "ip"
  <2>1. PICK does : does = LongestPrefix(Contents(setup, s), "L3_Ingress.ipv4_lpm", "dstAddr", f.body.dst, Drop("L3_Ingress"))
    OBVIOUS
  <2>2. out = <<PortOf(does), IF PortOf(does) = Dropped THEN f ELSE Ipv4Forward(f, does[2].dstAddr)>>
    BY <1>2, <2>1 DEF L3, Out
  <2>3. out[1] = PortOf(does) /\ out[2] = Ipv4Forward(f, does[2].dstAddr)
    BY <2>2
  <2>4. f.body.dst \in Ips(setup)
    BY <1>2 DEF Addresses
  <2>5. /\ NobodyElses(setup, f.body.dst, does[2].dstAddr)
        /\ \A h \in HostNames : H[h].at = <<s, PortOf(does)>> => does[2].dstAddr = H[h].mac
    BY <2>1, <2>3, <2>4 DEF L3Addressed, HostNames, H
  <2>6. PICK mac : mac = does[2].dstAddr
    OBVIOUS
  <2>7. PICK g : g = Ipv4Forward(f, mac)
    OBVIOUS
  <2>8. Addresses(g) /\ IsFrame(g) /\ g.dst = mac
    BY <1>2, <2>5, <2>6, <2>7, ForwardAddresses
  <2>9. Reaches(s, out[1], g)
    BY <2>3, <2>5, <2>6, <2>8, OwnMacReaches
  <2>10. QED
    BY <2>3, <2>6, <2>7, <2>8, <2>9
<1>3. QED
  BY <1>1, <1>2

LEMMA RouterReaches ==
  ASSUME NEW s, RouterAddressed(setup, s), HostsAddressed(setup), setup.program[s] = "linear/l3",
         installed[s] = Contents(setup, s),
         NEW p, NEW f, IsFrame(f), Addresses(f), NEW out \in Router(s, p, f), out[1] # Dropped
  PROVE  Addresses(out[2]) /\ Reaches(s, out[1], out[2])
<1>1. Reaches(s, out[1], out[2])
  <2>1. ASSUME NEW h \in HostNames PROVE H[h].at # <<s, out[1]>>
    BY DEF HostsAddressed, HostNames, H
  <2>2. QED
    BY <2>1 DEF Reaches
<1>2. PICK dstIp : dstIp = CASE f.type = "ip" -> f.body.dst [] f.type = "arp" -> f.body.tpa [] OTHER -> NoAddress
  OBVIOUS
<1>3. PICK does : does = ExactMatch(Contents(setup, s), "L3_Ingress.mac_table", "dstIp", dstIp, Drop("L3_Ingress"))
  OBVIOUS
<1>4. dstIp \in Askable(setup) /\ does[1] # "L3_Ingress.drop" => Owned(setup, dstIp, does[2].macAddr)
  BY <1>3 DEF RouterAddressed
<1>5. PICK mac : mac = does[2].macAddr
  OBVIOUS
<1>6. \/ out[2] = f
      \/ does[1] # "L3_Ingress.drop" /\ f.type = "ip" /\ out[2] = Ipv4Forward(f, mac)
      \/ does[1] # "L3_Ingress.drop" /\ f.type = "arp" /\ f.body.op = "request" /\ out[2] = ArpReply(f, mac)
  BY <1>2, <1>3, <1>5 DEF Router, Out
<1>7. CASE does[1] # "L3_Ingress.drop" /\ f.type = "ip"
  <2>1. dstIp = f.body.dst /\ dstIp \in Askable(setup)
    BY <1>2, <1>7 DEF Addresses, Askable
  <2>2. NobodyElses(setup, f.body.dst, mac)
    BY <1>4, <1>5, <1>7, <2>1 DEF Owned
  <2>3. Addresses(Ipv4Forward(f, mac))
    BY <1>7, <2>2, ForwardAddresses
  <2>4. QED
    BY <1>1, <1>6, <1>7, <2>3
<1>8. CASE does[1] # "L3_Ingress.drop" /\ f.type = "arp" /\ f.body.op = "request"
  <2>1. dstIp = f.body.tpa /\ dstIp \in Askable(setup)
    BY <1>2, <1>8 DEF Addresses
  <2>2. Owned(setup, f.body.tpa, mac)
    BY <1>4, <1>5, <1>8, <2>1
  <2>3. Addresses(ArpReply(f, mac))
    BY <1>8, <2>2, ReplyAddresses
  <2>4. QED
    BY <1>1, <1>6, <1>8, <2>3
<1>9. QED
  BY <1>1, <1>6, <1>7, <1>8

LEMMA ProcessReaches ==
  ASSUME NEW s \in InNetwork, setup.program[s] \in Programs, Wired(setup), Addressed(setup),
         installed[s] = Contents(setup, s),
         NEW p, NEW f, IsFrame(f), Addresses(f), NEW out \in Process(s, p, f), out[1] # Dropped
  PROVE  Addresses(out[2]) /\ Reaches(s, out[1], out[2])
<1>1. HostsAddressed(setup)
  BY DEF Addressed
<1>2. CASE setup.program[s] = "l2"
  <2>1. out[2] = f /\ out[1] = PortOf(ExactMatch(installed[s], "L2_Ingress.ethernet_exact", "dstAddr", f.dst, Drop("L2_Ingress")))
    BY <1>2 DEF Process, L2, Out
  <2>2. SwitchAddressed(setup, s, "L2_Ingress.ethernet_exact", Drop("L2_Ingress"))
    BY <1>2 DEF Addressed, InNetwork, ExactPrograms, ExactTable, ExactDefault
  <2>3. QED
    BY <2>1, <2>2, TableReaches
<1>3. CASE setup.program[s] = "linear/l2"
  <2>1. f.dst # MulticastMac
    BY DEF Addresses
  <2>2. out[2] = f /\ out[1] = PortOf(ExactMatch(installed[s], "L2_Ingress.mac_table", "dstAddr", f.dst, NoAction))
    BY <1>3, <2>1 DEF Process, Bridge
  <2>3. SwitchAddressed(setup, s, "L2_Ingress.mac_table", NoAction)
    BY <1>3 DEF Addressed, InNetwork
  <2>4. QED
    BY <2>2, <2>3, TableReaches
<1>4. CASE setup.program[s] = "p4-cpu/l2"
  <2>1. /\ out[1] = PortOf(ExactMatch(installed[s], "L2_Ingress.ethernet_exact", "dstAddr", f.dst, NoAction))
        /\ out[2] = IF f.type = "probe" THEN SetMetrics(s, f) ELSE f
    BY <1>4 DEF Process, CpuL2, Out
  <2>2. SwitchAddressed(setup, s, "L2_Ingress.ethernet_exact", NoAction)
    BY <1>4 DEF Addressed, InNetwork, ExactPrograms, ExactTable, ExactDefault
  <2>3. Reaches(s, out[1], f)
    BY <2>1, <2>2, TableReaches
  <2>4. CASE f.type # "probe"
    BY <2>1, <2>3, <2>4
  <2>5. CASE f.type = "probe"
    <3>1. PICK g : g = SetMetrics(s, f)
      OBVIOUS
    <3>2. g.src = f.src /\ g.dst = f.dst /\ g.type = "probe"
      BY <2>5, <3>1 DEF SetMetrics, IsFrame
    <3>3. Addresses(g) /\ Reaches(s, out[1], g)
      BY <2>3, <2>5, <3>2 DEF Addresses, Reaches, ForHost
    <3>4. QED
      BY <2>1, <2>5, <3>1, <3>3
  <2>6. QED
    BY <2>4, <2>5
<1>5. CASE setup.program[s] = "l3"
  <2>1. out \in L3(s, p, f) /\ L3Addressed(setup, s)
    BY <1>5 DEF Process, Addressed, InNetwork
  <2>2. QED
    BY <1>1, <2>1, L3Reaches
<1>6. CASE setup.program[s] = "linear/l3"
  <2>1. out \in Router(s, p, f) /\ RouterAddressed(setup, s)
    BY <1>6 DEF Process, Addressed, InNetwork
  <2>2. QED
    BY <1>1, <1>6, <2>1, RouterReaches
<1>7. QED
  BY <1>2, <1>3, <1>4, <1>5, <1>6 DEF Programs

-----------------------------------------------------------------------------
(***************************************************************************)
(* Every step keeps the addresses.                                         *)
(***************************************************************************)
LEMMA ForwardsRight ==
  ASSUME AllAddressed, NetInv, StrayInv, NEW f \in frames, Forward(f)
  PROVE  \A g \in frames' : Addresses(g) /\ ArrivesRight(g)
<1> SUFFICES ASSUME NEW g \in frames', g \notin frames PROVE Addresses(g) /\ ArrivesRight(g)
  BY DEF StrayInv
<1>1. f.at[1] \in pipeline /\ IsFrame(f) /\ Addresses(f)
  BY DEF Forward, NetInv, TravelInv, StrayInv
<1>2. PICK s : s = f.at[1]
  OBVIOUS
<1>3. s \in InNetwork /\ setup.program[s] \in Programs /\ installed[s] = Contents(setup, s)
  BY <1>1, <1>2, ForwarderHolds
<1>4. Inv /\ IsRunner
  BY DEF NetInv, TravelInv
<1>5. Addressed(setup) /\ Wired(setup) /\ HostsAddressed(setup)
  BY <1>4, RunnerAddressed
<1>6. PICK out \in Process(s, f.at[2], f) : g \in Crossing(f.at, out)
  BY <1>2 DEF Forward
<1>7. PICK to \in Far(<<s, out[1]>>) : out[1] # Dropped /\ g = [out[2] EXCEPT !.at = to, !.trail = Append(@, f.at)]
  BY <1>2, <1>6 DEF Crossing
<1>8. PICK q : q = out[2]
  OBVIOUS
<1>9. Addresses(q) /\ Reaches(s, out[1], q) /\ DOMAIN q = DOMAIN f
  <2>1. Addresses(q) /\ Reaches(s, out[1], q)
    BY <1>1, <1>3, <1>5, <1>6, <1>7, <1>8, ProcessReaches
  <2>2. Becomes(s, f, q)
    BY <1>1, <1>3, <1>6, <1>7, <1>8, Processed
  <2>3. QED
    BY <2>1, <2>2 DEF Becomes
<1>10. g.at = to /\ g.src = q.src /\ g.dst = q.dst /\ g.type = q.type /\ g.body = q.body
  BY <1>1, <1>7, <1>8, <1>9 DEF IsFrame
<1>11. Addresses(g)
  BY <1>9, <1>10 DEF Addresses
<1>12. ASSUME NEW h, g.at = <<h, NoPort>> PROVE h \in HostNames /\ ForHost(h, g)
  <2>1. h \in HostNames /\ H[h].at = <<s, out[1]>>
    BY <1>5, <1>7, <1>10, <1>12, FarIsHost
  <2>2. ForHost(h, q)
    BY <1>9, <2>1 DEF Reaches
  <2>3. QED
    BY <1>10, <2>1, <2>2 DEF ForHost
<1>13. QED
  BY <1>11, <1>12 DEF ArrivesRight

LEMMA EchoIsAddressed ==
  ASSUME NEW h \in HostNames, NEW ip \in Ips(setup), NEW kind
  PROVE  LET d == Echo(H[h].ip, ip, kind) IN {d.src, d.dst} \subseteq Ips(setup)
  BY DEF Echo, Ips, HostNames, H

LEMMA LearnsRight ==
  ASSUME AllAddressed, NetInv, StrayInv, NEW f \in frames, NEW h \in Hosts, LearnArp(h, f)
  PROVE  StrayInv'
<1>1. IsRunner /\ Inv /\ Wired(setup) /\ HostsAddressed(setup) /\ UNCHANGED setup
  <2>1. IsRunner /\ Inv
    BY DEF NetInv, TravelInv
  <2>2. QED
    BY <2>1, RunnerAddressed DEF LearnArp, vars, runnerVars
<1>2. /\ h \in HostNames /\ ForHost(h, f) /\ f.at[1] = h
      /\ Owned(setup, f.body.spa, f.body.sha)
  BY DEF LearnArp, ArrivesAt, StrayInv, ArrivesRight, Addresses
<1>3. \A g \in Hosts : \A e \in arp'[g] : Owned(setup, e[1], e[2])
  <2>1. arp' = [arp EXCEPT ![h] = @ \cup {<<f.body.spa, f.body.sha>>}] /\ DOMAIN arp = Hosts
    BY DEF LearnArp, StrayInv
  <2>2. ASSUME NEW g \in Hosts, NEW e \in arp'[g] PROVE Owned(setup, e[1], e[2])
    <3>1. e \in arp[g] \/ e = <<f.body.spa, f.body.sha>>
      BY <2>1, <2>2
    <3>2. QED
      BY <1>2, <3>1 DEF StrayInv
  <2>3. QED
    BY <2>2
<1>4. \A g \in frames' : Addresses(g) /\ ArrivesRight(g)
  <2>1. ASSUME NEW w \in pending, w[1] = h, w[2] = f.body.spa
        PROVE  LET g == Frame(h, f.body.sha, "ip", w[3]) IN Addresses(g) /\ ArrivesRight(g)
    <3>1. {w[3].src, w[3].dst} \subseteq Ips(setup) /\ Owned(setup, NextHop(h, w[3].dst), f.body.sha)
      BY <1>2, <2>1 DEF StrayInv
    <3>2. QED
      BY <1>1, <1>2, <3>1, ReleasedRight
  <2>2. QED
    BY <2>1 DEF LearnArp, StrayInv
<1>5. pending' \subseteq pending /\ got' = got \cup {f} /\ DOMAIN arp' = Hosts
  BY DEF LearnArp, Taken, StrayInv
<1>6. QED
  BY <1>1, <1>2, <1>3, <1>4, <1>5 DEF StrayInv, IsRunner, Addresses, ArrivesRight, ForHost, HostNames, H, NextHop

LEMMA AnswersRight ==
  ASSUME AllAddressed, NetInv, StrayInv, NEW f \in frames, NEW h \in Hosts, Answer(h, f)
  PROVE  StrayInv'
<1>1. IsRunner /\ Wired(setup) /\ HostsAddressed(setup) /\ UNCHANGED <<setup, arp>>
  <2>1. IsRunner /\ Inv
    BY DEF NetInv, TravelInv
  <2>2. QED
    BY <2>1, RunnerAddressed DEF Answer, vars, runnerVars
<1>2. h \in HostNames /\ ForHost(h, f) /\ f.at[1] = h /\ f.body.src \in Ips(setup)
  BY DEF Answer, ArrivesAt, StrayInv, ArrivesRight, Addresses
<1>3. PICK d : d = Echo(H[h].ip, f.body.src, "reply")
  OBVIOUS
<1>4. {d.src, d.dst} \subseteq Ips(setup)
  BY <1>2, <1>3, EchoIsAddressed
<1>5. /\ \A g \in Sent(h, d) : Addresses(g) /\ ArrivesRight(g)
      /\ \A w \in Waits(h, d) : w = <<h, NextHop(h, d.dst), d>>
  <2>1. \A e \in arp[h] : Owned(setup, e[1], e[2])
    BY DEF StrayInv
  <2>2. h \in HostNames \cap Hosts
    BY <1>2
  <2>3. QED
    BY <1>1, <1>4, <2>1, <2>2, SentRight
<1>6. frames' \subseteq frames \cup Sent(h, d) /\ pending' = pending \cup Waits(h, d) /\ got' = got \cup {f}
  BY <1>3 DEF Answer, Taken
<1>7. \A g \in frames' : Addresses(g) /\ ArrivesRight(g)
  BY <1>5, <1>6 DEF StrayInv
<1>8. \A w \in pending' : /\ w[1] \in HostNames /\ w[2] = NextHop(w[1], w[3].dst)
                          /\ {w[3].src, w[3].dst} \subseteq Ips(setup)
  BY <1>2, <1>4, <1>5, <1>6 DEF StrayInv
<1>9. QED
  BY <1>1, <1>2, <1>6, <1>7, <1>8 DEF StrayInv, IsRunner, Addresses, ArrivesRight, ForHost, HostNames, H, NextHop

LEMMA TakesRight ==
  ASSUME StrayInv, NEW f \in frames, NEW h \in Hosts, Take(h, f)
  PROVE  StrayInv'
<1>1. UNCHANGED <<setup, arp, pending>> /\ frames' \subseteq frames /\ got' = got \cup {f}
  BY DEF Take, Taken, vars, runnerVars
<1>2. ForHost(h, f) /\ f.at[1] = h
  BY DEF Take, ArrivesAt, StrayInv, ArrivesRight
<1>3. QED
  BY <1>1, <1>2 DEF StrayInv, IsRunner, Addresses, ArrivesRight, ForHost, HostNames, H, NextHop

LEMMA TalksRight ==
  ASSUME AllAddressed, NetInv, StrayInv, NEW h \in Hosts, NEW g \in Hosts, Ping(h, g) \/ SendProbe(h, g)
  PROVE  StrayInv'
<1>1. IsRunner /\ Wired(setup) /\ HostsAddressed(setup) /\ UNCHANGED <<setup, arp, got>>
  <2>1. IsRunner /\ Inv
    BY DEF NetInv, Ping, SendProbe
  <2>2. QED
    BY <2>1, RunnerAddressed DEF Ping, SendProbe, vars, runnerVars
<1>2. h \in HostNames /\ g \in HostNames
  <2>1. \E what : \E t \in setup.talks : <<h, g, what>> \in t
    BY DEF Ping, SendProbe, May
  <2>2. PICK talk : \E t \in setup.talks : talk \in t /\ talk[1] = h /\ talk[2] = g
    BY <2>1
  <2>3. QED
    BY <1>1, <2>2 DEF Wired, HostNames, H
<1>3. CASE Ping(h, g)
  <2>1. PICK d : d = Echo(H[h].ip, H[g].ip, "request")
    OBVIOUS
  <2>2. {d.src, d.dst} \subseteq Ips(setup)
    BY <1>2, <2>1 DEF Echo, Ips, HostNames, H
  <2>3. /\ \A f \in Sent(h, d) : Addresses(f) /\ ArrivesRight(f)
        /\ \A w \in Waits(h, d) : w = <<h, NextHop(h, d.dst), d>>
    <3>1. \A e \in arp[h] : Owned(setup, e[1], e[2])
      BY DEF StrayInv
    <3>2. h \in HostNames \cap Hosts
      BY <1>2
    <3>3. QED
      BY <1>1, <2>2, <3>1, <3>2, SentRight
  <2>4. frames' = frames \cup Sent(h, d) /\ pending' = pending \cup Waits(h, d)
    BY <1>3, <2>1 DEF Ping
  <2>5. \A f \in frames' : Addresses(f) /\ ArrivesRight(f)
    BY <2>3, <2>4 DEF StrayInv
  <2>6. \A w \in pending' : /\ w[1] \in HostNames /\ w[2] = NextHop(w[1], w[3].dst)
                            /\ {w[3].src, w[3].dst} \subseteq Ips(setup)
    BY <1>2, <2>2, <2>3, <2>4 DEF StrayInv
  <2>7. QED
    BY <1>1, <2>5, <2>6 DEF StrayInv, IsRunner, Addresses, ArrivesRight, ForHost, HostNames, H, NextHop
<1>4. CASE SendProbe(h, g)
  <2>1. PICK f : f = Frame(h, H[g].mac, "probe", [records |-> 0, data |-> <<>>])
    OBVIOUS
  <2>2. f.src = H[h].mac /\ f.dst = H[g].mac /\ f.type = "probe"
    BY <2>1 DEF Frame
  <2>3. ArrivesRight(f) /\ H[h].mac # MulticastMac /\ H[g].mac # MulticastMac
    BY <1>1, <1>2, <2>1, StartsRight
  <2>4. Addresses(f)
    BY <2>2, <2>3 DEF Addresses
  <2>5. frames' = frames \cup {f} /\ UNCHANGED pending
    BY <1>4, <2>1 DEF SendProbe
  <2>6. QED
    BY <1>1, <2>3, <2>4, <2>5 DEF StrayInv, IsRunner, Addresses, ArrivesRight, ForHost, HostNames, H, NextHop
<1>5. QED
  BY <1>3, <1>4

LEMMA ConfiguresRight ==
  ASSUME AllAddressed, NetInv, StrayInv, UNCHANGED setup, ConfigureHosts
  PROVE  StrayInv'
<1>1. IsRunner /\ HostsAddressed(setup) /\ UNCHANGED <<pending, frames, got>>
  <2>1. IsRunner /\ Inv /\ UNCHANGED <<pending, frames, got>>
    BY DEF ConfigureHosts, NetInv
  <2>2. QED
    BY <2>1, RunnerAddressed
<1>2. arp' = [h \in Hosts |-> IF h \in HostNames THEN H[h].arp ELSE {}]
  BY DEF ConfigureHosts
<1>3. ASSUME NEW h \in Hosts, NEW e \in arp'[h] PROVE Owned(setup, e[1], e[2])
  <2>1. h \in HostNames /\ e \in H[h].arp
    BY <1>2, <1>3
  <2>2. QED
    BY <1>1, <2>1 DEF HostsAddressed, HostNames, H
<1>4. DOMAIN arp' = Hosts
  BY <1>2
<1>5. QED
  BY <1>1, <1>3, <1>4 DEF StrayInv, IsRunner, Addresses, ArrivesRight, ForHost, HostNames, H, NextHop

LEMMA StepStray == AllAddressed /\ NetInv /\ StrayInv /\ [NetNext]_allVars => StrayInv'
<1> SUFFICES ASSUME AllAddressed, NetInv, StrayInv, [NetNext]_allVars PROVE StrayInv'
  OBVIOUS
<1>1. UNCHANGED setup
  BY NetStepIsStep, SetupStays DEF NetInv
<1>2. CASE UNCHANGED <<arp, pending, frames, got>>
  BY <1>1, <1>2 DEF StrayInv, IsRunner, Addresses, ArrivesRight, ForHost, HostNames, H, NextHop
<1>3. CASE Deliver
  <2>1. PICK f \in frames : Forward(f) \/ \E h \in Hosts : LearnArp(h, f) \/ Answer(h, f) \/ Take(h, f)
    BY <1>3 DEF Deliver
  <2>2. CASE Forward(f)
    <3>1. \A g \in frames' : Addresses(g) /\ ArrivesRight(g)
      BY <2>2, ForwardsRight
    <3>2. UNCHANGED <<arp, pending, got>>
      BY <2>2 DEF Forward
    <3>3. QED
      BY <1>1, <3>1, <3>2 DEF StrayInv, IsRunner, Addresses, ArrivesRight, ForHost, HostNames, H, NextHop
  <2>3. ASSUME NEW h \in Hosts, LearnArp(h, f) \/ Answer(h, f) \/ Take(h, f) PROVE StrayInv'
    BY <2>3, LearnsRight, AnswersRight, TakesRight
  <2>4. QED
    BY <2>1, <2>2, <2>3
<1>4. CASE ConfigureHosts
  BY <1>1, <1>4, ConfiguresRight
<1>5. ASSUME NEW h \in Hosts, NEW g \in Hosts, Ping(h, g) \/ SendProbe(h, g) PROVE StrayInv'
  BY <1>5, TalksRight
<1>6. Runs \/ UNCHANGED allVars => UNCHANGED <<arp, pending, frames, got>>
  BY DEF Runs, allVars, netVars
<1>7. QED
  BY <1>2, <1>3, <1>4, <1>5, <1>6 DEF NetNext

LEMMA StrayAlways == AllAddressed => (NetSpec => [](NetInv /\ StrayInv))
<1>1. NetInit => StrayInv
  BY DEF NetInit, StrayInv
<1>2. SUFFICES ASSUME AllAddressed PROVE NetSpec => [](NetInv /\ StrayInv)
  OBVIOUS
<1>3. NetInv /\ StrayInv /\ [NetNext]_allVars => StrayInv'
  BY <1>2, StepStray
<1>4. QED
  BY <1>1, <1>3, NetAlways, PTL DEF NetSpec

\* In a network whose tables and hosts are Addressed, a condition on each table
\* and each host alone and not on the ways between them, a host gets only what is
\* for it and learns only true addresses: whatever the topology, whoever talks,
\* in whatever order, and whichever switches die.
THEOREM NothingStrays ==
  ASSUME AllAddressed
  PROVE  NetSpec => []NoStray
<1>1. NetInv /\ StrayInv => NoStray
  <2> SUFFICES ASSUME NetInv, StrayInv, NEW h \in HostNames, NEW g \in HostNames, NEW mac \in Known(h, H[g].ip)
               PROVE  mac = H[g].mac
    BY DEF NoStray, StrayInv
  <2>1. setup \in Setups
    BY DEF NetInv, Inv, Types, LoopInv
  <2>2. h \in Hosts
    BY <2>1, ForwardingAssumption DEF HostNames, H
  <2>3. Owned(setup, H[g].ip, mac)
    BY <2>2 DEF Known, StrayInv
  <2>4. QED
    BY <2>3 DEF Owned, HostNames, H
<1>2. QED
  BY <1>1, StrayAlways, PTL

-----------------------------------------------------------------------------
(***************************************************************************)
(* Where frames go.  In a network that is a Tree each place a frame comes  *)
(* to ranks above all it has been at: on its way up a frame loses depth,   *)
(* on its way down it gains depth, and once it goes down it never turns.   *)
(***************************************************************************)
DepthOf == CHOOSE depth \in [Elements(setup.made) -> 0..Len(setup.made)] : IsTree(setup, depth)
Links == Downward(setup, DepthOf)
FromAbove(place) == \E w \in Links : w[2] = place
Rank(place) == IF FromAbove(place) THEN DepthOf[place[1]] + 1 ELSE 0 - DepthOf[place[1]]

\* A switch does not send back up what has come from above.
Descends(f) ==
  \A w \in Links :
    f.at = w[2] =>
      \/ setup.program[w[2][1]] = "linear/l2"
      \/ setup.program[w[2][1]] \in ExactPrograms /\ ExactPort(setup, w[2][1], f.dst) # w[2][2]

OnItsWay(f) ==
  /\ f.at[2] = NoPort => f.at[1] \in HostNames
  /\ \A i \in DOMAIN f.trail :
       /\ f.trail[i][1] \in InNetwork /\ f.trail[i][2] # NoPort
       /\ f.at[2] # NoPort => Rank(f.trail[i]) < Rank(f.at)
  /\ Descends(f)

WayInv == \A f \in frames : OnItsWay(f)

\* No depth is greater.
Height == Len(setup.made)

LEMMA RunnerIsTree ==
  ASSUME AllTrees, Inv, IsRunner
  PROVE  Wired(setup) /\ IsTree(setup, DepthOf) /\ \A s \in InNetwork : DepthOf[s] \in Nat
<1>1. setup \in Setups
  BY DEF Inv, Types, LoopInv
<1>2. Wired(setup) /\ Tree(setup)
  BY <1>1, ForwardingAssumption DEF AllTrees, IsRunner
<1>3. DepthOf \in [Elements(setup.made) -> 0..Len(setup.made)] /\ IsTree(setup, DepthOf)
  BY <1>2 DEF Tree, DepthOf
<1>4. ASSUME NEW s \in InNetwork PROVE DepthOf[s] \in Nat
  <2>1. DepthOf[s] \in 0..Len(setup.made)
    BY <1>3 DEF InNetwork
  <2>2. QED
    BY <2>1
<1>5. QED
  BY <1>2, <1>3, <1>4

\* A link in the downward direction, by its ends.
LEMMA DownwardEnds ==
  ASSUME Wired(setup), \A s \in InNetwork : DepthOf[s] \in Nat, NEW w \in Links
  PROVE  /\ {w[1], w[2]} \in setup.links /\ DepthOf[w[1][1]] < DepthOf[w[2][1]]
         /\ w[1][1] \in InNetwork /\ w[2][1] \in InNetwork /\ w[1][2] # NoPort /\ w[2][2] # NoPort
         /\ w[1] # w[2] /\ ~FromAbove(w[1])
<1>1. /\ {w[1], w[2]} \in setup.links /\ DepthOf[w[1][1]] < DepthOf[w[2][1]]
  BY DEF Links, Downward
<1>2. w[1][1] \in InNetwork /\ w[2][1] \in InNetwork /\ w[1][2] # NoPort /\ w[2][2] # NoPort
  BY <1>1 DEF Wired, InNetwork
<1>3. DepthOf[w[1][1]] \in Nat /\ DepthOf[w[2][1]] \in Nat
  BY <1>2
<1>4. w[1] # w[2]
  BY <1>1, <1>3
<1>5. ASSUME NEW v \in Links, v[2] = w[1] PROVE FALSE
  <2>1. /\ {v[1], v[2]} \in setup.links /\ DepthOf[v[1][1]] < DepthOf[v[2][1]]
    BY DEF Links, Downward
  <2>2. {v[1], v[2]} = {w[1], w[2]}
    <3>1. w[1] \in {v[1], v[2]} \cap {w[1], w[2]}
      BY <1>5
    <3>2. QED
      BY <1>1, <2>1, <3>1 DEF Wired
  <2>3. v[1] = w[2]
    BY <1>4, <1>5, <2>2
  <2>4. QED
    BY <1>1, <1>3, <1>5, <2>1, <2>3
<1>6. QED
  BY <1>1, <1>2, <1>4, <1>5 DEF FromAbove

\* From a port of a switch a frame comes to the host there, or over a link, down
\* or up.
LEMMA FarIs ==
  ASSUME Wired(setup), IsTree(setup, DepthOf), NEW s \in InNetwork, NEW q, NEW to \in Far(<<s, q>>)
  PROVE  \/ to[2] = NoPort /\ to[1] \in HostNames
         \/ \E w \in Links : w[1] = <<s, q>> /\ w[2] = to
         \/ \E w \in Links : w[2] = <<s, q>> /\ w[1] = to
<1>1. PICK end : end = <<s, q>>
  OBVIOUS
<1>2. PICK wire \in Wires : end \in wire /\ to \in wire /\ to # end
  BY <1>1 DEF Far
<1>3. CASE wire \in setup.links
  <2>1. PICK w \in Links : wire = {w[1], w[2]}
    BY <1>3 DEF IsTree, Links
  <2>2. QED
    BY <1>1, <1>2, <2>1
<1>4. CASE wire \notin setup.links
  <2>1. PICK h \in HostNames : wire = {H[h].at, <<h, NoPort>>}
    BY <1>2, <1>4 DEF Wires
  <2>2. h \notin InNetwork
    BY DEF Wired, InNetwork, HostNames, H
  <2>3. end # <<h, NoPort>>
    BY <1>1, <2>2
  <2>4. to = <<h, NoPort>>
    BY <1>2, <2>1, <2>3
  <2>5. QED
    BY <2>4
<1>5. QED
  BY <1>3, <1>4

LEMMA RanksBelow ==
  ASSUME Wired(setup), \A s \in InNetwork : DepthOf[s] \in Nat,
         NEW w \in Links, NEW place, place[1] = w[1][1]
  PROVE  Rank(place) < Rank(w[2])
<1>1. DepthOf[w[1][1]] \in Nat /\ DepthOf[w[2][1]] \in Nat /\ DepthOf[w[1][1]] < DepthOf[w[2][1]]
  BY DownwardEnds
<1>2. FromAbove(w[2])
  BY DEF FromAbove
<1>3. QED
  BY <1>1, <1>2 DEF Rank

LEMMA RanksAbove ==
  ASSUME Wired(setup), \A s \in InNetwork : DepthOf[s] \in Nat,
         NEW w \in Links, NEW place, place[1] = w[2][1], ~FromAbove(place)
  PROVE  Rank(place) < Rank(w[1])
<1>1. DepthOf[w[1][1]] \in Nat /\ DepthOf[w[2][1]] \in Nat /\ DepthOf[w[1][1]] < DepthOf[w[2][1]]
  BY DownwardEnds
<1>2. ~FromAbove(w[1])
  BY DownwardEnds
<1>3. QED
  BY <1>1, <1>2 DEF Rank

\* A switch of exact entries sends a frame, with its address, where they say.
LEMMA ExactSends ==
  ASSUME NEW s, setup.program[s] \in ExactPrograms, installed[s] = Contents(setup, s),
         NEW p, NEW f, IsFrame(f), NEW out \in Process(s, p, f)
  PROVE  out[1] = ExactPort(setup, s, f.dst) /\ out[2].dst = f.dst
<1>1. CASE setup.program[s] = "l2"
  BY <1>1 DEF Process, L2, Out, ExactPort, ExactTable, ExactDefault
<1>2. CASE setup.program[s] = "p4-cpu/l2"
  <2>1. /\ out[1] = ExactPort(setup, s, f.dst)
        /\ out[2] = IF f.type = "probe" THEN SetMetrics(s, f) ELSE f
    BY <1>2 DEF Process, CpuL2, Out, ExactPort, ExactTable, ExactDefault
  <2>2. SetMetrics(s, f).dst = f.dst
    BY DEF SetMetrics, IsFrame
  <2>3. QED
    BY <2>1, <2>2
<1>3. QED
  BY <1>1, <1>2 DEF ExactPrograms

\* What goes up has not come from above.
LEMMA NeverTurns ==
  ASSUME IsTree(setup, DepthOf), NEW f, IsFrame(f), Descends(f),
         NEW s, s = f.at[1], installed[s] = Contents(setup, s),
         NEW out \in Process(s, f.at[2], f), NEW w \in Links, w[2] = <<s, out[1]>>
  PROVE  ~FromAbove(f.at)
<1> SUFFICES ASSUME NEW v \in Links, v[2] = f.at PROVE FALSE
  BY DEF FromAbove
<1>1. v = w /\ w[2][1] = s /\ w[2][2] = out[1]
  BY DEF IsTree, Links
<1>2. f.at[2] = out[1]
  BY <1>1
<1>3. CASE setup.program[s] = "linear/l2"
  <2>1. out \in Bridge(s, f.at[2], f)
    BY <1>3 DEF Process
  <2>2. out[1] # f.at[2]
    BY <2>1 DEF Bridge
  <2>3. QED
    BY <1>2, <2>2
<1>4. CASE setup.program[s] \in ExactPrograms /\ ExactPort(setup, s, f.dst) # out[1]
  BY <1>4, ExactSends
<1>5. QED
  BY <1>1, <1>3, <1>4 DEF Descends

\* What comes from above goes on down.
LEMMA DescendsOn ==
  ASSUME IsTree(setup, DepthOf), NEW s, installed[s] = Contents(setup, s),
         NEW p, NEW f, IsFrame(f), NEW out \in Process(s, p, f),
         NEW w \in Links, w[1] = <<s, out[1]>>,
         NEW g, g.at = w[2], g.dst = out[2].dst
  PROVE  Descends(g)
<1> SUFFICES ASSUME NEW v \in Links, g.at = v[2]
             PROVE  \/ setup.program[v[2][1]] = "linear/l2"
                    \/ setup.program[v[2][1]] \in ExactPrograms /\ ExactPort(setup, v[2][1], g.dst) # v[2][2]
  BY DEF Descends
<1>1. v = w
  BY DEF IsTree, Links
<1>2. CASE setup.program[w[2][1]] \in ExactPrograms /\ LeadsDown(setup, w)
  <2>1. PICK r : r = w[2][1]
    OBVIOUS
  <2>2. PICK entries : entries = Contents(setup, s)
    OBVIOUS
  <2>3. PICK own : own = ExactDefault(setup.program[s])
    OBVIOUS
  <2>4. /\ setup.program[s] \in ExactPrograms
        /\ PortOf(DefaultAmong(entries, ExactTable, own)) # out[1]
        /\ \A e \in EntriesIn(entries, ExactTable) :
             PortOf(e.does) = out[1] => ExactPort(setup, r, e.key[2].dstAddr[1]) # w[2][2]
    <3>1. w[1][1] = s /\ w[1][2] = out[1]
      OBVIOUS
    <3>2. QED
      BY <1>2, <2>1, <2>2, <2>3, <3>1 DEF LeadsDown
  <2>5. out[1] = ExactPort(setup, s, f.dst) /\ g.dst = f.dst
    BY <2>4, ExactSends
  <2> DEFINE hits == {e \in EntriesIn(entries, ExactTable) : e.key[2]["dstAddr"] = <<f.dst>>}
  <2>6. out[1] = PortOf(IF hits = {} THEN DefaultAmong(entries, ExactTable, own)
                        ELSE (CHOOSE e \in hits : TRUE).does)
    BY <2>2, <2>3, <2>5 DEF ExactPort, ExactMatch
  <2>7. hits # {}
    BY <2>4, <2>6
  <2>8. PICK e \in hits : out[1] = PortOf(e.does)
    <3>1. (CHOOSE e \in hits : TRUE) \in hits
      BY <2>7
    <3>2. QED
      BY <2>6, <2>7, <3>1
  <2>9. e.key[2].dstAddr[1] = g.dst
    <3>1. e.key[2].dstAddr = <<f.dst>>
      BY <2>8
    <3>2. QED
      BY <2>5, <3>1
  <2>10. ExactPort(setup, r, g.dst) # w[2][2]
    <3>1. e \in EntriesIn(entries, ExactTable)
      BY <2>8
    <3>2. QED
      BY <2>4, <2>8, <2>9, <3>1
  <2>11. QED
    BY <1>1, <1>2, <2>1, <2>10
<1>3. QED
  BY <1>1, <1>2 DEF IsTree, Links

-----------------------------------------------------------------------------
(***************************************************************************)
(* Every step keeps frames on their way.                                   *)
(***************************************************************************)
\* A frame's next place ranks above all places it has been at.
LEMMA GoesOn ==
  ASSUME Wired(setup), IsTree(setup, DepthOf), \A r \in InNetwork : DepthOf[r] \in Nat,
         NEW f, IsFrame(f), OnItsWay(f),
         NEW s, s = f.at[1], s \in InNetwork, installed[s] = Contents(setup, s),
         NEW out \in Process(s, f.at[2], f),
         NEW g, g.at \in Far(<<s, out[1]>>), g.trail = Append(f.trail, f.at), g.dst = out[2].dst
  PROVE  OnItsWay(g)
<1>0. PICK to \in Far(<<s, out[1]>>) : to = g.at
  OBVIOUS
<1>1. PICK n \in Nat : n = Len(f.trail)
  BY DEF IsFrame, IsSequence
<1>2. /\ DOMAIN f.trail = 1..n /\ DOMAIN g.trail = 1..(n + 1)
      /\ g.trail[n + 1] = f.at /\ \A i \in 1..n : g.trail[i] = f.trail[i]
  <2>1. IsSequence(f.trail)
    BY DEF IsFrame
  <2>2. QED
    BY <1>1, <2>1, TrailGrows
<1>3. \A i \in DOMAIN g.trail : (i \in DOMAIN f.trail /\ g.trail[i] = f.trail[i]) \/ g.trail[i] = f.at
  BY <1>2
<1>4. s \notin HostNames
  BY DEF Wired, InNetwork, HostNames, H
<1>5. f.at[2] # NoPort
  BY <1>4 DEF OnItsWay
<1>6. \A i \in DOMAIN g.trail : g.trail[i][1] \in InNetwork /\ g.trail[i][2] # NoPort
  BY <1>3, <1>5 DEF OnItsWay
<1>7. \A place : place[1] \in InNetwork => Rank(place) \in Int
  BY DEF Rank
<1>8. ASSUME Rank(f.at) < Rank(to), to[1] \in InNetwork
      PROVE  \A i \in DOMAIN g.trail : Rank(g.trail[i]) < Rank(to)
  <2> TAKE i \in DOMAIN g.trail
  <2>1. Rank(f.at) \in Int /\ Rank(to) \in Int /\ Rank(g.trail[i]) \in Int
    BY <1>6, <1>7, <1>8
  <2>2. Rank(g.trail[i]) < Rank(f.at) \/ g.trail[i] = f.at
    BY <1>3, <1>5 DEF OnItsWay
  <2>3. QED
    BY <1>8, <2>1, <2>2
<1>9. CASE to[2] = NoPort /\ to[1] \in HostNames
  <2>1. Descends(g)
    <3>1. \A w \in Links : w[2][2] # NoPort
      BY DownwardEnds
    <3>2. QED
      BY <1>0, <1>9, <3>1 DEF Descends
  <2>2. QED
    BY <1>0, <1>6, <1>9, <2>1 DEF OnItsWay
<1>10. ASSUME NEW w \in Links, w[1] = <<s, out[1]>>, w[2] = to PROVE OnItsWay(g)
  <2>1. to[1] \in InNetwork /\ to[2] # NoPort
    BY <1>10, DownwardEnds
  <2>2. Rank(f.at) < Rank(to)
    <3>1. f.at[1] = w[1][1]
      BY <1>10
    <3>2. QED
      BY <1>10, <3>1, RanksBelow
  <2>3. Descends(g)
    BY <1>0, <1>10, DescendsOn
  <2>4. QED
    BY <1>0, <1>6, <1>8, <2>1, <2>2, <2>3 DEF OnItsWay
<1>11. ASSUME NEW w \in Links, w[2] = <<s, out[1]>>, w[1] = to PROVE OnItsWay(g)
  <2>1. to[1] \in InNetwork /\ to[2] # NoPort /\ ~FromAbove(to)
    BY <1>11, DownwardEnds
  <2>2. ~FromAbove(f.at)
    BY <1>11, NeverTurns DEF OnItsWay
  <2>3. Rank(f.at) < Rank(to)
    <3>1. f.at[1] = w[2][1]
      BY <1>11
    <3>2. QED
      BY <1>11, <2>2, <3>1, RanksAbove
  <2>4. Descends(g)
    BY <1>0, <2>1 DEF Descends, FromAbove
  <2>5. QED
    BY <1>0, <1>6, <1>8, <2>1, <2>3, <2>4 DEF OnItsWay
<1>12. QED
  BY <1>9, <1>10, <1>11, FarIs

LEMMA Crosses ==
  ASSUME NetInv, NEW f \in frames, Forward(f), NEW g \in frames', g \notin frames
  PROVE  \E out \in Process(f.at[1], f.at[2], f) :
           /\ g.at \in Far(<<f.at[1], out[1]>>) /\ g.trail = Append(f.trail, f.at)
           /\ g.dst = out[2].dst
<1>1. f.at[1] \in pipeline /\ IsFrame(f)
  BY DEF Forward, NetInv, TravelInv
<1>2. setup.program[f.at[1]] \in Programs
  BY <1>1, ForwarderHolds
<1>3. PICK out \in Process(f.at[1], f.at[2], f) : g \in Crossing(f.at, out)
  BY DEF Forward
<1>4. PICK to \in Far(<<f.at[1], out[1]>>) :
        out[1] # Dropped /\ g = [out[2] EXCEPT !.at = to, !.trail = Append(@, f.at)]
  BY <1>3 DEF Crossing
<1>5. PICK q : q = out[2]
  OBVIOUS
<1>6. Becomes(f.at[1], f, q)
  BY <1>1, <1>2, <1>3, <1>4, <1>5, Processed
<1>7. DOMAIN q = {"src", "dst", "type", "body", "at", "trail"} /\ q.trail = f.trail
  BY <1>1, <1>6 DEF IsFrame, Becomes
<1>8. g.at = to /\ g.trail = Append(f.trail, f.at) /\ g.dst = q.dst
  BY <1>4, <1>5, <1>7
<1>9. QED
  BY <1>3, <1>4, <1>5, <1>8

LEMMA ForwardsOnward ==
  ASSUME AllTrees, NetInv, WayInv, NEW f \in frames, Forward(f)
  PROVE  \A g \in frames' : OnItsWay(g)
<1> SUFFICES ASSUME NEW g \in frames', g \notin frames PROVE OnItsWay(g)
  BY DEF WayInv
<1>1. f.at[1] \in pipeline /\ IsFrame(f) /\ OnItsWay(f)
  BY DEF Forward, NetInv, TravelInv, WayInv
<1>2. PICK s : s = f.at[1]
  OBVIOUS
<1>3. s \in InNetwork /\ installed[s] = Contents(setup, s)
  BY <1>1, <1>2, ForwarderHolds
<1>4. Wired(setup) /\ IsTree(setup, DepthOf) /\ \A r \in InNetwork : DepthOf[r] \in Nat
  BY RunnerIsTree DEF NetInv, TravelInv
<1>5. PICK out \in Process(s, f.at[2], f) :
        /\ g.at \in Far(<<s, out[1]>>) /\ g.trail = Append(f.trail, f.at)
        /\ g.dst = out[2].dst
  BY <1>2, Crosses
<1>6. QED
  BY <1>1, <1>2, <1>3, <1>4, <1>5, GoesOn

\* A frame starts at its host's switch, where no link ends.
LEMMA StartsOnItsWay ==
  ASSUME Wired(setup), NEW h \in HostNames, NEW dst, NEW type, NEW body
  PROVE  OnItsWay(Frame(h, dst, type, body))
<1>1. PICK f : f = Frame(h, dst, type, body)
  OBVIOUS
<1>2. f.at = H[h].at /\ f.trail = <<>>
  BY <1>1 DEF Frame
<1>3. H[h].at \notin UNION setup.links /\ H[h].at[2] # NoPort
  BY DEF Wired, HostNames, H
<1>4. \A w \in Links : w[2] \in UNION setup.links
  BY DEF Links, Downward
<1>5. Descends(f)
  BY <1>2, <1>3, <1>4 DEF Descends
<1>6. QED
  BY <1>1, <1>2, <1>3, <1>5 DEF OnItsWay

\* What a step adds to the frames has crossed a link or comes from a host.
LEMMA NewFrames ==
  ASSUME AllTrees, NetInv, WayInv, [NetNext]_allVars, ~\E f \in frames : Forward(f), NEW g \in frames', g \notin frames
  PROVE  /\ IsRunner /\ Inv
         /\ \E h \in HostNames : \E dst, type, body : g = Frame(h, dst, type, body)
<1>1. \A h, d : \A f \in Sent(h, d) : \E dst, type, body : f = Frame(h, dst, type, body)
  BY DEF Sent, ArpRequest
<1>2. CASE Deliver
  <2>1. PICK f \in frames : \E h \in Hosts : LearnArp(h, f) \/ Answer(h, f) \/ Take(h, f)
    BY <1>2 DEF Deliver
  <2>2. PICK h \in Hosts : LearnArp(h, f) \/ Answer(h, f) \/ Take(h, f)
    BY <2>1
  <2>3. h \in HostNames
    BY <2>2 DEF LearnArp, Answer, Take, ArrivesAt, WayInv, OnItsWay
  <2>4. (\E dst, type, body : g = Frame(h, dst, type, body)) \/ \E d : g \in Sent(h, d)
    BY <2>2 DEF LearnArp, Answer, Take
  <2>5. QED
    BY <1>1, <2>3, <2>4 DEF NetInv, TravelInv
<1>3. ASSUME NEW h \in Hosts, NEW k \in Hosts, Ping(h, k) \/ SendProbe(h, k)
      PROVE  /\ IsRunner /\ Inv
             /\ \E a \in HostNames : \E dst, type, body : g = Frame(a, dst, type, body)
  <2>1. IsRunner /\ Inv
    BY <1>3 DEF Ping, SendProbe, NetInv
  <2>2. Wired(setup)
    BY <2>1, RunnerIsTree
  <2>3. h \in HostNames
    <3>1. \E what : \E t \in setup.talks : <<h, k, what>> \in t
      BY <1>3 DEF Ping, SendProbe, May
    <3>2. PICK talk : \E t \in setup.talks : talk \in t /\ talk[1] = h
      BY <3>1
    <3>3. QED
      BY <2>2, <3>2 DEF Wired, HostNames, H
  <2>4. (\E dst, type, body : g = Frame(h, dst, type, body)) \/ \E d : g \in Sent(h, d)
    BY <1>3 DEF Ping, SendProbe
  <2>5. QED
    BY <1>1, <2>1, <2>3, <2>4
<1>4. Runs \/ ConfigureHosts \/ UNCHANGED allVars => UNCHANGED frames
  BY DEF Runs, ConfigureHosts, allVars, netVars
<1>5. QED
  BY <1>2, <1>3, <1>4 DEF NetNext

LEMMA WayIsOfSetup ==
  ASSUME UNCHANGED setup
  PROVE  /\ UNCHANGED <<HostNames, InNetwork, Height>> /\ \A place : Rank(place)' = Rank(place)
         /\ \A f : OnItsWay(f)' = OnItsWay(f)
<1>1. UNCHANGED <<DepthOf, Links, HostNames, InNetwork, Height>>
  BY DEF DepthOf, Links, HostNames, H, InNetwork, Height
<1>2. \A place : Rank(place)' = Rank(place)
  BY <1>1 DEF Rank, FromAbove
<1>3. \A f : Descends(f)' = Descends(f)
  BY <1>1 DEF Descends
<1>4. QED
  BY <1>1, <1>2, <1>3 DEF OnItsWay

LEMMA StepWay == AllTrees /\ NetInv /\ WayInv /\ [NetNext]_allVars => WayInv'
<1> SUFFICES ASSUME AllTrees, NetInv, WayInv, [NetNext]_allVars PROVE WayInv'
  OBVIOUS
<1>1. UNCHANGED setup
  BY NetStepIsStep, SetupStays DEF NetInv
<1>2. \A f : OnItsWay(f)' = OnItsWay(f)
  BY <1>1, WayIsOfSetup
<1>3. CASE \E f \in frames : Forward(f)
  BY <1>2, <1>3, ForwardsOnward DEF WayInv
<1>4. CASE ~\E f \in frames : Forward(f)
  <2>1. ASSUME NEW g \in frames', g \notin frames PROVE OnItsWay(g)
    BY <1>4, <2>1, NewFrames, RunnerIsTree, StartsOnItsWay
  <2>2. QED
    BY <1>2, <2>1 DEF WayInv
<1>5. QED
  BY <1>3, <1>4

LEMMA WayAlways == AllTrees => (NetSpec => [](NetInv /\ WayInv))
<1> SUFFICES ASSUME AllTrees PROVE NetSpec => [](NetInv /\ WayInv)
  OBVIOUS
<1>1. NetInit => WayInv
  BY DEF NetInit, WayInv
<1>2. NetInv /\ WayInv /\ [NetNext]_allVars => WayInv'
  BY StepWay
<1>3. QED
  BY <1>1, <1>2, NetAlways, PTL DEF NetSpec

\* In a network that is a Tree no frame comes back to where it has been: whatever
\* the tables but for what Tree asks of them, whoever talks, in whatever order,
\* and whichever switches die.
THEOREM NothingLoops ==
  ASSUME AllTrees
  PROVE  NetSpec => []NoLoop
<1>1. NetInv /\ WayInv => NoLoop
  <2> SUFFICES ASSUME NetInv, WayInv, NEW f \in frames, NEW i \in DOMAIN f.trail, f.trail[i] = f.at
               PROVE  FALSE
    BY DEF NoLoop
  <2>1. f.at[1] \in InNetwork /\ f.at[2] # NoPort /\ Rank(f.at) < Rank(f.at)
    BY DEF WayInv, OnItsWay
  <2>2. \A s \in InNetwork : DepthOf[s] \in Nat
    BY RunnerIsTree DEF NetInv, TravelInv
  <2>3. Rank(f.at) \in Int
    BY <2>1, <2>2 DEF Rank
  <2>4. QED
    BY <2>1, <2>3
<1>2. QED
  BY <1>1, WayAlways, PTL

-----------------------------------------------------------------------------
(***************************************************************************)
(* How far frames go.                                                      *)
(***************************************************************************)
LEMMA RanksAreBounded ==
  ASSUME AllTrees, Inv, IsRunner, NEW place, place[1] \in InNetwork
  PROVE  Height \in Nat /\ Rank(place) \in (-Height)..(Height + 1)
<1>1. setup \in Setups
  BY DEF Inv, Types, LoopInv
<1>2. Height \in Nat
  BY <1>1, ExerciseAssumption DEF IsOrder, Height
<1>3. Tree(setup)
  BY <1>1 DEF AllTrees, IsRunner
<1>4. DepthOf \in [Elements(setup.made) -> 0..Height]
  BY <1>3 DEF Tree, DepthOf, Height
<1>5. DepthOf[place[1]] \in 0..Height
  BY <1>4 DEF InNetwork
<1>6. QED
  BY <1>2, <1>5 DEF Rank

FewHops(f) ==
  IF f.at[2] = NoPort THEN Len(f.trail) <= 2 * Height + 2
  ELSE f.at[1] \in InNetwork /\ Len(f.trail) <= Rank(f.at) + Height
HopsInv == \A f \in frames : FewHops(f)

LEMMA ForwardsFewHops ==
  ASSUME AllTrees, NetInv, WayInv, HopsInv, NEW f \in frames, Forward(f), NEW g \in frames', g \notin frames
  PROVE  FewHops(g)
<1>1. f.at[1] \in pipeline /\ IsFrame(f) /\ OnItsWay(f)
  BY DEF Forward, NetInv, TravelInv, WayInv
<1>2. Inv /\ IsRunner
  BY DEF NetInv, TravelInv
<1>3. f.at[1] \in InNetwork
  BY <1>1, ForwarderHolds
<1>4. Wired(setup) /\ IsTree(setup, DepthOf) /\ \A r \in InNetwork : DepthOf[r] \in Nat
  BY <1>2, RunnerIsTree
<1>5. PICK q : g.at \in Far(<<f.at[1], q>>) /\ g.trail = Append(f.trail, f.at)
  BY Crosses
<1>6. g.at[2] # NoPort => g.at[1] \in InNetwork
  BY <1>3, <1>4, <1>5, FarIs, DownwardEnds
<1>7. PICK n \in Nat : n = Len(f.trail)
  BY <1>1 DEF IsFrame, IsSequence
<1>8. Len(g.trail) = n + 1 /\ n + 1 \in DOMAIN g.trail /\ g.trail[n + 1] = f.at
  <2>1. PICK S : f.trail \in Seq(S)
    BY <1>1 DEF IsFrame, IsSequence
  <2>2. f.trail \in Seq(S \cup {f.at})
    BY <2>1
  <2>3. QED
    BY <1>5, <1>7, <2>2
<1>9. f.at[2] # NoPort
  BY <1>1, <1>3, <1>4 DEF OnItsWay, Wired, InNetwork, HostNames, H
<1>10. n <= Rank(f.at) + Height
  BY <1>7, <1>9 DEF HopsInv, FewHops
<1>11. Height \in Nat /\ Rank(f.at) \in (-Height)..(Height + 1)
  BY <1>2, <1>3, RanksAreBounded
<1>12. CASE g.at[2] = NoPort
  BY <1>8, <1>10, <1>11, <1>12 DEF FewHops
<1>13. CASE g.at[2] # NoPort
  <2>1. Rank(g.at) \in Int
    BY <1>2, <1>6, <1>13, RanksAreBounded
  <2>2. OnItsWay(g)
    BY ForwardsOnward
  <2>3. Rank(f.at) < Rank(g.at)
    BY <1>8, <1>13, <2>2 DEF OnItsWay
  <2>4. QED
    BY <1>6, <1>8, <1>10, <1>11, <1>13, <2>1, <2>3 DEF FewHops
<1>14. QED
  BY <1>12, <1>13

LEMMA StartsWithNoHop ==
  ASSUME AllTrees, Inv, IsRunner, NEW h \in HostNames, NEW dst, NEW type, NEW body
  PROVE  FewHops(Frame(h, dst, type, body))
<1>1. PICK f : f = Frame(h, dst, type, body)
  OBVIOUS
<1>2. f.at = H[h].at /\ f.trail = <<>>
  BY <1>1 DEF Frame
<1>3. H[h].at[2] # NoPort /\ H[h].at[1] \in InNetwork
  BY RunnerIsTree DEF Wired, HostNames, H, InNetwork
<1>4. Height \in Nat /\ Rank(f.at) \in (-Height)..(Height + 1)
  BY <1>2, <1>3, RanksAreBounded
<1>5. Len(f.trail) = 0
  BY <1>2
<1>6. QED
  BY <1>1, <1>2, <1>3, <1>4, <1>5 DEF FewHops

LEMMA StepHops == AllTrees /\ NetInv /\ WayInv /\ HopsInv /\ [NetNext]_allVars => HopsInv'
<1> SUFFICES ASSUME AllTrees, NetInv, WayInv, HopsInv, [NetNext]_allVars PROVE HopsInv'
  OBVIOUS
<1>1. UNCHANGED setup
  BY NetStepIsStep, SetupStays DEF NetInv
<1>2. \A f : FewHops(f)' = FewHops(f)
  BY <1>1, WayIsOfSetup DEF FewHops
<1>3. CASE \E f \in frames : Forward(f)
  BY <1>2, <1>3, ForwardsFewHops DEF HopsInv
<1>4. CASE ~\E f \in frames : Forward(f)
  <2>1. ASSUME NEW g \in frames', g \notin frames PROVE FewHops(g)
    BY <1>4, <2>1, NewFrames, StartsWithNoHop
  <2>2. QED
    BY <1>2, <2>1 DEF HopsInv
<1>5. QED
  BY <1>3, <1>4

\* Nor does a frame wander: its way ends after as many ports as there are on the
\* longest way up and down again.  This holds of frames without a TTL, too.
WaysAreShort == \A f \in frames : Len(f.trail) <= 2 * Height + 2

\* In a network that is a Tree every way is that short.
THEOREM EveryWayEnds ==
  ASSUME AllTrees
  PROVE  NetSpec => []WaysAreShort
<1>1. NetInit => HopsInv
  BY DEF NetInit, HopsInv
<1>2. NetInv /\ WayInv /\ HopsInv /\ [NetNext]_allVars => HopsInv'
  BY StepHops
<1>3. NetInv /\ HopsInv => WaysAreShort
  <2> SUFFICES ASSUME NetInv, HopsInv, NEW f \in frames PROVE Len(f.trail) <= 2 * Height + 2
    BY DEF WaysAreShort
  <2>1. f.at[1] \in InNetwork => Height \in Nat /\ Rank(f.at) \in (-Height)..(Height + 1)
    BY RanksAreBounded DEF NetInv, TravelInv
  <2>2. PICK n \in Nat : n = Len(f.trail)
    BY DEF NetInv, TravelInv, IsFrame, IsSequence
  <2>3. QED
    BY <2>1, <2>2 DEF HopsInv, FewHops
<1>4. QED
  BY <1>1, <1>2, <1>3, WayAlways, PTL DEF NetSpec

=============================================================================
