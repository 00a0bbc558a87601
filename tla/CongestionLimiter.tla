--------------------------- MODULE CongestionLimiter ---------------------------
(***************************************************************************)
(* The congestion limiter of major-7sem/tcp: a netfilter queue handler     *)
(* that lets a host's TCP packets pass as a congestion state allows, which *)
(* it asks a server for by UDP (src/tcp.hpp, src/csm.hpp, udp_server.cpp). *)
(*                                                                         *)
(* One thread takes packets from the queue, one callback at a time: while  *)
(* it pauses before a burst, packets and answers wait in the queue.  Of    *)
(* all packets two kinds change anything: a TCP packet of the host, and a  *)
(* UDP packet to port 16 from a neighbour, which is taken for an answer.   *)
(* Time is in steps of which a state lives Ttl.                            *)
(***************************************************************************)
EXTENDS Integers, FiniteSets

CONSTANTS
  Answers,      \* the congestion states the server may answer with
  Ttl,          \* CONGESTION_STATE_TTL
  MaxDrops,     \* MAX_CS_REQ_DROP
  Half,         \* half the range of a short: 2^15
  ClockSteps,   \* by how much the system clock may be set, forwards or backwards
  MaxTime,      \* bound: for how long a state is over, as the clock shows
  MaxSetBack,   \* bound: by how much the clock is set back between two answers
  MaxRequests   \* bound: requests and answers on their way

UShort == 0..2 * Half - 1
CongestionState == [send : BOOLEAN, value : UShort, delay : Nat]

ASSUME LimiterAssumption ==
  /\ Half \in Nat \ {0}
  /\ Answers \subseteq CongestionState
  /\ Ttl \in Nat /\ MaxSetBack \in Nat
  /\ MaxTime \in Nat /\ MaxSetBack < MaxTime  \* what was never there is not revived
  /\ MaxDrops \in Nat /\ MaxRequests \in Nat
  /\ ClockSteps \subseteq Int

\* What an int becomes in a short.
Short(x) == ((x + Half) % (2 * Half)) - Half

VARIABLES
  state,         \* csm::Manager: the congestion state ...
  left,          \* ... and the time up to which it holds, less system_clock
  udpReqCalled,  \* Handler: a request was sent
  packetDrops,   \* Handler: packets dropped since
  transferred,   \* Handler: packets_transferred, a short
  slept,         \* for how long the handler has paused before a burst, or Awake
  requests,      \* number of requests on their way to the server
  answers,       \* answers on their way back
  age,           \* time since the last answer arrived (for the properties only)
  setBack,       \* by how much the clock has been set back since then (ditto)
  waiting,       \* packets dropped since a request not answered yet, or -1 (ditto)
  burst,         \* limited packets passed since the last pause, up to Many (ditto)
  lowered        \* since then a limit came that the burst had passed (ditto)

vars == <<state, left, udpReqCalled, packetDrops, transferred, slept, requests, answers,
          age, setBack, waiting, burst, lowered>>

manager == <<state, left>>
counters == <<udpReqCalled, packetDrops>>
bursts == <<transferred, slept, burst, lowered>>
network == <<requests, answers>>
licence == <<age, setBack>>

Awake == -1
Many == 2 * Half

Init ==
  /\ state = [send |-> TRUE, value |-> 0, delay |-> 0]
  /\ left = -MaxTime
  /\ udpReqCalled = FALSE /\ packetDrops = 0 /\ transferred = 0
  /\ slept = Awake
  /\ requests = 0 /\ answers = {}
  /\ age = Ttl + MaxTime /\ setBack = 0
  /\ waiting = -1 /\ burst = 0 /\ lowered = FALSE

-----------------------------------------------------------------------------
(***************************************************************************)
(* packet_callback on a TCP packet of the host.                            *)
(***************************************************************************)

\* Mutant: a state is used for one step longer than it lives.
ExpiredLate == left < -1

Expired == left < 0

\* Mutants: drops are not compared with the maximum, drops are not counted.
RefuseAlways ==
  /\ slept = Awake /\ Expired
  /\ udpReqCalled
  /\ packetDrops' = packetDrops + 1
  /\ waiting' = IF waiting = -1 THEN -1 ELSE waiting + 1
  /\ UNCHANGED <<manager, udpReqCalled, bursts, network, licence>>

RefuseUncounted ==
  /\ slept = Awake /\ Expired
  /\ udpReqCalled /\ packetDrops # MaxDrops
  /\ waiting' = IF waiting \in {-1, MaxDrops} THEN waiting ELSE waiting + 1
  /\ UNCHANGED <<manager, counters, bursts, network, licence>>

\* Still waiting for the answer: the packet is dropped and counted.
Refuse ==
  /\ slept = Awake /\ Expired
  /\ udpReqCalled /\ packetDrops # MaxDrops
  /\ packetDrops' = packetDrops + 1
  /\ waiting' = IF waiting = -1 THEN -1 ELSE waiting + 1
  /\ UNCHANGED <<manager, udpReqCalled, bursts, network, licence>>

\* Requests and answers beyond the bound are lost.
Requested == IF requests + Cardinality(answers) < MaxRequests THEN requests + 1 ELSE requests

\* Mutant: the result of cs_req_state is taken for a Boolean.
AskInverted(sent) ==
  /\ slept = Awake /\ Expired
  /\ ~udpReqCalled \/ packetDrops = MaxDrops
  /\ packetDrops' = IF packetDrops = MaxDrops THEN 0 ELSE packetDrops
  /\ udpReqCalled' = ~sent
  /\ requests' = IF sent THEN Requested ELSE requests
  /\ waiting' = IF sent THEN 0 ELSE waiting
  /\ UNCHANGED <<manager, bursts, answers, licence>>

\* Nothing asked yet, or MaxDrops packets ago: a request, which may fail to be
\* sent.  The packet is dropped.
Ask(sent) ==
  /\ slept = Awake /\ Expired
  /\ ~udpReqCalled \/ packetDrops = MaxDrops
  /\ packetDrops' = IF packetDrops = MaxDrops THEN 0 ELSE packetDrops
  /\ udpReqCalled' = sent
  /\ requests' = IF sent THEN Requested ELSE requests
  /\ waiting' = IF sent THEN 0 ELSE waiting
  /\ UNCHANGED <<manager, bursts, answers, licence>>

\* With a state the handler forgets about requests, whatever the state says.
HasState == /\ slept = Awake /\ ~Expired
            /\ udpReqCalled' = FALSE
            /\ packetDrops' = 0

Pass ==
  /\ HasState
  /\ state.send
  /\ UNCHANGED <<manager, bursts, network, licence, waiting>>

\* The counter is a short, the limit an unsigned one: int compares them.
Spent == transferred = state.value

\* Mutant: one packet more in each burst after the first.
LimitLate ==
  /\ HasState
  /\ ~state.send
  /\ Spent => state.delay = 0
  /\ transferred' = IF Spent THEN 0 ELSE Short(transferred + 1)
  /\ burst' = IF Spent THEN 1 ELSE IF burst < Many THEN burst + 1 ELSE burst
  /\ lowered' = (lowered /\ ~Spent)
  /\ UNCHANGED <<manager, slept, network, licence, waiting>>

\* A limited packet is marked (cwr, window) and passes ...
Limit ==
  /\ HasState
  /\ ~state.send
  /\ Spent => state.delay = 0
  /\ transferred' = Short((IF Spent THEN 0 ELSE transferred) + 1)
  /\ burst' = IF Spent THEN 1 ELSE IF burst < Many THEN burst + 1 ELSE burst
  /\ lowered' = (lowered /\ ~Spent)
  /\ UNCHANGED <<manager, slept, network, licence, waiting>>

\* ... but when value packets have passed the handler first pauses for delay ...
Pause ==
  /\ HasState
  /\ ~state.send
  /\ Spent /\ state.delay > 0
  /\ slept' = 0
  /\ UNCHANGED <<manager, transferred, burst, lowered, network, licence, waiting>>

\* ... and lets the packet pass when it wakes, without another look at the state.
Resume ==
  /\ slept # Awake /\ slept >= state.delay
  /\ slept' = Awake
  /\ transferred' = Short(1) /\ burst' = 1 /\ lowered' = FALSE
  /\ UNCHANGED <<manager, counters, network, licence, waiting>>

TcpPacket == Refuse \/ (\E sent \in BOOLEAN : Ask(sent)) \/ Pass \/ Limit \/ Pause \/ Resume

-----------------------------------------------------------------------------
(***************************************************************************)
(* The server, the network and the clock.                                  *)
(***************************************************************************)

\* packet_callback on an answer, and update_state.  The network may keep a duplicate.
Answer(a) ==
  /\ slept = Awake
  /\ a \in answers
  /\ state' = a
  /\ left' = Ttl
  /\ answers' \in {answers, answers \ {a}}
  /\ age' = 0 /\ setBack' = 0
  /\ waiting' = -1
  /\ lowered' = (lowered \/ (~a.send /\ a.value < burst))
  /\ UNCHANGED <<counters, transferred, slept, burst, requests>>

\* udp_server: the answer is what the server was started with, which is another
\* time something else.
Serve(a) ==
  /\ requests > 0
  /\ requests' = requests - 1
  /\ answers' = answers \cup {a}
  /\ UNCHANGED <<manager, counters, bursts, licence, waiting>>

LoseRequest ==
  /\ requests > 0
  /\ requests' = requests - 1
  /\ UNCHANGED <<manager, counters, bursts, answers, licence, waiting>>

LoseAnswer(a) ==
  /\ a \in answers
  /\ answers' = answers \ {a}
  /\ UNCHANGED <<manager, counters, bursts, requests, licence, waiting>>

Tick ==
  /\ left > -MaxTime \/ (slept # Awake /\ slept < state.delay)
  /\ left' = left - 1
  /\ age' = age + 1
  /\ slept' = IF slept = Awake THEN slept ELSE slept + 1
  /\ UNCHANGED <<state, counters, transferred, burst, lowered, network, setBack, waiting>>

\* system_clock is not steady: it is set by hand and by NTP.
SetClock(d) ==
  /\ left - d >= -MaxTime
  /\ left' = left - d
  /\ setBack' = IF d < 0 THEN setBack - d ELSE setBack
  /\ setBack' <= MaxSetBack
  /\ UNCHANGED <<state, counters, bursts, network, age, waiting>>

Next ==
  \/ TcpPacket
  \/ \E a \in Answers : Answer(a) \/ Serve(a) \/ LoseAnswer(a)
  \/ LoseRequest
  \/ Tick
  \/ \E d \in ClockSteps : SetClock(d)

Spec == Init /\ [][Next]_vars

(***************************************************************************)
(* The host goes on sending (TCP retransmits what is dropped), the handler *)
(* wakes from its pauses as time goes on, a request can be sent now and    *)
(* then, and neither requests nor answers are always lost.                 *)
(***************************************************************************)
Fairness ==
  /\ WF_vars(TcpPacket) /\ WF_vars(Tick)
  /\ SF_vars(Ask(TRUE))
  /\ SF_vars(\E a \in Answers : Serve(a))
  /\ SF_vars(\E a \in Answers : Answer(a))

FairSpec == Spec /\ Fairness

-----------------------------------------------------------------------------
\* Every variable keeps its type; the counters of the handler stay in a short.
TypeOK ==
  /\ state \in CongestionState
  /\ left \in Int
  /\ udpReqCalled \in BOOLEAN
  /\ packetDrops \in 0..MaxDrops
  /\ transferred \in -Half..Half - 1
  /\ slept \in Nat \cup {Awake}
  /\ requests \in 0..MaxRequests
  /\ answers \subseteq Answers /\ IsFiniteSet(answers)
  /\ age \in Nat /\ setBack \in 0..MaxSetBack
  /\ waiting \in Int
  /\ burst \in Nat /\ lowered \in BOOLEAN

(***************************************************************************)
(* "Do not let any packet pass if we don't have congestion state"          *)
(* (tcp.hpp, line 92): a packet of the host that passes, at once or after  *)
(* the pause before a burst, was taken up at most Ttl after the last       *)
(* answer, longer only by what the clock was set back meanwhile.           *)
(***************************************************************************)
AgeWhenTaken == IF slept = Awake THEN age ELSE age - slept

PassesAreLicensed ==
  [][Pass \/ Limit \/ Resume => AgeWhenTaken <= Ttl + setBack]_vars

(***************************************************************************)
(* No request is sent while another one may still be answered: MaxDrops    *)
(* packets are dropped before a request counts as timed out (csm.hpp,      *)
(* line 3), unless the request could not be sent in the first place, or    *)
(* the clock was set back, which may revive a state and end the waiting.   *)
(***************************************************************************)
NoEarlyRetry ==
  [][\A sent \in BOOLEAN :
       Ask(sent) => waiting = -1 \/ waiting = MaxDrops \/ setBack > 0]_vars

(***************************************************************************)
(* A limited host pauses after value packets, in every burst, if the limit *)
(* is one the counter can reach and was not lowered below what the burst   *)
(* has had.                                                                *)
(***************************************************************************)
Reachable == state.value \in 1..Half - 1

BurstWithinValue ==
  [][Limit \/ Resume => burst' <= state.value \/ ~Reachable \/ lowered']_vars

(***************************************************************************)
(* The host is never shut out for good: without a state, one arrives.      *)
(***************************************************************************)
StateArrives == Expired ~> ~Expired
=============================================================================
