------------------------ MODULE CongestionLimiterProofs ------------------------
(***************************************************************************)
(* What the congestion limiter promises, for every set of answers, every   *)
(* time to live and every width of the counter.                            *)
(***************************************************************************)
EXTENDS CongestionLimiter, FiniteSetTheorems, TLAPS

\* A number that fits stays as it is, every other one ends up in a short.
LEMMA ShortFits ==
  /\ \A x \in -Half..Half - 1 : Short(x) = x
  /\ \A x \in Int : Short(x) \in -Half..Half - 1
<1>1. PICK h \in Nat \ {0} : h = Half
  BY LimiterAssumption
<1>2. \A x \in -h..h - 1 : (x + h) % (2 * h) = x + h
  OBVIOUS
<1>3. \A x \in Int : (x + h) % (2 * h) \in 0..2 * h - 1
  OBVIOUS
<1>4. QED
  BY <1>1, <1>2, <1>3 DEF Short

LEMMA InitTypes == Init => TypeOK
<1> SUFFICES ASSUME Init PROVE TypeOK
  OBVIOUS
<1>1. /\ Half \in Nat \ {0} /\ Ttl \in Nat /\ MaxDrops \in Nat /\ MaxRequests \in Nat
      /\ MaxTime \in Nat /\ MaxSetBack \in Nat
  BY LimiterAssumption
<1>2. 0 \in UShort /\ 0 \in -Half..Half - 1 /\ -MaxTime \in Int /\ Ttl + MaxTime \in Nat
  BY <1>1 DEF UShort
<1>3. state \in CongestionState
  BY <1>2 DEF Init, CongestionState
<1>4. /\ udpReqCalled \in BOOLEAN /\ lowered \in BOOLEAN
      /\ answers \subseteq Answers /\ IsFiniteSet(answers)
  BY FS_EmptySet DEF Init
<1>5. left \in Int /\ waiting \in Int /\ burst \in Nat /\ slept \in Nat \cup {Awake}
      /\ age \in Nat /\ setBack \in 0..MaxSetBack
  BY <1>1, <1>2 DEF Init
<1>6. packetDrops \in 0..MaxDrops /\ transferred \in -Half..Half - 1
      /\ requests \in 0..MaxRequests
  BY <1>1, <1>2 DEF Init
<1>7. QED
  BY <1>3, <1>4, <1>5, <1>6 DEF TypeOK

LEMMA HasStateTypes ==
  HasState => udpReqCalled' \in BOOLEAN /\ packetDrops' \in 0..MaxDrops
<1> SUFFICES ASSUME HasState PROVE udpReqCalled' \in BOOLEAN /\ packetDrops' \in 0..MaxDrops
  OBVIOUS
<1>1. udpReqCalled' \in BOOLEAN
  BY DEF HasState
<1>2. packetDrops' \in 0..MaxDrops
  BY LimiterAssumption DEF HasState
<1>3. QED
  BY <1>1, <1>2

LEMMA StepTypes == TypeOK /\ [Next]_vars => TypeOK'
<1> SUFFICES ASSUME TypeOK, [Next]_vars PROVE TypeOK'
  OBVIOUS
<1> USE LimiterAssumption DEF TypeOK, manager, counters, bursts, network, licence
<1>1. CASE Refuse
  <2>1. packetDrops' \in 0..MaxDrops
    <3>1. PICK m \in Nat : m = MaxDrops
      OBVIOUS
    <3>2. packetDrops \in 0..m /\ packetDrops # m /\ packetDrops' = packetDrops + 1
      BY <1>1, <3>1 DEF Refuse
    <3>3. QED
      BY <3>1, <3>2
  <2>2. waiting' \in Int
    BY <1>1 DEF Refuse
  <2>3. udpReqCalled' \in BOOLEAN
    BY <1>1 DEF Refuse
  <2>4. QED
    BY <1>1, <2>1, <2>2, <2>3 DEF Refuse
<1>2. ASSUME NEW sent \in BOOLEAN, Ask(sent) PROVE TypeOK'
  <2>1. requests' \in 0..MaxRequests
    <3>1. Requested \in 0..MaxRequests
      <4>1. PICK c \in Nat : c = Cardinality(answers)
        BY FS_CardinalityType
      <4>2. QED
        BY <4>1 DEF Requested
    <3>2. QED
      BY <1>2, <3>1 DEF Ask
  <2>2. QED
    BY <1>2, <2>1 DEF Ask
<1>3. CASE Pass
  BY <1>3, HasStateTypes DEF Pass
<1>4. CASE Limit
  <2>1. (IF Spent THEN 0 ELSE transferred) + 1 \in Int
    OBVIOUS
  <2>2. transferred' \in -Half..Half - 1
    BY <1>4, <2>1, ShortFits DEF Limit
  <2>3. burst' \in Nat
    BY <1>4 DEF Limit
  <2>4. lowered' \in BOOLEAN
    BY <1>4 DEF Limit
  <2>5. QED
    BY <1>4, <2>2, <2>3, <2>4, HasStateTypes DEF Limit
<1>5. CASE Pause
  BY <1>5, HasStateTypes DEF Pause
<1>6. CASE Resume
  <2>1. Short(1) \in -Half..Half - 1
    BY ShortFits
  <2>2. transferred' \in -Half..Half - 1 /\ burst' \in Nat /\ lowered' \in BOOLEAN
    BY <1>6, <2>1 DEF Resume
  <2>3. QED
    BY <1>6, <2>2 DEF Resume
<1>7. ASSUME NEW a \in Answers, Answer(a) \/ Serve(a) \/ LoseAnswer(a) PROVE TypeOK'
  <2>1. CASE Answer(a)
    <3>1. lowered' \in BOOLEAN
      BY <2>1 DEF Answer
    <3>2. IsFiniteSet(answers')
      BY <2>1, FS_RemoveElement DEF Answer
    <3>3. state' \in CongestionState /\ answers' \subseteq Answers
      BY <2>1 DEF Answer
    <3>4. left' \in Int /\ age' \in Nat /\ setBack' \in 0..MaxSetBack /\ waiting' \in Int
      BY <2>1 DEF Answer
    <3>5. QED
      BY <2>1, <3>1, <3>2, <3>3, <3>4 DEF Answer
  <2>2. CASE Serve(a)
    <3>1. IsFiniteSet(answers')
      BY <2>2, FS_AddElement DEF Serve
    <3>2. QED
      BY <2>2, <3>1 DEF Serve
  <2>4. CASE LoseAnswer(a)
    <3>1. IsFiniteSet(answers')
      BY <2>4, FS_RemoveElement DEF LoseAnswer
    <3>2. QED
      BY <2>4, <3>1 DEF LoseAnswer
  <2>5. QED
    BY <1>7, <2>1, <2>2, <2>4
<1>8. CASE LoseRequest
  BY <1>8 DEF LoseRequest
<1>9. CASE Tick
  BY <1>9 DEF Tick, Awake
<1>10. ASSUME NEW d \in ClockSteps, SetClock(d) PROVE TypeOK'
  BY <1>10 DEF SetClock
<1>11. CASE UNCHANGED vars
  BY <1>11 DEF vars
<1>12. QED
  BY <1>1, <1>2, <1>3, <1>4, <1>5, <1>6, <1>7, <1>8, <1>9, <1>10, <1>11 DEF Next, TcpPacket

(***************************************************************************)
(* Every variable of the limiter keeps its type.                           *)
(***************************************************************************)
THEOREM TypeCorrect == Spec => []TypeOK
<1>1. Init => TypeOK
  BY InitTypes
<1>2. TypeOK /\ [Next]_vars => TypeOK'
  BY StepTypes
<1>3. QED
  BY <1>1, <1>2, PTL DEF Spec

-----------------------------------------------------------------------------
(***************************************************************************)
(* How long a state is held, and how drops are counted.                    *)
(***************************************************************************)

\* The state is not held for longer than it may be, but for what the clock was
\* set back ...
Licensed == left <= Ttl + setBack - age

\* ... a packet the handler pauses on was taken up under it ...
PausesLicensed == slept # Awake => age - slept <= Ttl + setBack

\* ... and while an answer is due, the handler counts the drops, or has failed
\* to ask again.
CountsDrops ==
  /\ ~udpReqCalled => packetDrops = 0
  /\ waiting # -1 /\ setBack = 0 =>
       /\ Expired
       /\ udpReqCalled => packetDrops = waiting
       /\ ~udpReqCalled => waiting = MaxDrops

StateInv == TypeOK /\ Licensed /\ PausesLicensed /\ CountsDrops

LEMMA InitState == Init => StateInv
  BY InitTypes, LimiterAssumption
     DEF Init, StateInv, Licensed, PausesLicensed, CountsDrops

LEMMA StepState == StateInv /\ [Next]_vars => StateInv'
<1> SUFFICES ASSUME StateInv, [Next]_vars PROVE StateInv'
  OBVIOUS
<1>1. TypeOK /\ TypeOK'
  BY StepTypes DEF StateInv
<1> USE <1>1, LimiterAssumption
    DEF TypeOK, StateInv, Licensed, PausesLicensed, CountsDrops, Expired, Awake,
        manager, counters, bursts, network, licence
<1>2. CASE Refuse
  BY <1>2 DEF Refuse
<1>3. ASSUME NEW sent \in BOOLEAN, Ask(sent) PROVE StateInv'
  <2>1. Licensed' /\ PausesLicensed'
    BY <1>3 DEF Ask
  <2>2. CountsDrops'
    <3>1. ~udpReqCalled => packetDrops' = 0
      BY <1>3 DEF Ask
    <3>2. packetDrops' = 0
      BY <1>3, <3>1 DEF Ask
    <3>3. Expired' /\ setBack' = setBack
      BY <1>3 DEF Ask
    <3>4. CASE sent
      BY <1>3, <3>2, <3>3, <3>4 DEF Ask
    <3>5. CASE ~sent
      <4>1. waiting # -1 /\ setBack = 0 => waiting = MaxDrops
        BY <1>3 DEF Ask
      <4>2. waiting' = waiting /\ ~udpReqCalled'
        BY <1>3, <3>5 DEF Ask
      <4>3. QED
        BY <3>2, <3>3, <4>1, <4>2
    <3>6. QED
      BY <3>4, <3>5
  <2>3. QED
    BY <2>1, <2>2
<1>4. CASE Pass \/ Limit \/ Pause
  <2>1. CountsDrops'
    <3>1. ~Expired /\ packetDrops' = 0 /\ waiting' = waiting /\ setBack' = setBack
      BY <1>4 DEF Pass, Limit, Pause, HasState
    <3>2. QED
      BY <3>1
  <2>2. Licensed' /\ PausesLicensed'
    <3>1. left' = left /\ age' = age /\ setBack' = setBack
      BY <1>4 DEF Pass, Limit, Pause
    <3>2. ~(left < 0) /\ slept = -1 /\ slept' \in {-1, 0}
      BY <1>4 DEF Pass, Limit, Pause, HasState
    <3>3. age <= Ttl + setBack
      <4>1. age \in Int /\ setBack \in Int /\ Ttl \in Int /\ left \in Int
        OBVIOUS
      <4>2. left <= Ttl + setBack - age /\ 0 <= left
        BY <3>2, <4>1
      <4>3. QED
        BY <4>1, <4>2
    <3>4. Licensed'
      BY <3>1
    <3>5. age - 0 = age
      OBVIOUS
    <3>6. PausesLicensed'
      BY <3>1, <3>2, <3>3, <3>5
    <3>7. QED
      BY <3>4, <3>6
  <2>3. QED
    BY <2>1, <2>2
<1>5. CASE Resume
  BY <1>5 DEF Resume
<1>6. ASSUME NEW a \in Answers, Answer(a) \/ Serve(a) \/ LoseAnswer(a) PROVE StateInv'
  <2>1. CASE Answer(a)
    <3>1. left' = Ttl /\ age' = 0 /\ setBack' = 0 /\ slept = -1 /\ slept' = slept
      BY <2>1 DEF Answer
    <3>5. Licensed' /\ PausesLicensed'
      <4>1. Ttl <= Ttl + 0 - 0
        OBVIOUS
      <4>2. Licensed'
        BY <3>1, <4>1
      <4>3. slept' = -1
        BY <3>1
      <4>4. QED
        BY <4>2, <4>3
    <3>2. waiting' = -1 /\ packetDrops' = packetDrops /\ udpReqCalled' = udpReqCalled
      BY <2>1 DEF Answer
    <3>3. CountsDrops'
      BY <3>2
    <3>4. QED
      BY <3>3, <3>5
  <2>2. CASE Serve(a)
    BY <2>2 DEF Serve
  <2>3. CASE LoseAnswer(a)
    BY <2>3 DEF LoseAnswer
  <2>4. QED
    BY <1>6, <2>1, <2>2, <2>3
<1>7. CASE LoseRequest
  BY <1>7 DEF LoseRequest
<1>8. CASE Tick
  BY <1>8 DEF Tick
<1>9. ASSUME NEW d \in ClockSteps, SetClock(d) PROVE StateInv'
  BY <1>9 DEF SetClock
<1>10. CASE UNCHANGED vars
  BY <1>10 DEF vars
<1>11. QED
  BY <1>2, <1>3, <1>4, <1>5, <1>6, <1>7, <1>8, <1>9, <1>10 DEF Next, TcpPacket

(***************************************************************************)
(* No packet of the host passes that was not taken up under a state that   *)
(* is at most Ttl old, and what the clock was set back since.              *)
(***************************************************************************)
THEOREM Licence == Spec => PassesAreLicensed
<1>1. StateInv => (Pass \/ Limit \/ Resume => AgeWhenTaken <= Ttl + setBack)
  BY LimiterAssumption
     DEF StateInv, TypeOK, Licensed, PausesLicensed, Pass, Limit, Resume, HasState, Expired,
         AgeWhenTaken, Awake
<1>2. QED
  BY <1>1, InitState, StepState, PTL DEF Spec, PassesAreLicensed

(***************************************************************************)
(* A request is repeated only after MaxDrops packets were dropped waiting  *)
(* for its answer, or after the clock was set back.                        *)
(***************************************************************************)
THEOREM Retry == Spec => NoEarlyRetry
<1>1. StateInv => \A sent \in BOOLEAN :
                    Ask(sent) => waiting = -1 \/ waiting = MaxDrops \/ setBack > 0
  BY DEF StateInv, TypeOK, CountsDrops, Ask
<1>2. QED
  BY <1>1, InitState, StepState, PTL DEF Spec, NoEarlyRetry

-----------------------------------------------------------------------------
(***************************************************************************)
(* The short counts a burst until it wraps, and no burst is over its limit *)
(* unless the limit fell below it.                                         *)
(***************************************************************************)
BurstInv == /\ TypeOK
            /\ burst < Half => transferred = burst
            /\ ~lowered /\ ~state.send /\ Reachable => burst <= state.value

\* What Limit and Resume do to a burst.
LEMMA BurstStep ==
  ASSUME BurstInv, TypeOK', Limit \/ Resume
  PROVE  /\ BurstInv'
         /\ burst' <= state.value \/ ~Reachable \/ lowered'
<1> USE LimiterAssumption DEF BurstInv, TypeOK
<1>1. state' = state /\ state.value \in Nat /\ Half \in Nat \ {0}
  <2>1. state' = state
    BY DEF Limit, Resume, manager
  <2>2. QED
    BY <2>1 DEF CongestionState, UShort
<1>2. CASE Resume \/ (Limit /\ Spent)
  <2>1. transferred' = Short(1) /\ burst' = 1 /\ ~lowered'
    BY <1>2 DEF Resume, Limit
  <2>2. 1 < Half => Short(1) = 1
    BY ShortFits
  <2>3. QED
    BY <1>1, <2>1, <2>2 DEF Reachable
<1>3. CASE Limit /\ ~Spent
  <2>1. /\ transferred' = Short(transferred + 1)
        /\ burst' = IF burst < Many THEN burst + 1 ELSE burst
        /\ lowered' = lowered /\ ~state.send
    BY <1>3 DEF Limit
  <2>2. burst' < Half => transferred' = burst'
    <3>1. ASSUME burst' < Half
          PROVE  burst' = burst + 1 /\ transferred = burst /\ burst + 1 \in -Half..Half - 1
      BY <1>1, <2>1, <3>1 DEF Many
    <3>2. QED
      BY <2>1, <3>1, ShortFits
  <2>3. ~lowered' /\ Reachable => burst' <= state.value
    BY <1>1, <1>3, <2>1 DEF Reachable, Spent
  <2>4. QED
    BY <1>1, <2>1, <2>2, <2>3 DEF Reachable
<1>4. QED
  BY <1>2, <1>3

(***************************************************************************)
(* A host pauses after every burst the limit allows, whatever limits the   *)
(* server names: unless the signed counter cannot reach the limit, or the  *)
(* limit fell below what the burst had had.                                *)
(***************************************************************************)
THEOREM Bursts == Spec => BurstWithinValue
<1>1. Init => BurstInv
  BY InitTypes DEF Init, BurstInv
<1>2. BurstInv /\ [Next]_vars
        => BurstInv' /\ (Limit \/ Resume => burst' <= state.value \/ ~Reachable \/ lowered')
  <2> SUFFICES ASSUME BurstInv, [Next]_vars
               PROVE  /\ BurstInv'
                      /\ Limit \/ Resume => burst' <= state.value \/ ~Reachable \/ lowered'
    OBVIOUS
  <2>1. TypeOK'
    BY StepTypes DEF BurstInv
  <2>2. CASE Limit \/ Resume
    BY <2>1, <2>2, BurstStep
  <2>3. CASE ~(Limit \/ Resume)
    <3>1. ASSUME NEW a \in Answers, Answer(a) PROVE BurstInv'
      <4>1. /\ state' = a /\ burst' = burst /\ transferred' = transferred
            /\ lowered' = (lowered \/ (~a.send /\ a.value < burst))
        BY <3>1 DEF Answer
      <4>2. a.value \in Int /\ burst \in Int
        BY LimiterAssumption DEF BurstInv, TypeOK, CongestionState, UShort
      <4>5. state'.send = a.send /\ state'.value = a.value
        BY <4>1
      <4>3. ~lowered' /\ ~state'.send => burst' <= state'.value
        <5>1. PICK v \in Int : v = a.value
          BY <4>2
        <5>2. PICK b \in Int : b = burst
          BY <4>2
        <5>3. v < b \/ b <= v
          OBVIOUS
        <5>4. QED
          BY <4>1, <4>5, <5>1, <5>2, <5>3
      <4>4. QED
        BY <2>1, <4>1, <4>3 DEF BurstInv
    <3>2. ASSUME state' = state, transferred' = transferred, burst' = burst, lowered' = lowered
          PROVE  BurstInv'
      BY <2>1, <3>2 DEF BurstInv, Reachable
    <3>3. QED
      BY <2>3, <3>1, <3>2
         DEF Next, TcpPacket, Refuse, Ask, Pass, Pause, Serve, LoseAnswer, LoseRequest, Tick,
             SetClock, vars, manager, bursts
  <2>4. QED
    BY <2>2, <2>3
<1>3. QED
  BY <1>1, <1>2, PTL DEF Spec, BurstWithinValue
=============================================================================
