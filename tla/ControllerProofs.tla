--------------------------- MODULE ControllerProofs ---------------------------
(***************************************************************************)
(* The application forgets no device, and no host while devices stay up,   *)
(* for every network and every number of loads.                            *)
(***************************************************************************)
EXTENDS Controller, TLAPS

-----------------------------------------------------------------------------
(***************************************************************************)
(* Tasks, queues and what they hold.                                       *)
(***************************************************************************)
LEMMA TasksDiffer ==
  /\ \A c, d, s, t : SetUpDevice(c, s) = SetUpDevice(d, t) => c = d /\ s = t
  /\ \A c, d : SetUpAll(c) = SetUpAll(d) => c = d
  /\ \A h, g : Learn(h) = Learn(g) => h = g
  /\ \A c, d, s : SetUpDevice(c, s) # SetUpAll(d)
  /\ \A c, s, h : SetUpDevice(c, s) # Learn(h)
  /\ \A c, h : SetUpAll(c) # Learn(h)
  BY DEF SetUpDevice, SetUpAll, Learn

LEMMA TasksAreTasks ==
  /\ \A c \in Component, s \in Switch : SetUpDevice(c, s) \in Task
  /\ \A c \in Component : SetUpAll(c) \in Task
  /\ \A h \in Host : Learn(h) \in Task
  BY DEF Task

LEMMA ElementsOfConcat ==
  ASSUME NEW S, NEW q \in Seq(S), NEW r \in Seq(S)
  PROVE  Elements(q \o r) = Elements(q) \cup Elements(r)
<1>1. Len(q) \in Nat /\ Len(r) \in Nat /\ Len(q \o r) = Len(q) + Len(r)
  OBVIOUS
<1>2. \A i \in 1..Len(q) : (q \o r)[i] = q[i]
  OBVIOUS
<1>3. \A i \in 1..Len(r) : (q \o r)[Len(q) + i] = r[i]
  OBVIOUS
<1>4. \A x \in Elements(q) : x \in Elements(q \o r)
  BY <1>1, <1>2 DEF Elements
<1>5. \A x \in Elements(r) : x \in Elements(q \o r)
  BY <1>1, <1>3, SMTT(20) DEF Elements
<1>6. \A x \in Elements(q \o r) : x \in Elements(q) \cup Elements(r)
  <2> SUFFICES ASSUME NEW i \in 1..Len(q \o r)
               PROVE  (q \o r)[i] \in Elements(q) \cup Elements(r)
    BY DEF Elements
  <2>1. CASE i <= Len(q)
    BY <1>1, <1>2, <2>1 DEF Elements
  <2>2. CASE i > Len(q)
    <3>1. PICK j \in Nat : j = i - Len(q)
      BY <1>1, <2>2
    <3>2. j \in 1..Len(r) /\ i = Len(q) + j
      BY <1>1, <2>2, <3>1
    <3>3. QED
      BY <1>3, <3>2 DEF Elements
  <2>3. QED
    BY <1>1, <2>1, <2>2
<1>7. QED
  BY <1>4, <1>5, <1>6

LEMMA ElementsOfAppend ==
  ASSUME NEW S, NEW q \in Seq(S), NEW x \in S
  PROVE  Elements(Append(q, x)) = Elements(q) \cup {x}
<1>1. <<x>> \in Seq(S) /\ Elements(<<x>>) = {x}
  BY DEF Elements
<1>2. PICK r \in Seq(S) : r = <<x>> /\ Elements(r) = {x}
  BY <1>1
<1>3. Append(q, x) = q \o r
  BY <1>2
<1>4. Elements(q \o r) = Elements(q) \cup Elements(r)
  BY ElementsOfConcat
<1>5. QED
  BY <1>2, <1>3, <1>4

LEMMA ElementsOfTail ==
  ASSUME NEW S, NEW q \in Seq(S), q # <<>>
  PROVE  /\ Tail(q) \in Seq(S)
         /\ Head(q) \in S
         /\ \A x \in Elements(q) : x = Head(q) \/ x \in Elements(Tail(q))
<1>1. Tail(q) \in Seq(S) /\ Head(q) \in S
  OBVIOUS
<1>2. ASSUME NEW i \in 1..Len(q), i # 1 PROVE q[i] \in Elements(Tail(q))
  <2>1. i - 1 \in 1..Len(Tail(q)) /\ Tail(q)[i - 1] = q[i]
    BY <1>2
  <2>2. DOMAIN Tail(q) = 1..Len(Tail(q))
    BY <1>1
  <2>3. PICK j \in DOMAIN Tail(q) : Tail(q)[j] = q[i]
    BY <2>1, <2>2
  <2>4. QED
    BY <2>3 DEF Elements
<1>3. q[1] = Head(q) /\ DOMAIN q = 1..Len(q)
  OBVIOUS
<1>4. QED
  BY <1>1, <1>2, <1>3 DEF Elements

LEMMA Short ==
  ASSUME NEW S, NEW x \in S, NEW y \in S
  PROVE  /\ <<>> \in Seq(S) /\ <<x>> \in Seq(S) /\ <<x, y>> \in Seq(S)
         /\ Elements(<<>>) = {} /\ Elements(<<x>>) = {x} /\ Elements(<<x, y>>) = {x, y}
  BY DEF Elements

\* Taking up a task takes that task out of one queue.
LEMMA RunsPops ==
  ASSUME queue \in [Activation -> Seq(Task)], NEW a \in Activation, NEW task, Runs(a, task)
  PROVE  /\ queue' \in [Activation -> Seq(Task)]
         /\ \A b \in Activation : \A t \in Elements(queue[b]) :
              t \in Elements(queue'[b]) \/ (b = a /\ t = task)
<1>1. queue[a] \in Seq(Task) /\ queue[a] # <<>> /\ Head(queue[a]) = task
  BY DEF Runs
<1>2. Tail(queue[a]) \in Seq(Task)
  BY <1>1, ElementsOfTail
<1>3. queue' = [queue EXCEPT ![a] = Tail(queue[a])]
  BY DEF Runs
<1>4. \A t \in Elements(queue[a]) : t = task \/ t \in Elements(Tail(queue[a]))
  BY <1>1, ElementsOfTail
<1>5. QED
  BY <1>2, <1>3, <1>4

\* New tasks go to one queue.
LEMMA ExecutePuts ==
  ASSUME queue \in [Activation -> Seq(Task)], NEW a \in Activation, NEW q \in Seq(Task),
         Execute(a, q)
  PROVE  /\ queue' \in [Activation -> Seq(Task)]
         /\ \A b \in Activation : Elements(queue[b]) \subseteq Elements(queue'[b])
         /\ Elements(q) \subseteq Elements(queue'[a])
<1>1. queue[a] \in Seq(Task) /\ queue[a] \o q \in Seq(Task)
  OBVIOUS
<1>2. queue' = [queue EXCEPT ![a] = queue[a] \o q]
  BY DEF Execute
<1>3. Elements(queue[a] \o q) = Elements(queue[a]) \cup Elements(q)
  BY <1>1, ElementsOfConcat
<1>4. QED
  BY <1>1, <1>2, <1>3
-----------------------------------------------------------------------------
(***************************************************************************)
(* Types.                                                                  *)
(***************************************************************************)
LEMMA RulesAreEntries ==
  /\ \A c \in Component, s \in Switch : DeviceEntries(c, s) \subseteq Entry
  /\ \A h \in Host : HostRules(h) \subseteq Entry
<1>1. Host \subseteq Address /\ Broadcast \in Address
  BY DEF Address
<1>2. \A s \in Switch : BroadcastRule(s) \in Rule /\ SinkRule(s) \in Rule /\ MetricRule(s) \in Rule
  BY <1>1 DEF BroadcastRule, SinkRule, MetricRule, Rule
<1>3. \A s \in Switch, h \in Host : UnicastRule(s, h) \in Rule
  BY <1>1 DEF UnicastRule, Rule
<1>4. QED
  BY <1>2, <1>3 DEF DeviceEntries, BridgingEntries, Group, BridgingRules, MetricRules, HostRules, Entry

LEMMA TasksAreQueued ==
  /\ \A s \in Switch : DeviceTasks(s) \in Seq(Task)
  /\ \A h \in Host : HostTasks(h) \in Seq(Task)
  BY TasksAreTasks DEF DeviceTasks, HostTasks, Component

LEMMA ApplyTypes ==
  ASSUME store \subseteq Entry, removing \subseteq Entry, NEW E \in SUBSET Entry, Apply(E)
  PROVE  store' \subseteq Entry /\ removing' \subseteq Entry
  BY DEF Apply

LEMMA RemoveTypes ==
  ASSUME store \subseteq Entry, removing \subseteq Entry, NEW E \in SUBSET Entry, Remove(E)
  PROVE  store' \subseteq Entry /\ removing' \subseteq Entry
  BY DEF Remove

LEMMA FoundAreEntries ==
  TypeOK => Flows \subseteq Entry /\ Groups \subseteq Entry
  BY DEF TypeOK, Flows, Groups

\* The phases of the application, on which the types rest.
LifecycleInv ==
  /\ phase # "off" => activation \in Activation
  /\ listening # {} => phase \in {"activating", "on"}
  /\ groupsLeft # {} => phase \in {"cleaning", "stopping"}
  /\ "metrics" \in listening => "bridging" \in listening

LEMMA StepLifecycle == TypeOK /\ LifecycleInv /\ [Next]_vars => LifecycleInv'
<1> SUFFICES ASSUME TypeOK, LifecycleInv, [Next]_vars PROVE LifecycleInv'
  OBVIOUS
<1>0. MaxLoads \in Nat /\ activation \in 0..MaxLoads
  BY ControllerAssumption DEF TypeOK
<1> USE DEF LifecycleInv
<1>1. CASE Load
  BY <1>0, <1>1 DEF Load, Activation
<1>2. CASE Unload
  BY <1>2 DEF Unload
<1>3. CASE CleaningUp
  BY <1>3 DEF CleaningUp, CleanUpAgain, RemoveGroups, CleanedUp, CleanUpOnce
<1>4. ASSUME NEW c \in Component, Activate(c) PROVE LifecycleInv'
  BY <1>4 DEF Activate
<1>5. CASE UNCHANGED lifecycle
  BY <1>5 DEF lifecycle
<1>6. ASSUME NEW a \in Activation, NEW c \in Component, TimerFires(a, c) PROVE UNCHANGED lifecycle
  BY <1>6 DEF TimerFires
<1>7. ASSUME NEW a \in Activation, Executor(a) PROVE UNCHANGED lifecycle
  BY <1>7 DEF Executor, RunSetUpDevice, RunLearn, RunSetUpAllMetrics, RunSetUpAllBridging, SetUpNext
<1>8. CASE DeviceEvent \/ HostEvent
  BY <1>5, <1>8 DEF DeviceEvent, HostEvent
<1>9. CASE Environment
  BY <1>5, <1>9 DEF Environment, DeviceUp, DeviceDown, Configure, HostAdded, HostRemoved
<1>10. ASSUME NEW s \in Switch, NEW table, Removed(s, table) PROVE UNCHANGED lifecycle
  BY <1>10 DEF Removed
<1>11. CASE UNCHANGED vars
  BY <1>5, <1>11 DEF vars, lifecycle
<1>12. QED
  BY <1>1, <1>2, <1>3, <1>4, <1>5, <1>6, <1>7, <1>8, <1>9, <1>10, <1>11 DEF Next

LEMMA InitTypes == Init => TypeOK /\ LifecycleInv
<1> SUFFICES ASSUME Init PROVE TypeOK /\ LifecycleInv
  OBVIOUS
<1>1. Retries \in Nat /\ MaxLoads \in Nat /\ MaxDowns \in Nat /\ InitiallyUp \subseteq Switch
  BY ControllerAssumption
<1>2. queue \in [Activation -> Seq(Task)] /\ todo \in [Activation -> SUBSET Switch]
  BY DEF Init
<1>3. deviceEvents \in Seq(Switch) /\ hostEvents \in Seq(Host)
  BY DEF Init
<1>4. QED
  BY <1>1, <1>2, <1>3 DEF Init, TypeOK, LifecycleInv

LEMMA StepTypes == TypeOK /\ LifecycleInv /\ [Next]_vars => TypeOK'
<1> SUFFICES ASSUME TypeOK, LifecycleInv, [Next]_vars PROVE TypeOK'
  OBVIOUS
<1>0. Retries \in Nat /\ MaxLoads \in Nat /\ MaxDowns \in Nat
  BY ControllerAssumption
<1> USE DEF TypeOK, lifecycle, executors, stores, network, events
<1>1. CASE Load
  BY <1>0, <1>1 DEF Load
<1>2. CASE Unload
  BY <1>2 DEF Unload
<1>3. CASE CleaningUp
  <2>1. CASE CleanUpAgain
    <3>1. store' \subseteq Entry /\ removing' \subseteq Entry /\ groupsLeft' \subseteq Entry
      BY <2>1, RemoveTypes, FoundAreEntries DEF CleanUpAgain
    <3>2. QED
      BY <1>0, <2>1, <3>1 DEF CleanUpAgain
  <2>2. CASE RemoveGroups
    <3>1. store' \subseteq Entry /\ removing' \subseteq Entry
      BY <2>2, RemoveTypes DEF RemoveGroups
    <3>2. QED
      BY <2>2, <3>1 DEF RemoveGroups
  <2>3. CASE CleanedUp
    BY <2>3 DEF CleanedUp
  <2>4. CASE CleanUpOnce
    <3>1. store' \subseteq Entry /\ removing' \subseteq Entry /\ groupsLeft' \subseteq Entry
      BY <2>4, RemoveTypes, FoundAreEntries DEF CleanUpOnce
    <3>2. QED
      BY <2>4, <3>1 DEF CleanUpOnce
  <2>5. QED
    BY <1>3, <2>1, <2>2, <2>3, <2>4 DEF CleaningUp
<1>4. ASSUME NEW c \in Component, Activate(c) PROVE TypeOK'
  <2>1. activation \in Activation
    BY <1>4 DEF Activate, LifecycleInv
  <2>2. QED
    BY <1>4, <2>1 DEF Activate
<1>5. ASSUME NEW a \in Activation, NEW c \in Component, TimerFires(a, c) PROVE TypeOK'
  <2>1. PICK q \in Seq(Task) : q = <<SetUpAll(c)>>
    <3>1. PICK t \in Task : t = SetUpAll(c)
      BY TasksAreTasks
    <3>2. <<t>> \in Seq(Task)
      OBVIOUS
    <3>3. QED
      BY <3>1, <3>2
  <2>2. queue' \in [Activation -> Seq(Task)]
    BY <1>5, <2>1, ExecutePuts DEF TimerFires
  <2>3. QED
    BY <1>5, <2>2 DEF TimerFires
<1>6. ASSUME NEW a \in Activation, Executor(a) PROVE TypeOK'
  <2>1. ASSUME NEW c \in Component, NEW s \in Switch, RunSetUpDevice(a, c, s) PROVE TypeOK'
    <3>1. store' \subseteq Entry /\ removing' \subseteq Entry
      BY <2>1, ApplyTypes, RulesAreEntries DEF RunSetUpDevice
    <3>2. queue' \in [Activation -> Seq(Task)]
      BY <2>1, RunsPops DEF RunSetUpDevice
    <3>3. QED
      BY <2>1, <3>1, <3>2 DEF RunSetUpDevice
  <2>2. ASSUME NEW h \in Host, RunLearn(a, h) PROVE TypeOK'
    <3>1. store' \subseteq Entry /\ removing' \subseteq Entry
      BY <2>2, ApplyTypes, RulesAreEntries DEF RunLearn
    <3>2. queue' \in [Activation -> Seq(Task)]
      BY <2>2, RunsPops DEF RunLearn
    <3>3. QED
      BY <2>2, <3>1, <3>2 DEF RunLearn
  <2>3. CASE RunSetUpAllMetrics(a)
    <3>1. UNION {DeviceEntries("metrics", s) : s \in available} \subseteq Entry
      BY RulesAreEntries DEF Component
    <3>2. store' \subseteq Entry /\ removing' \subseteq Entry
      BY <2>3, <3>1, ApplyTypes DEF RunSetUpAllMetrics
    <3>3. queue' \in [Activation -> Seq(Task)]
      BY <2>3, RunsPops DEF RunSetUpAllMetrics
    <3>4. QED
      BY <2>3, <3>2, <3>3 DEF RunSetUpAllMetrics
  <2>4. CASE RunSetUpAllBridging(a)
    <3>1. queue' \in [Activation -> Seq(Task)]
      BY <2>4, RunsPops DEF RunSetUpAllBridging
    <3>2. QED
      BY <2>4, <3>1 DEF RunSetUpAllBridging
  <2>5. ASSUME NEW s \in Switch, SetUpNext(a, s) PROVE TypeOK'
    <3>1. DeviceEntries("bridging", s) \cup UNION {HostRules(h) : h \in {g \in known : g[1] = s}}
            \subseteq Entry
      BY RulesAreEntries DEF Component
    <3>2. store' \subseteq Entry /\ removing' \subseteq Entry
      BY <2>5, <3>1, ApplyTypes DEF SetUpNext
    <3>3. QED
      BY <2>5, <3>2 DEF SetUpNext
  <2>6. QED
    BY <1>6, <2>1, <2>2, <2>3, <2>4, <2>5 DEF Executor
<1>7. CASE DeviceEvent
  <2>1. Tail(deviceEvents) \in Seq(Switch) /\ Head(deviceEvents) \in Switch
    BY <1>7, ElementsOfTail DEF DeviceEvent
  <2>2. queue' \in [Activation -> Seq(Task)]
    BY <1>7, <2>1, TasksAreQueued, ExecutePuts DEF DeviceEvent
  <2>3. QED
    BY <1>7, <2>1, <2>2 DEF DeviceEvent
<1>8. CASE HostEvent
  <2>1. Tail(hostEvents) \in Seq(Host) /\ Head(hostEvents) \in Host
    BY <1>8, ElementsOfTail DEF HostEvent
  <2>2. queue' \in [Activation -> Seq(Task)]
    BY <1>8, <2>1, TasksAreQueued, ExecutePuts DEF HostEvent
  <2>3. QED
    BY <1>8, <2>1, <2>2 DEF HostEvent
<1>9. CASE Environment
  <2>1. ASSUME NEW s \in Switch, DeviceUp(s) PROVE TypeOK'
    BY <2>1 DEF DeviceUp
  <2>2. ASSUME NEW s \in Switch, DeviceDown(s) PROVE TypeOK'
    <3>1. downs' \in 0..MaxDowns
      BY <1>0, <2>2 DEF DeviceDown
    <3>2. deviceEvents' \in Seq(Switch)
      BY <2>2 DEF DeviceDown
    <3>3. QED
      BY <2>2, <3>1, <3>2 DEF DeviceDown
  <2>3. ASSUME NEW s \in Switch, Configure(s) PROVE TypeOK'
    BY <2>3 DEF Configure
  <2>4. ASSUME NEW h \in Host, HostAdded(h) PROVE TypeOK'
    BY <2>4 DEF HostAdded
  <2>5. ASSUME NEW h \in Host, HostRemoved(h) PROVE TypeOK'
    BY <2>5 DEF HostRemoved
  <2>6. QED
    BY <1>9, <2>1, <2>2, <2>3, <2>4, <2>5 DEF Environment
<1>10. ASSUME NEW s \in Switch, NEW table, Removed(s, table) PROVE TypeOK'
  BY <1>10 DEF Removed
<1>11. CASE UNCHANGED vars
  BY <1>11 DEF vars
<1>12. QED
  BY <1>1, <1>2, <1>3, <1>4, <1>5, <1>6, <1>7, <1>8, <1>9, <1>10, <1>11 DEF Next

(***************************************************************************)
(* Every variable of the controller keeps its type.                        *)
(***************************************************************************)
THEOREM TypeCorrect == Spec => []TypeOK
<1>1. TypeOK /\ LifecycleInv /\ [Next]_vars => TypeOK' /\ LifecycleInv'
  BY StepTypes, StepLifecycle
<1>2. QED
  BY <1>1, InitTypes, PTL DEF Spec

-----------------------------------------------------------------------------
(***************************************************************************)
(* No device is forgotten.                                                 *)
(***************************************************************************)
DevicesInv == TypeOK /\ LifecycleInv /\ DevicesAccountedFor

DeviceDone(c, s) == ComponentRules(c, s) \subseteq store \/ DevicePending(c, s)

\* What is pending stays so while queues and events only grow.
LEMMA PendingGrows ==
  ASSUME NEW c, NEW s, DeviceDone(c, s), activation \in Activation, activation' = activation,
         store \subseteq store', timers \subseteq timers',
         \A b \in Activation : Elements(queue[b]) \subseteq Elements(queue'[b]),
         \A b \in Activation : todo[b] \subseteq todo'[b],
         Elements(deviceEvents) \subseteq Elements(deviceEvents')
  PROVE  DeviceDone(c, s)'
  BY DEF DeviceDone, DevicePending, SetUpPending

LEMMA SetUpWritesRules ==
  \A c \in Component : \A s : ComponentRules(c, s) \subseteq DeviceEntries(c, s)
  BY DEF ComponentRules, DeviceEntries, BridgingEntries, Component

\* Work of another kind, or of another activation, leaves a device's work alone.
LEMMA PendingOutlives ==
  ASSUME NEW c \in Component, NEW s \in Switch, DeviceDone(c, s), TypeOK,
         activation \in Activation, activation' = activation,
         store \subseteq store', UNCHANGED <<timers, deviceEvents>>,
         \A b \in Activation : todo[b] \subseteq todo'[b],
         NEW a \in Activation, NEW task, Runs(a, task),
         a = activation => task # SetUpDevice(c, s) /\ task # SetUpAll(c)
  PROVE  DeviceDone(c, s)'
<1>1. \A t \in Elements(queue[activation]) :
        t \in Elements(queue'[activation]) \/ (activation = a /\ t = task)
  BY RunsPops DEF TypeOK
<1>2. QED
  BY <1>1 DEF DeviceDone, DevicePending, SetUpPending

LEMMA ExecutorKeepsDevices ==
  ASSUME TypeOK, activation \in Activation, NEW a \in Activation, Executor(a),
         NEW c \in Component, NEW s \in available, DeviceDone(c, s)
  PROVE  DeviceDone(c, s)'
<1> USE DEF lifecycle, network, events
<1>0. s \in Switch
  BY DEF TypeOK
<1>1. ASSUME NEW d \in Component, NEW t \in Switch, RunSetUpDevice(a, d, t)
      PROVE  DeviceDone(c, s)'
  <2>1. DeviceEntries(d, t) \subseteq store' /\ store \subseteq store'
    BY <1>1 DEF RunSetUpDevice, Apply
  <2>2. CASE c = d /\ s = t
    BY <2>1, <2>2, SetUpWritesRules DEF DeviceDone, ComponentRules
  <2>3. CASE ~(c = d /\ s = t)
    <3>1. SetUpDevice(d, t) # SetUpDevice(c, s) /\ SetUpDevice(d, t) # SetUpAll(c)
      BY <2>3, TasksDiffer
    <3>2. Runs(a, SetUpDevice(d, t)) /\ UNCHANGED <<timers, deviceEvents, todo, activation>>
      BY <1>1 DEF RunSetUpDevice
    <3>3. QED
      BY <1>0, <2>1, <3>1, <3>2, PendingOutlives
  <2>4. QED
    BY <2>2, <2>3
<1>2. ASSUME NEW h \in Host, RunLearn(a, h) PROVE DeviceDone(c, s)'
  <2>1. Runs(a, Learn(h)) /\ UNCHANGED <<timers, deviceEvents, todo, activation>>
    BY <1>2 DEF RunLearn
  <2>2. store \subseteq store'
    BY <1>2 DEF RunLearn, Apply
  <2>3. QED
    BY <1>0, <2>1, <2>2, TasksDiffer, PendingOutlives
<1>3. ASSUME RunSetUpAllMetrics(a) PROVE DeviceDone(c, s)'
  <2>1. DeviceEntries("metrics", s) \subseteq store' /\ store \subseteq store'
    BY <1>3 DEF RunSetUpAllMetrics, Apply
  <2>2. CASE c = "metrics"
    BY <2>1, <2>2, SetUpWritesRules DEF DeviceDone, ComponentRules
  <2>3. CASE c # "metrics"
    <3>1. Runs(a, SetUpAll("metrics")) /\ UNCHANGED <<timers, deviceEvents, todo, activation>>
      BY <1>3 DEF RunSetUpAllMetrics
    <3>2. SetUpAll("metrics") # SetUpDevice(c, s) /\ SetUpAll("metrics") # SetUpAll(c)
      BY <2>3, TasksDiffer
    <3>3. QED
      BY <1>0, <2>1, <3>1, <3>2, PendingOutlives
  <2>4. QED
    BY <2>2, <2>3
<1>4. ASSUME RunSetUpAllBridging(a) PROVE DeviceDone(c, s)'
  <2>1. /\ Runs(a, SetUpAll("bridging")) /\ UNCHANGED <<timers, deviceEvents, store, activation>>
        /\ todo' = [todo EXCEPT ![a] = available] /\ todo[a] = {}
    BY <1>4 DEF RunSetUpAllBridging, Runs, stores
  <2>2. \A b \in Activation : todo[b] \subseteq todo'[b]
    BY <2>1 DEF TypeOK
  <2>3. CASE c = "bridging" /\ a = activation
    <3>1. s \in todo'[activation']
      BY <2>1, <2>3 DEF TypeOK
    <3>2. QED
      BY <2>3, <3>1 DEF DeviceDone, DevicePending
  <2>4. CASE ~(c = "bridging" /\ a = activation)
    <3>1. SetUpAll("bridging") # SetUpDevice(c, s)
          /\ (a = activation => SetUpAll("bridging") # SetUpAll(c))
      BY <2>4, TasksDiffer
    <3>2. QED
      BY <1>0, <2>1, <2>2, <3>1, PendingOutlives
  <2>5. QED
    BY <2>3, <2>4
<1>5. ASSUME NEW t \in Switch, SetUpNext(a, t) PROVE DeviceDone(c, s)'
  <2>1. /\ DeviceEntries("bridging", t) \subseteq store' /\ store \subseteq store'
        /\ todo' = [todo EXCEPT ![a] = @ \ {t}]
        /\ UNCHANGED <<timers, queue, deviceEvents, activation>>
    BY <1>5 DEF SetUpNext, Apply
  <2>2. CASE c = "bridging" /\ s = t
    BY <2>1, <2>2, SetUpWritesRules DEF DeviceDone, ComponentRules
  <2>3. CASE ~(c = "bridging" /\ s = t)
    <3>1. c = "bridging" /\ s \in todo[activation] => s \in todo'[activation]
      BY <2>1, <2>3 DEF TypeOK
    <3>2. QED
      BY <2>1, <3>1 DEF DeviceDone, DevicePending, SetUpPending
  <2>4. QED
    BY <2>2, <2>3
<1>6. QED
  BY <1>1, <1>2, <1>3, <1>4, <1>5 DEF Executor

\* Every step does a device's work or leaves it to be done.
LEMMA StepDevices == DevicesInv /\ [Next]_vars => DevicesAccountedFor'
<1> SUFFICES ASSUME DevicesInv, [Next]_vars,
                    NEW c \in listening', NEW s \in available'
             PROVE  DeviceDone(c, s)'
  BY DEF DevicesAccountedFor, DeviceDone
<1>0. TypeOK /\ LifecycleInv /\ listening \subseteq Component
  BY DEF DevicesInv, TypeOK
<1>a. \A d \in listening, t \in available : DeviceDone(d, t)
  BY DEF DevicesInv, DevicesAccountedFor, DeviceDone
<1>b. listening # {} => activation \in Activation
  BY <1>0 DEF LifecycleInv
<1>c. ASSUME c \in listening, s \in available, UNCHANGED <<activation, timers, queue, todo, store>>,
             Elements(deviceEvents) \subseteq Elements(deviceEvents')
      PROVE  DeviceDone(c, s)'
  BY <1>a, <1>b, <1>c, PendingGrows
<1> USE DEF lifecycle, executors, stores, network, events
<1>1. ASSUME phase \in {"off", "cleaning", "stopping"}, UNCHANGED listening PROVE FALSE
  BY <1>0, <1>1 DEF LifecycleInv
<1>2. ~Load
  BY <1>1 DEF Load
<1>3. ~Unload
  BY DEF Unload
<1>4. ~CleaningUp
  <2>1. ~CleanUpAgain /\ ~CleanedUp /\ ~CleanUpOnce
    BY <1>1 DEF CleanUpAgain, CleanedUp, CleanUpOnce
  <2>2. ~RemoveGroups
    BY <1>0, <1>1 DEF RemoveGroups, LifecycleInv
  <2>3. QED
    BY <2>1, <2>2 DEF CleaningUp
<1>5. ASSUME NEW d \in Component, Activate(d) PROVE DeviceDone(c, s)'
  <2>1. /\ activation \in Activation /\ listening' = listening \cup {d} /\ s \in available
        /\ UNCHANGED <<activation, queue, todo, store, deviceEvents>>
        /\ timers' = timers \cup {<<activation, d>>}
    BY <1>0, <1>5 DEF Activate, LifecycleInv
  <2>2. CASE c = d
    BY <2>1, <2>2 DEF DeviceDone, DevicePending, SetUpPending
  <2>3. CASE c # d
    BY <1>a, <2>1, <2>3, PendingGrows
  <2>4. QED
    BY <2>2, <2>3
<1>6. ASSUME NEW a \in Activation, NEW d \in Component, TimerFires(a, d) PROVE DeviceDone(c, s)'
  <2>0. /\ c \in listening /\ s \in available /\ UNCHANGED <<activation, todo, store, deviceEvents>>
        /\ timers' = timers \ {<<a, d>>} /\ Execute(a, <<SetUpAll(d)>>)
    BY <1>6 DEF TimerFires
  <2>1. PICK t \in Task : t = SetUpAll(d)
    BY TasksAreTasks
  <2>2. PICK q \in Seq(Task) : q = <<t>> /\ Elements(q) = {t}
    BY Short
  <2>3. /\ \A b \in Activation : Elements(queue[b]) \subseteq Elements(queue'[b])
        /\ Elements(q) \subseteq Elements(queue'[a])
    BY <1>0, <2>0, <2>1, <2>2, ExecutePuts DEF TypeOK
  <2>4. CASE a = activation /\ c = d
    BY <2>0, <2>1, <2>2, <2>3, <2>4 DEF DeviceDone, DevicePending, SetUpPending
  <2>5. CASE ~(a = activation /\ c = d)
    <3>1. <<activation, c>> \in timers => <<activation, c>> \in timers'
      BY <2>0, <2>5
    <3>2. DeviceDone(c, s) /\ activation \in Activation
      BY <1>a, <1>b, <2>0
    <3>3. QED
      BY <2>0, <2>3, <3>1, <3>2 DEF DeviceDone, DevicePending, SetUpPending
  <2>6. QED
    BY <2>4, <2>5
<1>7. ASSUME NEW a \in Activation, Executor(a) PROVE DeviceDone(c, s)'
  <2>1. UNCHANGED <<listening, available>>
    BY <1>7 DEF Executor, RunSetUpDevice, RunLearn, RunSetUpAllMetrics, RunSetUpAllBridging, SetUpNext
  <2>2. c \in Component /\ DeviceDone(c, s) /\ activation \in Activation
    BY <1>0, <1>a, <1>b, <2>1
  <2>3. QED
    BY <1>0, <1>7, <2>1, <2>2, ExecutorKeepsDevices
<1>8. CASE DeviceEvent
  <2>0. /\ c \in listening /\ s \in available /\ UNCHANGED <<activation, todo, store, timers>>
        /\ deviceEvents # <<>> /\ deviceEvents' = Tail(deviceEvents) /\ DeviceDone(c, s)
    BY <1>8, <1>a DEF DeviceEvent
  <2>1. activation \in Activation /\ c \in Component
    BY <1>0, <1>b, <2>0
  <2>2. Execute(activation, DeviceTasks(Head(deviceEvents)))
    BY <1>8, <2>1 DEF DeviceEvent
  <2>3. deviceEvents \in Seq(Switch) /\ Head(deviceEvents) \in Switch
    BY <1>0, <2>0, ElementsOfTail DEF TypeOK
  <2>4. PICK q \in Seq(Task) : q = DeviceTasks(Head(deviceEvents))
    BY <2>3, TasksAreQueued
  <2>5. /\ \A b \in Activation : Elements(queue[b]) \subseteq Elements(queue'[b])
        /\ Elements(q) \subseteq Elements(queue'[activation])
    BY <1>0, <2>1, <2>2, <2>4, ExecutePuts DEF TypeOK
  <2>6. \A x \in Elements(deviceEvents) : x = Head(deviceEvents) \/ x \in Elements(deviceEvents')
    BY <2>0, <2>3, ElementsOfTail
  <2>7. CASE s = Head(deviceEvents)
    <3>1. SetUpDevice(c, s) \in Elements(q)
      <4>1. PICK x \in Task, y \in Task : x = SetUpDevice("bridging", s) /\ y = SetUpDevice("metrics", s)
        BY <2>3, <2>7, TasksAreTasks DEF Component
      <4>0. Elements(<<x>>) = {x} /\ Elements(<<x, y>>) = {x, y}
        BY Short
      <4>2. CASE listening = {"bridging"}
        <5>1. q = <<x>> /\ c = "bridging"
          BY <2>0, <2>4, <2>7, <4>1, <4>2 DEF DeviceTasks
        <5>2. QED
          BY <4>1, <4>0, <5>1
      <4>3. CASE listening # {"bridging"}
        <5>1. q = <<x, y>>
          BY <2>0, <2>4, <2>7, <4>1, <4>3 DEF DeviceTasks
        <5>2. c = "bridging" \/ c = "metrics"
          BY <2>1 DEF Component
        <5>3. QED
          BY <4>1, <4>0, <5>1, <5>2
      <4>4. QED
        BY <4>2, <4>3
    <3>2. QED
      BY <2>0, <2>5, <3>1 DEF DeviceDone, DevicePending
  <2>8. CASE s # Head(deviceEvents)
    BY <2>0, <2>1, <2>5, <2>6, <2>8 DEF DeviceDone, DevicePending, SetUpPending
  <2>9. QED
    BY <2>7, <2>8
<1>9. CASE HostEvent
  <2>0. /\ c \in listening /\ s \in available
        /\ UNCHANGED <<activation, todo, store, timers, deviceEvents>>
        /\ hostEvents # <<>> /\ DeviceDone(c, s)
    BY <1>9, <1>a DEF HostEvent
  <2>1. activation \in Activation
    BY <1>b, <2>0
  <2>2. hostEvents \in Seq(Host) /\ Head(hostEvents) \in Host
    BY <1>0, <2>0, ElementsOfTail DEF TypeOK
  <2>3. PICK q \in Seq(Task) : q = HostTasks(Head(hostEvents))
    BY <2>2, TasksAreQueued
  <2>4. Execute(activation, q)
    BY <1>9, <2>1, <2>3 DEF HostEvent
  <2>5. \A b \in Activation : Elements(queue[b]) \subseteq Elements(queue'[b])
    BY <1>0, <2>1, <2>4, ExecutePuts DEF TypeOK
  <2>6. QED
    BY <2>0, <2>1, <2>5, PendingGrows
<1>10. CASE Environment
  <2>1. ASSUME NEW t \in Switch, DeviceUp(t) PROVE DeviceDone(c, s)'
    <3>1. /\ UNCHANGED <<listening, activation, timers, queue, todo, store>>
          /\ available' = available \cup {t} /\ deviceEvents' = Append(deviceEvents, t)
      BY <2>1 DEF DeviceUp
    <3>2. Elements(deviceEvents') = Elements(deviceEvents) \cup {t}
      BY <1>0, <3>1, ElementsOfAppend DEF TypeOK
    <3>3. CASE s = t
      BY <3>2, <3>3 DEF DeviceDone, DevicePending
    <3>4. CASE s # t
      BY <1>c, <3>1, <3>2, <3>4
    <3>5. QED
      BY <3>3, <3>4
  <2>2. ASSUME NEW t \in Switch, DeviceDown(t) PROVE DeviceDone(c, s)'
    <3>1. /\ UNCHANGED <<listening, activation, timers, queue, todo, store>>
          /\ available' = available \ {t} /\ deviceEvents' = Append(deviceEvents, t)
      BY <2>2 DEF DeviceDown
    <3>2. Elements(deviceEvents') = Elements(deviceEvents) \cup {t}
      BY <1>0, <3>1, ElementsOfAppend DEF TypeOK
    <3>3. QED
      BY <1>c, <3>1, <3>2
  <2>3. ASSUME NEW t \in Switch, Configure(t) PROVE DeviceDone(c, s)'
    BY <1>c, <2>3 DEF Configure
  <2>4. ASSUME NEW h \in Host, HostAdded(h) \/ HostRemoved(h) PROVE DeviceDone(c, s)'
    BY <1>c, <2>4 DEF HostAdded, HostRemoved
  <2>5. QED
    BY <1>10, <2>1, <2>2, <2>3, <2>4 DEF Environment
<1>11. ASSUME NEW t \in Switch, NEW table, Removed(t, table) PROVE DeviceDone(c, s)'
  BY <1>c, <1>11 DEF Removed
<1>12. CASE UNCHANGED vars
  BY <1>c, <1>12 DEF vars
<1>13. QED
  BY <1>2, <1>3, <1>4, <1>5, <1>6, <1>7, <1>8, <1>9, <1>10, <1>11, <1>12 DEF Next

(***************************************************************************)
(* While a component is active, every available device has the component's *)
(* rules in the store, or its setup is still to come.                      *)
(***************************************************************************)
THEOREM DevicesAccounted == Spec => []DevicesAccountedFor
<1>1. Init => DevicesInv
  <2>1. Init => DevicesAccountedFor
    BY DEF Init, DevicesAccountedFor
  <2>2. QED
    BY <2>1, InitTypes DEF DevicesInv
<1>2. DevicesInv /\ [Next]_vars => DevicesInv'
  BY StepDevices, StepTypes, StepLifecycle DEF DevicesInv
<1>3. DevicesInv => DevicesAccountedFor
  BY DEF DevicesInv
<1>4. QED
  BY <1>1, <1>2, <1>3, PTL DEF Spec

-----------------------------------------------------------------------------
(***************************************************************************)
(* No host is forgotten while devices stay up.                             *)
(***************************************************************************)
KnownAreUp == \A h \in known : h[1] \in available

\* An event of a host that comes before deviceFlows is filled is made up for.
PopulatedOrPending ==
  "bridging" \in listening => activation \in populated \/ SetUpPending("bridging")

HostsInv == TypeOK /\ LifecycleInv /\ KnownAreUp /\ PopulatedOrPending /\ HostsAccountedFor

HostDone(h) == HostRules(h) \subseteq store \/ HostPending(h)

\* The executor of activation a takes task t out of its queue and runs it.
Taken(a, t) ==
  \/ \E c \in Component, s \in Switch : RunSetUpDevice(a, c, s) /\ t = SetUpDevice(c, s)
  \/ \E h \in Host : RunLearn(a, h) /\ t = Learn(h)
  \/ RunSetUpAllMetrics(a) /\ t = SetUpAll("metrics")
  \/ RunSetUpAllBridging(a) /\ t = SetUpAll("bridging")

\* A task stays in its queue until it is run.
LEMMA TasksStay ==
  ASSUME TypeOK, [Next]_vars, NEW b \in Activation, NEW t \in Elements(queue[b])
  PROVE  t \in Elements(queue'[b]) \/ Taken(b, t)
<1> USE DEF executors
<1>0. queue \in [Activation -> Seq(Task)]
  BY DEF TypeOK
<1>1. CASE UNCHANGED queue
  BY <1>1
<1>2. Load \/ Unload \/ CleaningUp => UNCHANGED queue
  BY DEF Load, Unload, CleaningUp, CleanUpAgain, RemoveGroups, CleanedUp, CleanUpOnce
<1>3. ASSUME NEW c \in Component, Activate(c) PROVE UNCHANGED queue
  BY <1>3 DEF Activate
<1>4. ASSUME NEW a \in Activation, NEW c \in Component, TimerFires(a, c)
      PROVE  t \in Elements(queue'[b])
  <2>1. PICK x \in Task : x = SetUpAll(c)
    BY TasksAreTasks
  <2>2. PICK q \in Seq(Task) : q = <<x>>
    BY Short
  <2>3. Execute(a, q)
    BY <1>4, <2>1, <2>2 DEF TimerFires
  <2>4. QED
    BY <1>0, <2>3, ExecutePuts
<1>5. ASSUME NEW a \in Activation, Executor(a)
      PROVE  t \in Elements(queue'[b]) \/ Taken(b, t)
  <2>1. ASSUME NEW c \in Component, NEW s \in Switch, RunSetUpDevice(a, c, s)
        PROVE  t \in Elements(queue'[b]) \/ Taken(b, t)
    <3>1. t \in Elements(queue'[b]) \/ (b = a /\ t = SetUpDevice(c, s))
      BY <1>0, <2>1, RunsPops DEF RunSetUpDevice
    <3>2. QED
      BY <2>1, <3>1 DEF Taken
  <2>2. ASSUME NEW h \in Host, RunLearn(a, h)
        PROVE  t \in Elements(queue'[b]) \/ Taken(b, t)
    <3>1. t \in Elements(queue'[b]) \/ (b = a /\ t = Learn(h))
      BY <1>0, <2>2, RunsPops DEF RunLearn
    <3>2. QED
      BY <2>2, <3>1 DEF Taken
  <2>3. ASSUME RunSetUpAllMetrics(a) PROVE t \in Elements(queue'[b]) \/ Taken(b, t)
    <3>1. t \in Elements(queue'[b]) \/ (b = a /\ t = SetUpAll("metrics"))
      BY <1>0, <2>3, RunsPops DEF RunSetUpAllMetrics
    <3>2. QED
      BY <2>3, <3>1 DEF Taken
  <2>4. ASSUME RunSetUpAllBridging(a) PROVE t \in Elements(queue'[b]) \/ Taken(b, t)
    <3>1. t \in Elements(queue'[b]) \/ (b = a /\ t = SetUpAll("bridging"))
      BY <1>0, <2>4, RunsPops DEF RunSetUpAllBridging
    <3>2. QED
      BY <2>4, <3>1 DEF Taken
  <2>5. ASSUME NEW s \in Switch, SetUpNext(a, s) PROVE UNCHANGED queue
    BY <2>5 DEF SetUpNext
  <2>6. QED
    BY <1>1, <1>5, <2>1, <2>2, <2>3, <2>4, <2>5 DEF Executor
<1>6. CASE DeviceEvent
  <2>1. Head(deviceEvents) \in Switch
    BY <1>6, ElementsOfTail DEF DeviceEvent, TypeOK
  <2>2. PICK q \in Seq(Task) : q = DeviceTasks(Head(deviceEvents))
    BY <2>1, TasksAreQueued
  <2>3. UNCHANGED queue \/ (activation \in Activation /\ Execute(activation, q))
    BY <1>6, <2>2 DEF DeviceEvent
  <2>4. QED
    BY <1>0, <1>1, <2>3, ExecutePuts
<1>7. CASE HostEvent
  <2>1. Head(hostEvents) \in Host
    BY <1>7, ElementsOfTail DEF HostEvent, TypeOK
  <2>2. PICK q \in Seq(Task) : q = HostTasks(Head(hostEvents))
    BY <2>1, TasksAreQueued
  <2>3. UNCHANGED queue \/ (activation \in Activation /\ Execute(activation, q))
    BY <1>7, <2>2 DEF HostEvent
  <2>4. QED
    BY <1>0, <1>1, <2>3, ExecutePuts
<1>8. Environment => UNCHANGED queue
  BY DEF Environment, DeviceUp, DeviceDown, Configure, HostAdded, HostRemoved
<1>9. ASSUME NEW s \in Switch, NEW table, Removed(s, table) PROVE UNCHANGED queue
  BY <1>9 DEF Removed
<1>10. UNCHANGED vars => UNCHANGED queue
  BY DEF vars
<1>11. QED
  BY <1>1, <1>2, <1>3, <1>4, <1>5, <1>6, <1>7, <1>8, <1>9, <1>10 DEF Next

\* A delayed setup is waited for until it is queued.
LEMMA TimersStay ==
  ASSUME TypeOK, [Next]_vars, NEW a \in Activation, NEW c \in Component, <<a, c>> \in timers
  PROVE  <<a, c>> \in timers' \/ SetUpAll(c) \in Elements(queue'[a])
<1> USE DEF executors
<1>1. Load \/ Unload \/ CleaningUp => UNCHANGED timers
  BY DEF Load, Unload, CleaningUp, CleanUpAgain, RemoveGroups, CleanedUp, CleanUpOnce
<1>2. ASSUME NEW d \in Component, Activate(d) PROVE <<a, c>> \in timers'
  BY <1>2 DEF Activate
<1>3. ASSUME NEW b \in Activation, NEW d \in Component, TimerFires(b, d)
      PROVE  <<a, c>> \in timers' \/ SetUpAll(c) \in Elements(queue'[a])
  <2>1. CASE a = b /\ c = d
    <3>1. PICK x \in Task : x = SetUpAll(c)
      BY TasksAreTasks
    <3>2. PICK q \in Seq(Task) : q = <<x>> /\ Elements(q) = {x}
      BY Short
    <3>3. Execute(a, q)
      BY <1>3, <2>1, <3>1, <3>2 DEF TimerFires
    <3>4. QED
      BY <3>1, <3>2, <3>3, ExecutePuts DEF TypeOK
  <2>2. CASE ~(a = b /\ c = d)
    BY <1>3, <2>2 DEF TimerFires
  <2>3. QED
    BY <2>1, <2>2
<1>4. ASSUME NEW b \in Activation, Executor(b) PROVE UNCHANGED timers
  BY <1>4 DEF Executor, RunSetUpDevice, RunLearn, RunSetUpAllMetrics, RunSetUpAllBridging, SetUpNext
<1>5. DeviceEvent \/ HostEvent \/ Environment => UNCHANGED timers
  BY DEF DeviceEvent, HostEvent, Environment, DeviceUp, DeviceDown, Configure, HostAdded, HostRemoved
<1>6. ASSUME NEW s \in Switch, NEW table, Removed(s, table) PROVE UNCHANGED timers
  BY <1>6 DEF Removed
<1>7. UNCHANGED vars => UNCHANGED timers
  BY DEF vars
<1>8. QED
  BY <1>1, <1>2, <1>3, <1>4, <1>5, <1>6, <1>7 DEF Next

\* The initial setup is pending until its loop begins.
LEMMA SetUpStays ==
  ASSUME TypeOK, [Next]_vars, activation \in Activation, UNCHANGED activation,
         SetUpPending("bridging")
  PROVE  SetUpPending("bridging")' \/ RunSetUpAllBridging(activation)
<1>0. "bridging" \in Component
  BY DEF Component
<1>1. CASE <<activation, "bridging">> \in timers
  BY <1>0, <1>1, TimersStay DEF SetUpPending
<1>2. CASE SetUpAll("bridging") \in Elements(queue[activation])
  <2>1. Taken(activation, SetUpAll("bridging")) => RunSetUpAllBridging(activation)
    BY TasksDiffer DEF Taken
  <2>2. QED
    BY <1>2, <2>1, TasksStay DEF SetUpPending
<1>3. QED
  BY <1>1, <1>2 DEF SetUpPending

\* A host's event stays until it is dispatched, a round of the loop until it is taken.
LEMMA EventsAndRoundsStay ==
  ASSUME TypeOK, [Next]_vars, NEW h
  PROVE  /\ h \in Elements(hostEvents) =>
              h \in Elements(hostEvents') \/ (HostEvent /\ h = Head(hostEvents))
         /\ \A a \in Activation, s \in Switch : s \in todo[a] => s \in todo'[a] \/ SetUpNext(a, s)
<1> DEFINE Stays == /\ Elements(hostEvents) \subseteq Elements(hostEvents')
                    /\ \A a \in Activation, s \in Switch :
                         s \in todo[a] => s \in todo'[a] \/ SetUpNext(a, s)
<1> USE DEF executors, events
<1>1. UNCHANGED <<hostEvents, todo>> => Stays
  OBVIOUS
<1> HIDE DEF Stays
<1>2. Load \/ Unload \/ CleaningUp \/ DeviceEvent => UNCHANGED <<hostEvents, todo>>
  BY DEF Load, Unload, CleaningUp, CleanUpAgain, RemoveGroups, CleanedUp, CleanUpOnce, DeviceEvent
<1>3. ASSUME NEW d \in Component, Activate(d) PROVE UNCHANGED <<hostEvents, todo>>
  BY <1>3 DEF Activate
<1>4. ASSUME NEW b \in Activation, NEW d \in Component, TimerFires(b, d)
      PROVE  UNCHANGED <<hostEvents, todo>>
  BY <1>4 DEF TimerFires
<1>5. ASSUME NEW b \in Activation, Executor(b) PROVE Stays
  <2>1. UNCHANGED hostEvents
    BY <1>5 DEF Executor, RunSetUpDevice, RunLearn, RunSetUpAllMetrics, RunSetUpAllBridging, SetUpNext
  <2>2. CASE UNCHANGED todo
    BY <1>1, <2>1, <2>2
  <2>3. CASE RunSetUpAllBridging(b)
    BY <2>1, <2>3 DEF Stays, RunSetUpAllBridging, Runs, TypeOK
  <2>4. ASSUME NEW t \in Switch, SetUpNext(b, t) PROVE Stays
    BY <2>1, <2>4 DEF Stays, SetUpNext, TypeOK
  <2>5. QED
    BY <1>5, <2>2, <2>3, <2>4 DEF Executor, RunSetUpDevice, RunLearn, RunSetUpAllMetrics
<1>6. ASSUME Environment PROVE Stays
  <2>1. UNCHANGED todo
    BY <1>6 DEF Environment, DeviceUp, DeviceDown, Configure, HostAdded, HostRemoved
  <2>2. UNCHANGED hostEvents \/ \E g \in Host : hostEvents' = Append(hostEvents, g)
    BY <1>6 DEF Environment, DeviceUp, DeviceDown, Configure, HostAdded, HostRemoved
  <2>3. \A g \in Host : Elements(Append(hostEvents, g)) = Elements(hostEvents) \cup {g}
    BY ElementsOfAppend DEF TypeOK
  <2>4. QED
    BY <2>1, <2>2, <2>3 DEF Stays
<1>7. ASSUME NEW t \in Switch, NEW table, Removed(t, table) PROVE UNCHANGED <<hostEvents, todo>>
  BY <1>7 DEF Removed
<1>8. UNCHANGED vars => UNCHANGED <<hostEvents, todo>>
  BY DEF vars
<1>9. Stays \/ HostEvent
  <2>1. CASE Next
    BY <1>1, <1>2, <1>3, <1>4, <1>5, <1>6, <1>7, <2>1 DEF Next
  <2>2. QED
    BY <1>1, <1>8, <2>1
<1>10. CASE HostEvent
  <2>1. hostEvents \in Seq(Host) /\ hostEvents # <<>> /\ hostEvents' = Tail(hostEvents)
    BY <1>10 DEF HostEvent, TypeOK
  <2>2. \A x \in Elements(hostEvents) : x = Head(hostEvents) \/ x \in Elements(Tail(hostEvents))
    BY <2>1, ElementsOfTail
  <2>3. UNCHANGED todo
    BY <1>10 DEF HostEvent
  <2>4. QED
    BY <1>10, <2>1, <2>2, <2>3
<1>11. QED
  BY <1>9, <1>10 DEF Stays

\* Only a clean-up takes entries the application wants out of the store, only
\* Activate and Unload change who listens, and deviceFlows stays filled.
LEMMA ActiveKeeps ==
  ASSUME TypeOK, LifecycleInv, [Next]_vars, "bridging" \in listening'
  PROVE  \/ "bridging" \notin listening /\ Activate("bridging")
         \/ /\ "bridging" \in listening /\ activation \in Activation
            /\ UNCHANGED activation /\ store \subseteq store' /\ populated \subseteq populated'
<1> DEFINE Keeps == /\ "bridging" \in listening
                    /\ UNCHANGED activation /\ store \subseteq store' /\ populated \subseteq populated'
<1> USE DEF lifecycle, executors, stores
<1>1. UNCHANGED <<listening, activation, store, populated>> => Keeps
  OBVIOUS
<1>2. Keeps => activation \in Activation
  BY DEF LifecycleInv
<1>3. ~Unload
  BY DEF Unload
<1>4. ~Load /\ ~CleaningUp
  BY DEF Load, CleaningUp, CleanUpAgain, RemoveGroups, CleanedUp, CleanUpOnce, LifecycleInv
<1>5. ASSUME NEW c \in Component, Activate(c)
      PROVE  Keeps \/ ("bridging" \notin listening /\ Activate("bridging"))
  BY <1>5 DEF Activate, Component
<1>6. ASSUME NEW a \in Activation, NEW c \in Component, TimerFires(a, c) PROVE Keeps
  BY <1>6 DEF TimerFires
<1>7. ASSUME NEW a \in Activation, Executor(a) PROVE Keeps
  BY <1>7 DEF Executor, RunSetUpDevice, RunLearn, RunSetUpAllMetrics, RunSetUpAllBridging, SetUpNext,
              Apply
<1>8. DeviceEvent \/ HostEvent => Keeps
  BY DEF DeviceEvent, HostEvent
<1>9. Environment => Keeps
  BY DEF Environment, DeviceUp, DeviceDown, Configure, HostAdded, HostRemoved
<1>10. ASSUME NEW s \in Switch, NEW table, Removed(s, table) PROVE Keeps
  BY <1>10 DEF Removed
<1>11. UNCHANGED vars => Keeps
  BY DEF vars
<1> HIDE DEF Keeps
<1>12. Keeps \/ ("bridging" \notin listening /\ Activate("bridging"))
  BY <1>3, <1>4, <1>5, <1>6, <1>7, <1>8, <1>9, <1>10, <1>11 DEF Next
<1>13. QED
  BY <1>2, <1>12 DEF Keeps

\* The count of devices that went down never goes back, nor to 0 by one more.
LEMMA DowningCounts ==
  ASSUME downs' = 0, TypeOK PROVE \A s \in Switch : ~DeviceDown(s)
<1>1. downs \in Nat
  BY ControllerAssumption DEF TypeOK
<1>2. QED
  BY <1>1 DEF DeviceDown

LEMMA DownsStay ==
  ASSUME downs' = 0, TypeOK, [Next]_vars PROVE downs = 0
<1> USE DEF network
<1>0. \A s \in Switch : ~DeviceDown(s)
  BY DowningCounts
<1>1. UNCHANGED downs => downs = 0
  OBVIOUS
<1>2. Load \/ Unload \/ CleaningUp \/ DeviceEvent \/ HostEvent => UNCHANGED downs
  BY DEF Load, Unload, CleaningUp, CleanUpAgain, RemoveGroups, CleanedUp, CleanUpOnce, DeviceEvent,
         HostEvent
<1>3. ASSUME NEW c \in Component, Activate(c) PROVE UNCHANGED downs
  BY <1>3 DEF Activate
<1>4. ASSUME NEW a \in Activation, NEW c \in Component, TimerFires(a, c) PROVE UNCHANGED downs
  BY <1>4 DEF TimerFires
<1>5. ASSUME NEW a \in Activation, Executor(a) PROVE UNCHANGED downs
  BY <1>5 DEF Executor, RunSetUpDevice, RunLearn, RunSetUpAllMetrics, RunSetUpAllBridging, SetUpNext
<1>6. Environment => UNCHANGED downs
  BY <1>0 DEF Environment, DeviceUp, Configure, HostAdded, HostRemoved
<1>7. ASSUME NEW s \in Switch, NEW table, Removed(s, table) PROVE UNCHANGED downs
  BY <1>7 DEF Removed
<1>8. UNCHANGED vars => UNCHANGED downs
  BY DEF vars
<1>9. QED
  BY <1>1, <1>2, <1>3, <1>4, <1>5, <1>6, <1>7, <1>8 DEF Next

\* Hosts known are at devices that are up.
LEMMA StepKnownAreUp ==
  ASSUME downs' = 0, TypeOK, KnownAreUp, [Next]_vars
  PROVE  KnownAreUp'
<1> USE DEF network
<1>1. UNCHANGED <<known, available>> => KnownAreUp'
  BY DEF KnownAreUp
<1>2. Load \/ Unload \/ CleaningUp \/ DeviceEvent \/ HostEvent => UNCHANGED <<known, available>>
  BY DEF Load, Unload, CleaningUp, CleanUpAgain, RemoveGroups, CleanedUp, CleanUpOnce, DeviceEvent,
         HostEvent
<1>3. ASSUME NEW c \in Component, Activate(c) PROVE UNCHANGED <<known, available>>
  BY <1>3 DEF Activate
<1>4. ASSUME NEW a \in Activation, NEW c \in Component, TimerFires(a, c)
      PROVE  UNCHANGED <<known, available>>
  BY <1>4 DEF TimerFires
<1>5. ASSUME NEW a \in Activation, Executor(a) PROVE UNCHANGED <<known, available>>
  BY <1>5 DEF Executor, RunSetUpDevice, RunLearn, RunSetUpAllMetrics, RunSetUpAllBridging, SetUpNext
<1>6. Environment => KnownAreUp'
  <2>1. \A s \in Switch : ~DeviceDown(s)
    BY DowningCounts
  <2>2. QED
    BY <2>1 DEF Environment, DeviceUp, Configure, HostAdded, HostRemoved, KnownAreUp
<1>7. ASSUME NEW s \in Switch, NEW table, Removed(s, table) PROVE UNCHANGED <<known, available>>
  BY <1>7 DEF Removed
<1>8. UNCHANGED vars => UNCHANGED <<known, available>>
  BY DEF vars
<1>9. QED
  BY <1>1, <1>2, <1>3, <1>4, <1>5, <1>6, <1>7, <1>8 DEF Next

\* Activating the component schedules its initial setup.
LEMMA ActivateSchedules ==
  ASSUME Activate("bridging") PROVE SetUpPending("bridging")'
  BY DEF Activate, SetUpPending

LEMMA StepPopulated ==
  ASSUME TypeOK, LifecycleInv, PopulatedOrPending, [Next]_vars
  PROVE  PopulatedOrPending'
<1> SUFFICES ASSUME "bridging" \in listening'
             PROVE  activation' \in populated' \/ SetUpPending("bridging")'
  BY DEF PopulatedOrPending
<1>1. CASE Activate("bridging")
  BY <1>1, ActivateSchedules
<1>2. CASE ~Activate("bridging")
  <2>1. /\ "bridging" \in listening /\ activation \in Activation
        /\ UNCHANGED activation /\ populated \subseteq populated'
    BY <1>2, ActiveKeeps
  <2>2. RunSetUpAllBridging(activation) => activation \in populated'
    BY DEF RunSetUpAllBridging
  <2>3. QED
    BY <2>1, <2>2, SetUpStays DEF PopulatedOrPending
<1>3. QED
  BY <1>1, <1>2

\* A host becomes known by its first ARP packet.
LEMMA NewHost ==
  ASSUME [Next]_vars, NEW h \in known', h \notin known
  PROVE  \E g \in Host : HostAdded(g) /\ g = h
<1> USE DEF network
<1>1. UNCHANGED known => FALSE
  OBVIOUS
<1>2. ~(Load \/ Unload \/ CleaningUp \/ DeviceEvent \/ HostEvent)
  BY DEF Load, Unload, CleaningUp, CleanUpAgain, RemoveGroups, CleanedUp, CleanUpOnce, DeviceEvent,
         HostEvent
<1>3. \A c \in Component : ~Activate(c)
  BY DEF Activate
<1>4. \A a \in Activation, c \in Component : ~TimerFires(a, c)
  BY DEF TimerFires
<1>5. \A a \in Activation : ~Executor(a)
  BY DEF Executor, RunSetUpDevice, RunLearn, RunSetUpAllMetrics, RunSetUpAllBridging, SetUpNext
<1>6. Environment => \E g \in Host : HostAdded(g)
  BY DEF Environment, DeviceUp, DeviceDown, Configure, HostRemoved
<1>7. \A s \in Switch : \A table : ~Removed(s, table)
  BY DEF Removed
<1>8. PICK g \in Host : HostAdded(g)
  BY <1>1, <1>2, <1>3, <1>4, <1>5, <1>6, <1>7 DEF Next, vars
<1>9. QED
  BY <1>8 DEF HostAdded

LEMMA StepHosts ==
  ASSUME downs' = 0, HostsInv, [Next]_vars
  PROVE  HostsAccountedFor'
<1> SUFFICES ASSUME "bridging" \in listening', NEW h \in known'
             PROVE  HostDone(h)'
  BY DEF HostsAccountedFor, HostDone
<1>0. TypeOK /\ LifecycleInv /\ KnownAreUp /\ PopulatedOrPending /\ HostsAccountedFor
  BY DEF HostsInv
<1>1. CASE Activate("bridging")
  BY <1>1, ActivateSchedules DEF HostDone, HostPending
<1>2. CASE ~Activate("bridging")
  <2>1. /\ "bridging" \in listening /\ activation \in Activation
        /\ UNCHANGED activation /\ store \subseteq store'
    BY <1>0, <1>2, ActiveKeeps
  <2>2. CASE h \notin known
    <3>1. PICK g \in Host : HostAdded(g) /\ g = h
      BY <2>2, NewHost
    <3>2. Elements(Append(hostEvents, h)) = Elements(hostEvents) \cup {h}
      BY <1>0, <3>1, ElementsOfAppend DEF TypeOK
    <3>3. QED
      BY <3>1, <3>2 DEF HostDone, HostPending, HostAdded
  <2>3. CASE h \in known
    <3>0. h \in Host /\ h[1] \in available /\ h[1] \in Switch
      BY <1>0, <2>3 DEF TypeOK, KnownAreUp
    <3>1. CASE HostRules(h) \subseteq store
      BY <2>1, <3>1 DEF HostDone
    <3>2. ASSUME SetUpPending("bridging") PROVE HostDone(h)'
      <4>1. CASE SetUpPending("bridging")'
        BY <4>1 DEF HostDone, HostPending
      <4>2. CASE RunSetUpAllBridging(activation)
        <5>1. h[1] \in todo'[activation']
          BY <1>0, <2>1, <3>0, <4>2 DEF RunSetUpAllBridging, TypeOK
        <5>2. QED
          BY <5>1 DEF HostDone, HostPending
      <4>3. QED
        BY <1>0, <2>1, <3>2, <4>1, <4>2, SetUpStays
    <3>3. CASE h \in Elements(hostEvents)
      <4>1. CASE h \in Elements(hostEvents')
        BY <4>1 DEF HostDone, HostPending
      <4>2. CASE HostEvent /\ h = Head(hostEvents)
        <5>1. PICK x \in Task : x = Learn(h)
          BY <3>0, TasksAreTasks
        <5>2. PICK q \in Seq(Task) : q = <<x>> /\ Elements(q) = {x}
          BY Short
        <5>3. Execute(activation, q)
          BY <2>1, <4>2, <5>1, <5>2 DEF HostEvent, HostTasks
        <5>4. Learn(h) \in Elements(queue'[activation])
          BY <1>0, <2>1, <5>1, <5>2, <5>3, ExecutePuts DEF TypeOK
        <5>5. QED
          BY <2>1, <5>4 DEF HostDone, HostPending
      <4>3. QED
        BY <1>0, <3>3, <4>1, <4>2, EventsAndRoundsStay
    <3>4. CASE Learn(h) \in Elements(queue[activation])
      <4>1. CASE Learn(h) \in Elements(queue'[activation])
        BY <2>1, <4>1 DEF HostDone, HostPending
      <4>2. CASE Taken(activation, Learn(h))
        <5>1. PICK g \in Host : RunLearn(activation, g) /\ Learn(h) = Learn(g)
          BY <4>2, TasksDiffer DEF Taken
        <5>2. RunLearn(activation, h)
          BY <5>1, TasksDiffer
        <5>3. activation \in populated => HostRules(h) \subseteq store'
          BY <5>2 DEF RunLearn, Apply
        <5>4. QED
          BY <1>0, <2>1, <3>2, <5>3 DEF HostDone, PopulatedOrPending
      <4>3. QED
        BY <1>0, <2>1, <3>4, <4>1, <4>2, TasksStay
    <3>5. CASE h[1] \in todo[activation]
      <4>1. CASE h[1] \in todo'[activation]
        BY <2>1, <4>1 DEF HostDone, HostPending
      <4>2. CASE SetUpNext(activation, h[1])
        <5>1. HostRules(h) \subseteq store'
          BY <2>3, <4>2 DEF SetUpNext, Apply
        <5>2. QED
          BY <5>1 DEF HostDone
      <4>3. QED
        BY <1>0, <2>1, <3>0, <3>5, <4>1, <4>2, EventsAndRoundsStay
    <3>6. QED
      BY <1>0, <2>1, <2>3, <3>1, <3>2, <3>3, <3>4, <3>5 DEF HostsAccountedFor, HostPending
  <2>4. QED
    BY <2>2, <2>3
<1>3. QED
  BY <1>1, <1>2

(***************************************************************************)
(* While no device goes down, every known host has its rules in the store, *)
(* or they are still to come.                                              *)
(***************************************************************************)
THEOREM HostsAccounted == Spec => []HostsAccountedWhileUp
<1> DEFINE Inv == TypeOK /\ LifecycleInv /\ (downs = 0 => HostsInv)
<1>1. Init => Inv
  <2>1. Init => KnownAreUp /\ PopulatedOrPending /\ HostsAccountedFor
    BY DEF Init, KnownAreUp, PopulatedOrPending, HostsAccountedFor
  <2>2. QED
    BY <2>1, InitTypes DEF HostsInv
<1>2. Inv /\ [Next]_vars => Inv'
  <2> SUFFICES ASSUME TypeOK, LifecycleInv, downs = 0 => HostsInv, [Next]_vars
               PROVE  TypeOK' /\ LifecycleInv' /\ (downs' = 0 => HostsInv')
    OBVIOUS
  <2>1. TypeOK' /\ LifecycleInv'
    BY StepTypes, StepLifecycle
  <2>2. ASSUME downs' = 0 PROVE HostsInv'
    <3>1. TypeOK /\ LifecycleInv /\ KnownAreUp /\ PopulatedOrPending /\ HostsInv
      BY <2>2, DownsStay DEF HostsInv
    <3>2. KnownAreUp' /\ PopulatedOrPending' /\ HostsAccountedFor'
      BY <2>2, <3>1, StepKnownAreUp, StepPopulated, StepHosts
    <3>3. QED
      BY <2>1, <3>2 DEF HostsInv
  <2>3. QED
    BY <2>1, <2>2
<1>3. Inv => HostsAccountedWhileUp
  BY DEF HostsInv, HostsAccountedWhileUp
<1>4. QED
  BY <1>1, <1>2, <1>3, PTL DEF Spec
=============================================================================
