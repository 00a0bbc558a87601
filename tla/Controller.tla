------------------------------ MODULE Controller ------------------------------
(***************************************************************************)
(* How the ONOS application of onos-p4-cpu gets its rules into ONOS's      *)
(* stores: MainComponent with its executor and its clean-up,               *)
(* L2BridgingComponent ("bridging") and MetricsComponent ("metrics") with  *)
(* their listeners and their delayed setup, all of it loaded and unloaded  *)
(* while devices and hosts come and go.                                    *)
(*                                                                         *)
(* Four kinds of threads take part: the one that loads and unloads, ONOS's *)
(* event threads, the timer, and the executor of every activation.  An     *)
(* executor is never shut down: tasks of an unloaded application still run.*)
(* ONOS is a single node, so it is the master of every device.             *)
(***************************************************************************)
EXTENDS FlowRules, FiniteSets

CONSTANTS
  InitiallyUp,   \* devices available at the start
  LateConfig,    \* devices whose interfaces may be configured late
  Retries,       \* DEFAULT_CLEAN_UP_RETRY_TIMES
  MaxLoads,      \* bound: how often the application is loaded
  MaxDowns       \* bound: how often devices become unavailable

ASSUME ControllerAssumption ==
  /\ Host \subseteq Leaves \X Nat
  /\ InitiallyUp \subseteq Switch /\ LateConfig \subseteq Switch
  /\ Retries \in Nat /\ MaxLoads \in Nat /\ MaxDowns \in Nat

Component == {"bridging", "metrics"}
Activation == 1..MaxLoads

GroupTables == {"multicast_group"}
FlowTables == {"l2_ternary_table", "sw_sink", "sw_metric", "l2_exact_table"}

\* Tasks for the executor.
SetUpDevice(c, s) == [kind |-> "device", comp |-> c, of |-> s]
SetUpAll(c) == [kind |-> "all", comp |-> c, of |-> Spine]
Learn(h) == [kind |-> "host", comp |-> "bridging", of |-> h]

Task == {SetUpDevice(c, s) : c \in Component, s \in Switch}
          \cup {SetUpAll(c) : c \in Component} \cup {Learn(h) : h \in Host}

VARIABLES
  phase,         \* of the application: off, cleaning, activating, on, stopping
  activation,    \* the number of the last activation
  retries,       \* waitPreviousCleanup's retry
  groupsLeft,    \* cleanUp's groups, to be removed after the sleep
  listening,     \* the components whose listeners are registered
  timers,        \* pending tasks of SharedScheduledExecutors: <<activation, component>>
  queue,         \* the executor of each activation: its queue ...
  todo,          \* ... the devices its setUpAllDevices has still to set up ...
  populated,     \* ... and whether it has filled deviceFlows
  store,         \* ONOS's flow and group stores: the entries wanted ...
  removing,      \* ... and those waiting to be removed from a switch
  configured,    \* devices whose interfaces are in the network configuration
  available,     \* devices that are available
  known,         \* hosts ONOS knows
  deviceEvents,  \* events ONOS has still to dispatch
  hostEvents,
  downs          \* number of times a device has become unavailable

vars == <<phase, activation, retries, groupsLeft, listening, timers, queue, todo, populated,
          store, removing, configured, available, known, deviceEvents, hostEvents, downs>>

lifecycle == <<phase, activation, retries, groupsLeft, listening>>
executors == <<timers, queue, todo, populated>>
stores == <<store, removing>>
network == <<configured, available, known, downs>>
events == <<deviceEvents, hostEvents>>

Init ==
  /\ phase = "off" /\ activation = 0 /\ retries = 0
  /\ groupsLeft = {} /\ listening = {}
  /\ timers = {}
  /\ queue = [a \in Activation |-> <<>>]
  /\ todo = [a \in Activation |-> {}]
  /\ populated = {}
  /\ store = {} /\ removing = {}
  /\ configured \in {Switch \ late : late \in SUBSET LateConfig}
  /\ available = InitiallyUp
  /\ known \in SUBSET {h \in Host : h[1] \in InitiallyUp}
  /\ deviceEvents = <<>> /\ hostEvents = <<>>
  /\ downs = 0

-----------------------------------------------------------------------------
(***************************************************************************)
(* The stores.                                                             *)
(***************************************************************************)
Apply(entries) == /\ store' = store \cup entries
                  /\ removing' = removing \ entries

Remove(entries) == /\ store' = store \ entries
                   /\ removing' = removing \cup (entries \cap store)

\* ONOS has removed the flows, or the group, it was to remove from a switch.
Removed(s, table) ==
  /\ s \in available
  /\ \E r \in removing : r.sw = s /\ r.table \in table
  /\ removing' = {r \in removing : ~(r.sw = s /\ r.table \in table)}
  /\ UNCHANGED <<lifecycle, executors, store, network, events>>

-----------------------------------------------------------------------------
(***************************************************************************)
(* MainComponent: loading, unloading and the clean-up.                     *)
(***************************************************************************)

\* What cleanUp finds: every flow, but only the groups of available devices.
Flows == {r \in store \cup removing : r.table \in FlowTables}
Groups == {r \in store \cup removing : r.table \in GroupTables /\ r.sw \in available}

Load ==
  /\ phase = "off" /\ activation < MaxLoads
  /\ phase' = "cleaning"
  /\ activation' = activation + 1
  /\ retries' = Retries
  /\ UNCHANGED <<groupsLeft, listening, executors, stores, network, events>>

\* Mutant: the loop of waitPreviousCleanup does not count.
CleanUpUncounted ==
  /\ phase = "cleaning" /\ groupsLeft = {}
  /\ retries # 0 /\ Flows \cup Groups # {}
  /\ Remove(Flows)
  /\ groupsLeft' = Groups
  /\ UNCHANGED <<phase, activation, retries, listening, executors, network, events>>

\* Mutant: ... or counts without looking.
CleanUpForever ==
  /\ phase = "cleaning" /\ groupsLeft = {}
  /\ Flows \cup Groups # {}
  /\ Remove(Flows)
  /\ groupsLeft' = Groups
  /\ retries' = retries - 1
  /\ UNCHANGED <<phase, activation, listening, executors, network, events>>

\* A round of waitPreviousCleanup: cleanUp removes the flows, sleeps ...
CleanUpAgain ==
  /\ phase = "cleaning" /\ groupsLeft = {}
  /\ retries # 0 /\ Flows \cup Groups # {}
  /\ Remove(Flows)
  /\ groupsLeft' = Groups
  /\ retries' = retries - 1
  /\ UNCHANGED <<phase, activation, listening, executors, network, events>>

\* ... and removes the groups it found before.
RemoveGroups ==
  /\ groupsLeft # {}
  /\ Remove(groupsLeft)
  /\ groupsLeft' = {}
  /\ phase' = IF phase = "stopping" THEN "off" ELSE phase
  /\ UNCHANGED <<activation, retries, listening, executors, network, events>>

\* Mutant: the components are activated while groups are still to be removed.
CleanedUpEarly ==
  /\ phase = "cleaning"
  /\ retries = 0 \/ Flows \cup Groups = {}
  /\ phase' = "activating"
  /\ UNCHANGED <<activation, retries, groupsLeft, listening, executors, stores, network, events>>

\* Nothing is left, or the patience is.
CleanedUp ==
  /\ phase = "cleaning" /\ groupsLeft = {}
  /\ retries = 0 \/ Flows \cup Groups = {}
  /\ phase' = "activating"
  /\ UNCHANGED <<activation, retries, groupsLeft, listening, executors, stores, network, events>>

\* Mutant: no initial setup is scheduled.
ActivateUnscheduled(c) ==
  /\ phase = "activating" /\ c \notin listening
  /\ c = "metrics" => "bridging" \in listening
  /\ listening' = listening \cup {c}
  /\ phase' = IF c = "metrics" THEN "on" ELSE phase
  /\ UNCHANGED <<activation, retries, groupsLeft, executors, stores, network, events>>

\* activate of a component, MetricsComponent's after the one it refers to.
Activate(c) ==
  /\ phase = "activating" /\ c \notin listening
  /\ c = "metrics" => "bridging" \in listening
  /\ listening' = listening \cup {c}
  /\ timers' = timers \cup {<<activation, c>>}
  /\ phase' = IF c = "metrics" THEN "on" ELSE phase
  /\ UNCHANGED <<activation, retries, groupsLeft, queue, todo, populated, stores, network, events>>

\* deactivate of both components; timers and executor are left alone.
Unload ==
  /\ phase = "on"
  /\ phase' = "stopping"
  /\ listening' = {}
  /\ UNCHANGED <<activation, retries, groupsLeft, executors, stores, network, events>>

\* MainComponent.deactivate cleans up once.
CleanUpOnce ==
  /\ phase = "stopping" /\ groupsLeft = {}
  /\ Remove(Flows)
  /\ groupsLeft' = Groups
  /\ phase' = IF Groups = {} THEN "off" ELSE phase
  /\ UNCHANGED <<activation, retries, listening, executors, network, events>>

-----------------------------------------------------------------------------
(***************************************************************************)
(* The executors.                                                          *)
(***************************************************************************)
Execute(a, tasks) == queue' = [queue EXCEPT ![a] = @ \o tasks]

TimerFires(a, c) ==
  /\ <<a, c>> \in timers
  /\ timers' = timers \ {<<a, c>>}
  /\ Execute(a, <<SetUpAll(c)>>)
  /\ UNCHANGED <<lifecycle, todo, populated, stores, network, events>>

\* The executor of activation a takes up a task.
Runs(a, task) ==
  /\ todo[a] = {}
  /\ queue[a] # <<>> /\ Head(queue[a]) = task
  /\ queue' = [queue EXCEPT ![a] = Tail(@)]

\* What setUpDevice of a component writes: no group without interfaces.
DeviceEntries(c, s) ==
  IF c = "bridging" THEN BridgingEntries(s, configured) ELSE MetricRules(s)

RunSetUpDevice(a, c, s) ==
  /\ Runs(a, SetUpDevice(c, s))
  /\ Apply(DeviceEntries(c, s))
  /\ UNCHANGED <<lifecycle, timers, todo, populated, network, events>>

\* Until deviceFlows is filled it has no flows for any host.
RunLearn(a, h) ==
  /\ Runs(a, Learn(h))
  /\ Apply(IF a \in populated THEN HostRules(h) ELSE {})
  /\ UNCHANGED <<lifecycle, timers, todo, populated, network, events>>

\* setUpAllDevices of MetricsComponent.
RunSetUpAllMetrics(a) ==
  /\ Runs(a, SetUpAll("metrics"))
  /\ Apply(UNION {DeviceEntries("metrics", s) : s \in available})
  /\ UNCHANGED <<lifecycle, timers, todo, populated, network, events>>

\* Mutant: deviceFlows stays empty.
RunSetUpAllUnpopulated(a) ==
  /\ Runs(a, SetUpAll("bridging"))
  /\ todo' = [todo EXCEPT ![a] = available]
  /\ UNCHANGED <<lifecycle, timers, populated, stores, network, events>>

\* setUpAllDevices of L2BridgingComponent: populateDeviceFlows, then the loop over
\* the devices available now.
RunSetUpAllBridging(a) ==
  /\ Runs(a, SetUpAll("bridging"))
  /\ populated' = populated \cup {a}
  /\ todo' = [todo EXCEPT ![a] = available]
  /\ UNCHANGED <<lifecycle, timers, stores, network, events>>

\* Mutant: the loop sets up devices only.
SetUpNextDeviceOnly(a, s) ==
  /\ s \in todo[a]
  /\ todo' = [todo EXCEPT ![a] = @ \ {s}]
  /\ Apply(DeviceEntries("bridging", s))
  /\ UNCHANGED <<lifecycle, timers, queue, populated, network, events>>

\* A round of the loop: the device and the hosts known there.
SetUpNext(a, s) ==
  /\ s \in todo[a]
  /\ todo' = [todo EXCEPT ![a] = @ \ {s}]
  /\ Apply(DeviceEntries("bridging", s) \cup UNION {HostRules(h) : h \in {g \in known : g[1] = s}})
  /\ UNCHANGED <<lifecycle, timers, queue, populated, network, events>>

-----------------------------------------------------------------------------
(***************************************************************************)
(* ONOS and the network.                                                   *)
(***************************************************************************)
DeviceUp(s) ==
  /\ s \notin available
  /\ available' = available \cup {s}
  /\ deviceEvents' = Append(deviceEvents, s)
  /\ UNCHANGED <<lifecycle, executors, stores, configured, known, downs, hostEvents>>

DeviceDown(s) ==
  /\ s \in available /\ downs < MaxDowns
  /\ available' = available \ {s}
  /\ downs' = downs + 1
  /\ deviceEvents' = Append(deviceEvents, s)
  /\ UNCHANGED <<lifecycle, executors, stores, configured, known, hostEvents>>

\* A host sends its first ARP packet.
HostAdded(h) ==
  /\ h \notin known /\ h[1] \in available
  /\ known' = known \cup {h}
  /\ hostEvents' = Append(hostEvents, h)
  /\ UNCHANGED <<lifecycle, executors, stores, configured, available, downs, deviceEvents>>

\* ONOS may forget the hosts of a device that is down; the listener ignores the event.
HostRemoved(h) ==
  /\ h \in known /\ h[1] \notin available
  /\ known' = known \ {h}
  /\ UNCHANGED <<lifecycle, executors, stores, configured, available, downs, events>>

Configure(s) ==
  /\ s \in LateConfig \ configured
  /\ configured' = configured \cup {s}
  /\ UNCHANGED <<lifecycle, executors, stores, available, known, downs, events>>

\* The listeners' tasks for a device, in the order they were registered.
DeviceTasks(s) ==
  IF s \notin available \/ listening = {} THEN <<>>
  ELSE IF listening = {"bridging"} THEN <<SetUpDevice("bridging", s)>>
  ELSE <<SetUpDevice("bridging", s), SetUpDevice("metrics", s)>>

HostTasks(h) == IF "bridging" \in listening THEN <<Learn(h)>> ELSE <<>>

\* The listeners see whether the device is available now, not what the event was.
DeviceEvent ==
  /\ deviceEvents # <<>>
  /\ deviceEvents' = Tail(deviceEvents)
  /\ IF activation \in Activation THEN Execute(activation, DeviceTasks(Head(deviceEvents)))
     ELSE UNCHANGED queue
  /\ UNCHANGED <<lifecycle, timers, todo, populated, stores, network, hostEvents>>

HostEvent ==
  /\ hostEvents # <<>>
  /\ hostEvents' = Tail(hostEvents)
  /\ IF activation \in Activation THEN Execute(activation, HostTasks(Head(hostEvents)))
     ELSE UNCHANGED queue
  /\ UNCHANGED <<lifecycle, timers, todo, populated, stores, network, deviceEvents>>

-----------------------------------------------------------------------------
CleaningUp == CleanUpAgain \/ RemoveGroups \/ CleanedUp \/ CleanUpOnce

Executor(a) ==
  \/ \E c \in Component, s \in Switch : RunSetUpDevice(a, c, s)
  \/ \E h \in Host : RunLearn(a, h)
  \/ RunSetUpAllMetrics(a)
  \/ RunSetUpAllBridging(a)
  \/ \E s \in Switch : SetUpNext(a, s)

Environment ==
  \/ \E s \in Switch : DeviceUp(s) \/ DeviceDown(s) \/ Configure(s)
  \/ \E h \in Host : HostAdded(h) \/ HostRemoved(h)

Next ==
  \/ Load \/ Unload
  \/ CleaningUp
  \/ \E c \in Component : Activate(c)
  \/ \E a \in Activation, c \in Component : TimerFires(a, c)
  \/ \E a \in Activation : Executor(a)
  \/ DeviceEvent \/ HostEvent
  \/ Environment
  \/ \E s \in Switch, table \in {FlowTables, GroupTables} : Removed(s, table)

Spec == Init /\ [][Next]_vars

(***************************************************************************)
(* Every thread goes on, and ONOS goes on removing entries from switches.  *)
(* Nothing is assumed of the operator, the devices and the hosts.          *)
(***************************************************************************)
Fairness ==
  /\ WF_vars(CleaningUp)
  /\ \A c \in Component : WF_vars(Activate(c))
  /\ \A a \in Activation : WF_vars(Executor(a))
  /\ \A a \in Activation, c \in Component : WF_vars(TimerFires(a, c))
  /\ WF_vars(DeviceEvent) /\ WF_vars(HostEvent)
  /\ \A s \in Switch, table \in {FlowTables, GroupTables} : WF_vars(Removed(s, table))

FairSpec == Spec /\ Fairness

-----------------------------------------------------------------------------
\* Every variable keeps its type.
TypeOK ==
  /\ phase \in {"off", "cleaning", "activating", "on", "stopping"}
  /\ activation \in 0..MaxLoads
  /\ retries \in 0..Retries
  /\ groupsLeft \subseteq Entry
  /\ listening \subseteq Component
  /\ timers \subseteq Activation \X Component
  /\ queue \in [Activation -> Seq(Task)]
  /\ todo \in [Activation -> SUBSET Switch]
  /\ populated \subseteq Activation
  /\ store \subseteq Entry /\ removing \subseteq Entry
  /\ configured \subseteq Switch
  /\ available \subseteq Switch
  /\ known \subseteq Host
  /\ deviceEvents \in Seq(Switch) /\ hostEvents \in Seq(Host)
  /\ downs \in 0..MaxDowns

Elements(q) == {q[i] : i \in DOMAIN q}

(***************************************************************************)
(* No device is forgotten: while a component is active, an available       *)
(* device has the component's rules in the store, or its setup is still to *)
(* come, from an event, a task, the delayed setup or its loop.             *)
(***************************************************************************)
SetUpPending(c) == <<activation, c>> \in timers \/ SetUpAll(c) \in Elements(queue[activation])

DevicePending(c, s) ==
  \/ s \in Elements(deviceEvents)
  \/ SetUpDevice(c, s) \in Elements(queue[activation])
  \/ SetUpPending(c)
  \/ c = "bridging" /\ s \in todo[activation]

ComponentRules(c, s) == IF c = "bridging" THEN BridgingRules(s) ELSE MetricRules(s)

DevicesAccountedFor ==
  \A c \in listening, s \in available : ComponentRules(c, s) \subseteq store \/ DevicePending(c, s)

(***************************************************************************)
(* No host is forgotten (L2BridgingComponent, lines 275 to 277: learnHost  *)
(* is called for each host known by ONOS, and for every new one).          *)
(***************************************************************************)
HostPending(h) ==
  \/ h \in Elements(hostEvents)
  \/ Learn(h) \in Elements(queue[activation])
  \/ SetUpPending("bridging")
  \/ h[1] \in todo[activation]

HostsAccountedFor ==
  "bridging" \in listening => \A h \in known : HostRules(h) \subseteq store \/ HostPending(h)

\* No host is forgotten as long as no device has gone down (that it is after, the
\* loop over the available devices is to blame).
HostsAccountedWhileUp == downs = 0 => HostsAccountedFor

(***************************************************************************)
(* cleanUp "triggers clean up of flows and groups from this app"           *)
(* (MainComponent, line 144): unloaded and idle, the application wants     *)
(* nothing on the switches.                                                *)
(***************************************************************************)
Idle == /\ timers = {}
        /\ \A a \in Activation : queue[a] = <<>> /\ todo[a] = {}

UnloadedIsClean == phase = "off" /\ Idle => store = {}

(***************************************************************************)
(* Loading always comes to an end, whether or not the entries of earlier   *)
(* activations can be removed.                                             *)
(***************************************************************************)
LoadingEnds == phase = "cleaning" ~> phase = "on"

(***************************************************************************)
(* A device that stays available gets its rules for good, and its group    *)
(* too if its interfaces were configured all along, however often the      *)
(* application was loaded and whatever was being removed meanwhile: the    *)
(* group is removed a while after the rules.                               *)
(***************************************************************************)
DevicesSetUp ==
  \A s \in Switch : <>[](phase = "on" /\ s \in available) =>
    /\ <>[](BridgingRules(s) \cup MetricRules(s) \subseteq store)
    /\ [](s \in configured) => <>[](GroupEntry(s) \in store)

(***************************************************************************)
(* If no device goes down, a host that stays known gets its unicast rules  *)
(* for good.                                                               *)
(***************************************************************************)
HostsLearned ==
  [](downs = 0) => \A h \in Host : <>[](phase = "on" /\ h \in known) => <>[](HostRules(h) \subseteq store)
=============================================================================
