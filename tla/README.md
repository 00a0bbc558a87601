# Formal model of the major-project network

This directory holds TLA+ models of the programs in this repository, the TLC
configurations that check them on small instances, and proofs, checked by
TLAPS, of the results that hold for every instance.  The repository is a
networking project: P4 data planes with in-band telemetry, the ONOS application
that programs them, a congestion limiter for hosts, and the scripts around
them.  Throughout, `J/` stands for
`src/onos-p4-cpu/app/src/main/java/org/onosproject/major/shank/`.

## 1. Inventory

### The parts and what each keeps

| Part | Source | State | Operations | What makes it correct |
|---|---|---|---|---|
| In-band telemetry header | `onos-p4-cpu/p4src/main.p4` (parser, egress, deparser), `J/common/MetricRecorder.java` | the header `records_t` (a one-byte count) and the stack `data[MAX_REC]` of a packet | extract, push a metric, clear three, emit; read a packet-in | what is pushed can be removed again; the reader gets the path and no payload |
| Data plane of the fabric | `main.p4`, `mininet/topo-v4.py` | tables of five switches; packets before ingress and, queued, before egress | ingress and egress pipeline, clone, multicast replication, packet-in, packet-out | packets reach the host they are for; the header never leaves the fabric; floods end; discovery is true |
| Rules of the ONOS application | `J/L2BridgingComponent`, `J/MetricsComponent`, `J/cli/*Recorder` | ONOS's flow store and group store | set up a device, learn a host, start and stop recording | the rules a packet needs are there when it needs them |
| Activation, events and clean-up | `J/MainComponent`, the listeners in the two components | a single-threaded executor, scheduled tasks, `deviceFlows`, what ONOS knows of devices and hosts | activate, deactivate, clean up and wait for it, device and host events, delayed setup | every device and every host is set up in the end, however events and setup interleave |
| Record database and query | `J/common/MetricRecorder`, `J/cli/RecordsQuery` | a map from device to records | store a packet-in's records, query and sort | no record is lost or double counted, the query is sorted |
| Pipeline plumbing | `J/pipeconf/*` | none of its own | packet-in/out mapping, flow objectives to rules and groups, registering the pipeconf | the mapping loses nothing; a failed objective is reported once |
| CPU extern | `onos-p4-cpu/extern/cpu.cpp`, `p4-cpu/extern/cpu.cpp` | a `started` flag, the last sample, a sampler thread | sample, read | one sampler; the value read is a sample |
| Stand-alone telemetry switch | `p4-cpu/` | the entries of a switch; packets | forward by MAC, record, send and print probes | a probe tells its whole way, newest record first; no loop |
| Congestion limiter | `major-7sem/tcp/` | the congestion state and its time to live; the handler's flag and counters | TCP packet, answer, request; the server's answer | packets pass only under a fresh state; limited hosts pause; nobody is shut out for good |
| Linear and star networks | `major-7sem/{l2,l3,linear}/` | the entries of a switch; hosts' ARP tables; packets | bridge by MAC, route by prefix, answer ARP, ping | pings are answered; nobody gets another's packets or learns a false address |
| P4Runtime controller and Mininet runner | `major-7sem/core/p4runtime_lib/`, `run_exercise.py`, `p4_mininet.py`, `p4runtime_switch.py` | the connection, its stream and its request log; ports, processes and switch objects; what each switch has accepted | make, start, await, program and stop switches; build entries from a configuration and a P4Info file | the prompt means programmed switches; nobody is taken for another; streams are closed; it comes up or fails |
| Packaged applications (p4app) | `major-7sem/core/p4apprunner.py`, `core/mininet/` | the phase of the runner, its script, the hosts' commands, exit codes | read a manifest, compile, make a network, configure hosts, run and stop commands | the exit status tells what happened; ports, paths and routes are those of the topology; it ends |

### How they interact

* A switch never calls the application: it clones packets to the CPU port.  The
  clone becomes a packet-in, which `InterpreterImpl.mapInboundPacket` gives to
  ONOS's host and link providers or, when it carries records, to
  `MetricRecorder` (packet-in threads, one per device).
* The application never calls a switch: it writes flow rules and groups to
  ONOS's stores, and ONOS makes each switch follow its part, rule by rule, later
  and in no order across switches (nor, for our purposes, within one).
* The two components and the scheduled tasks share one executor of
  `MainComponent`; listeners run on ONOS's event threads and post to it.
* The limiter and its server share nothing but UDP packets.
* The runner of `core` makes switch objects through Mininet, which starts a bmv2
  process for each; it then calls `program_switch` for one switch after the
  other, over gRPC, or starts a CLI for it and goes on.  bmv2 processes and CLIs
  run beside it.  The packets of the linear, star and p4-cpu networks meet
  whatever the runner has left on the switches.
* `p4apprunner` starts a script and sees its exit status only; the script starts
  the hosts' commands and sees theirs.

### What is hard here

Two packets' worth of concurrency (rules change between a packet's ingress and
egress, and between its switches), rule writes in any order, setup driven by
events and by a delayed task at once, clean-up and re-activation while old tasks
are queued, unreliable UDP with a timeout counted in packets, byte and short
counters, time taken from a clock that may be set, and unlocked state in the
extern and in `MetricRecorder`; processes that start, listen and die in their
own time and are known by port number only; a configuration that fails
half-way; commands that do not end when they are told to.  `PROJECT.json` lists each of these at its line,
with the properties that cover it or the reason none does yet.

## 2. Plan

The order is by how much of the system depends on a part.  Modules marked with
a star are written.

1. `RecordHeader`\*: the telemetry header as operators on sequences.
2. `FlowRules`\*: which rules each operation of the application writes.
   `Fabric`\*, `MCFabric`\*: the switches, the packets, the rules.  Extends
   `FlowRules` and `RecordHeader`.  `FabricProofs`\*: the header stack, types and
   the transparency of the header; `FabricWayProofs`\*: the way of every packet and
   what follows from it.
3. `CongestionLimiter`\*, `MCCongestionLimiter`\*, `CongestionLimiterProofs`\*.
4. `Controller`\*, `MCController`\*, `ControllerProofs`\*: activations with their
   executors, timers, listeners, devices that come and go, the flow and group
   stores, and the clean-up with its retries.  Extends `FlowRules`.
5. `P4Info`\*: entries from configurations.  `P4Runtime`\*: `program_switch` and
   a switch's server.  Extends `P4Info`.  `Exercise`\*: the runner around it;
   extends `P4Runtime`.  `Deployment`\*: what programming a switch promises, the
   abstract specification `Exercise` implements.  `ExerciseProofs`\*.
6. `Networks`\*: the four networks of the `run.py` scripts as data.
   `Forwarding`\*: their P4 programs and hosts, composed with `Exercise`, over the
   entries it has installed.  `ForwardingProofs`\*.  `MCExercise`\* instantiates all of
   5 and 6.
7. `AppNetwork`\*: the topology, paths and routes of packaged applications.
   `App`\*: their runner; extends `AppNetwork`.  `MCApp`\*.
   `AppNetworkProofs`\*, `AppProofs`\*.
8. Not written: several ONOS nodes with mastership in `Controller`; `Controller`'s writes to
   the store as a refinement of the application's actions in `Fabric`, which would need the
   single calls of a task as steps; an abstract licence gate that the limiter implements.

## 3. Modules and code

### RecordHeader

A packet behind its ethernet header is a sequence of *cells* of 15 bytes, the
size of `record_data_t`: a cell is a metric, named by the switch that wrote it,
or payload.  `Stack` and `Unparsed` are the parser (it extracts `records + 1`
cells, at most `MAX_REC`, and stops at the end of the packet), `PushFront` is `push_front(1)` on
the bounded stack, `ClearRecords` the three `pop_front` of `clear_records`,
`Emit` the deparser, `ReadRecords` the loop of `extractRecords`.  `Byte` keeps
the count to its eight bits.

### FlowRules

A rule is its table, its switch, and what it matches: the fields in which the
application's rules differ.  One operator per method that builds a rule, and
one per operation for the set it writes (`BridgingRules`, `MetricRules`,
`HostRules`, `RecordRules`).  A multicast group is an entry beside the rules
(`GroupEntry`): `BridgingEntries` are what the setup of a device by `L2BridgingComponent`
writes, the group among them if the device's interfaces are configured by then.  A host's address is where it is plugged in, so
`HostRules` stands for the host's row of `populateDeviceFlows`.

### Fabric

State: `store` (ONOS's flow and group stores), `groupsLeft`, `tables` (what is on the switches), `copies`
(packets in flight: at which switch, before ingress or before egress), and what
hosts (`delivered`) and the controller (`reports`, `packetIns`) received.

* `Ingress(c)` is the parser and the ingress pipeline of `main.p4` for one
  packet, with the traffic manager's cloning and replication; `Egress(c)` the
  egress pipeline, the deparser and the link.  Rules may change between the two.
* `SetUpBridging`, `SetUpMetrics`, `LearnHost`, `EnableRecording`,
  `StopRecording`, `CleanUp`, `RemoveGroups` are the application's operations: each
  writes the store, in one step (one `applyFlowRules` or `addGroup` call, or a few of them
  that nothing else writes between).  `CleanUp` removes the rules and notes the
  groups (`groupsLeft`), `RemoveGroups` comes after the sleep and removes these.
* `SyncAdd`, `SyncRemove` make the switches follow, one rule or group per step: a
  switch may have the broadcast rule and not the group, before the group is added or
  after it is removed, and then floods nothing.
* `SendIp`, `SendArp`, `SendProbe` (`records/send.py`), `PacketOut` are the traffic.

Points where the pipeline is not what it seems, and which the model keeps:
`egress_port` is 0 throughout ingress, so the guard `egress_port < 3` of
`main.p4` line 462 never fails; an ingress-to-egress clone is the packet as it
came in, with fresh metadata, so it is not stripped; the count is incremented
when `sw_metric` misses, too; a unicast miss drops, but the ternary table may
still name a group, which the switch may have or not; a replica for the ingress port is dropped in egress.

`orig`, `trail`, `pid` are in no packet: they are there for the properties.
The payloads are whole cells, and so longer than the rest a parser could leave
half-read; a host address is the place where the host is plugged in.

### Controller

State: where the application is between loading and unloading (`phase`,
`activation`, `retries`, `groupsLeft`), the components whose listeners are
registered, the pending timers, for every activation the queue of its executor
with what is left of the loop it is in (`todo`) and whether `deviceFlows` is
filled (`populated`), ONOS's stores (`store`: wanted; `removing`: waiting to be
removed from a switch), and what ONOS knows of devices and hosts with the
events it has still to dispatch.

* `Load`, `CleanUpAgain`, `RemoveGroups`, `CleanedUp` are `MainComponent.activate`
  with `waitPreviousCleanup`; `Activate(c)` the two components' `activate`;
  `Unload`, `CleanUpOnce`, `RemoveGroups` the `deactivate`s.  `cleanUp` is two steps,
  because it sleeps between the flows and the groups.  It finds the flows of every
  device but the groups of available ones only, and an entry that ONOS has not yet
  removed from a switch is found again.
* `TimerFires` is the timer of `scheduleTask`.  `RunSetUpDevice`, `RunLearn`,
  `RunSetUpAllMetrics`, `RunSetUpAllBridging` are tasks of an executor; the loop
  of `L2BridgingComponent.setUpAllDevices` goes on with a `SetUpNext` per device,
  over the devices available when it began and the hosts known when it reaches
  each.  `MainComponent` makes one executor per activation and never
  shuts it down, so the tasks of an unloaded activation run beside everything else.
  What a task, or one round of the loop, writes is one step of the model.  In the code a
  clean-up may come between the calls of a task of an earlier activation; the properties
  that are checked speak of active components, and while there are any nothing is
  removed (`LifecycleInv`).
* `DeviceEvent`, `HostEvent` dispatch an event to the listeners; the device is asked
  for its availability then, not when the event happened.
* `DeviceUp`, `DeviceDown`, `HostAdded`, `HostRemoved`, `Configure`, `Removed` are ONOS
  and the network, modelled from how the application uses them.  ONOS may forget
  the hosts of a device that is down, or keep them.  Entries leave `removing` one
  switch at a time, flows and groups apart.  ONOS is a single node, the
  master of every device.

### CongestionLimiter

State: the congestion state with what is left of its time on the system clock, the
handler's three counters, how long it has been asleep, requests and answers under way.
`Refuse`, `Ask`, `Pass`, `Limit` and `Pause` are what `packet_callback` does with a TCP
packet of the host; `Answer` is a UDP answer; `Serve` is `udp_server`, which may have been
restarted with another state.  The other packets the callback accepts unchanged are no
step.  `Pause` is the sleep before a new burst: it blocks the only thread, so packets and
answers wait in the queue, but time goes on, and when the handler wakes (`Resume`) the
packet passes without another look at the state.  `Tick` is time, `SetClock` somebody who
sets the system clock forwards or backwards.  `transferred` is a signed short
(`Short`) and the limit an unsigned one, `packetDrops` never leaves `0..MAX_CS_REQ_DROP`.
`age`, `setBack`, `waiting`, `burst` and `lowered` are there for the properties.

### P4Info

What `helper.py` and `convert.py` make of one entry.  An operator that may raise
returns the set of its results, empty when it raises.  Numbers become bytes
(`EncodeNum`), with Python's unbounded integers before and the field's width after;
a list of one element stands for the element; a string that is neither a MAC nor
an IPv4 address is no bytes.  `EncodesFaithfully` is what a number is promised, any
number for any width; the run asks it for the edges.  Tables and actions are found by name or alias, the
match fields and parameters by full name only, as in the code.

### P4Runtime

State: of the client, the switch it is at, how far it is, the stream, the log of
`GrpcRequestLogger` and the outcome of each call; of the server, the switches
that serve, run their pipeline, and the entries they hold.  `SkipSwitch`,
`BadP4Info` and `Connect` are the beginning of `program_switch`,
`MasterArbitrationUpdate`, `SetForwardingPipelineConfig` and `Insert` its calls,
`Finish` and `Raise` its two ends, each with the `finally` block.  A request may
be refused at any time, for no reason known to the client: `Raise` covers every
gRPC error, a dead server, and an entry that cannot be built.  It may also never be answered:
no call has a deadline.  The log holds a request as it was sent, or, if it is longer
than `MSG_LOG_MAX_LEN`, the notice written in its place (`TooLong`, `Message`).

### Deployment

A switch is loaded, extended from one stage of its configuration to the next and
declared ready; it may be lost.  Nothing is said of connections, ports or errors.

### Exercise

State: the phase of the script and where in it, the ports and the device number
each switch object was given, the bmv2 processes and the CLIs, and the ports that other
programs have (`occupied`).

* `Compile` is the shell commands of a `run.py`, `ReadTopology` the checks of
  `ExerciseRunner`; `MakeSwitch` the constructors of `P4Switch` and
  `P4RuntimeSwitch` with their class counters; `StartSwitch` and
  `CheckSwitchStarted` their `start`; `ProgramHosts`, `ProgramExerciseSwitch`,
  `CallProgramSwitch`, `InProgramSwitch`, `ProgramNext` the programming;
  `LeaveCli`, `StopSwitch` the end.
* `Bind`, `Die` and `RunCli` are the processes beside the script; `Occupy` and `Leave`
  other programs, which take a free port or give theirs up at any moment, so also between
  the look at a port in a switch's constructor and the one in `check_switch_started`.
  They speak neither P4Runtime nor Thrift: a request to one fails or is never answered.
* `phase = "failed"` is any exception or exit; a script that fails leaves
  the bmv2 processes it has started.  The model ends there, as the scripts do.

Three things the model keeps that the code may not intend:
`program_switch_p4runtime` of `run_exercise.py` calls a name that is not
imported, so an exercise with a `runtime_json` ends with an error there; a
simple_switch whose port is taken fails while printing the message that says so
(`p4_mininet.py:84` names an attribute that does not exist), which is a failure
either way; a simple_switch that neither listens nor dies is waited for without
limit, as is a gRPC server that does not answer.

### Networks, Forwarding

`Networks` has the topologies, host addresses, configurations and the
tables of the P4 programs as records.  `Forwarding` matches frames against what
is installed: `ExactMatch`, `LongestPrefix`, default actions, and one operator per
program (`L2`, `L3`, `Bridge`, `Router`, `CpuL2`).  A switch without a pipeline forwards
nothing, and what comes to one that is stopped stays where it is.  `Ping` and `SendProbe`
are the user at the prompt of a `run.py`, `LearnArp`, `Answer` and `Take` a host that receives.  A
frame's `trail` is in no packet: it is there for the properties.  The bridge of
`linear` compares the destination with a constant of 40 bits where 48 are
meant, so no broadcast is flooded by it; the networks work because broadcasts take
the table's default.

### AppNetwork, App

`AppNetwork` is `AppTopo`, `ShortestPath` and what `AppController` tells hosts, as
operators on a sequence of links.  `IsNetwork` says which sequences these are: a
link joins two different nodes, no two join the same (`apptopo.py` keeps a host's
links by their switch, so of two only one would be left), and
numbers of nodes stay below 100, so that names sort as the code sorts them.  `RecPath`
searches all simple paths as the code does, as a recursive function.  `App` is `p4apprunner` from the manifest to its
exit status, with the script it launches: the topology, the network, the
controller, the commands of the hosts and how they are stopped.  A command is
described by what the script can tell of it: does it end by itself, is it a child
of its shell or has it taken the shell's place, which signals does it obey.  `Popen`
returns when there is a shell; the command begins later (`CommandBegins`), and `pkill -P`
finds it only then, if it is the shell's child.  A command of a host that no link names
ends the script.
`AppController.add_entries` writes text to a pipe of bytes, which raises: a
network with entries for a switch fails in `StartController`.

## 4. What the runs check

| Run | Bounds | Shows |
|---|---|---|
| `recording` | two leaves, three hosts (two on one leaf), payloads of one and two cells, one packet, four operations: leaf 2 has still to be set up by both components, recording goes on and off | the header is transparent and the payload intact while a leaf is set up rule by rule, reports are whole paths, a stripped packet is reported once, unicast arrives |
| `discovery` | two leaves, three hosts, one ARP packet, LLDP packet or probe, one operation (a host is learned, or the clean-up with its groups) | floods end, reach everyone once unless a switch has lost its rule or its group, discovery is true |
| `early_recording` | two leaves, one host each, bridging not yet set up, two operations, recording not held back | **violated**: a host gets the header (finding) |
| `probe_reported_twice` | two leaves, one host each, all set up, one probe or IPv4 packet | **violated**: the leaf where a probe enters reports it, too (finding) |
| `controller_setup` | the spine and a leaf that comes up later, one host, one load, a device going down once | an available device is set up or will be; while none has gone down a known host is learned or will be; a host that stays is learned for good |
| `controller_reload` | one device, configured from the start or later, two loads, going down once | loading ends; a device that stays up is set up for good, with its group if it was configured all along, whatever an earlier activation still does |
| `controller_skipped_host` | two devices, one host, going down once | **violated**: a host is never learned (finding) |
| `controller_late_task` | one load | **violated**: rules are left after the application is unloaded (finding) |
| `limiter` | time to live 1, two drops, a short of 3 (-3..2), two requests or answers under way; limits 0, 1, 2 and 3, pauses of 0 and 1, no limit; the clock set forwards and backwards by 1, between two answers backwards once, and shown for two steps after a state is over | licence, no early retry, bursts; a state arrives again |
| `exercise` | the four networks, every pair of hosts that talks; two switches of `linear` with eight configurations, a port occupied from the start or by a program that comes and goes, processes that may die at any time; two-switch exercises with and without gRPC, the same ports and five topologies; 3 looks at a starting switch | `NoImpostor`, `CommandsReachTheirSwitch`: no switch is taken for another, and another program only if it came after the check; `DumpTells`, `NoOpenStreams`; `PromptMeansProgrammed`, `ProgramsByStages`: a configuration takes effect in order and as a whole or the prompt does not appear; `EncodingIsFaithful`; it `ComesUp`, fails, or is held up by one of the waits without a deadline; pings are `Answered`, `NoLoop`, `NoStray`, `ArrivalsTellTheWay` |
| `exercise_own_programs` | two simple_switches, each with a program of its own | **violated**: both get thrift port 9090 (finding) |
| `app` | six backends with everything that may be missing, seven topologies, every pair of commands, a command of a host that is not there | `ExitTells`; `PortsAgree`, `PathIsShortest`, `RoutesLead`; it ends, unless it came to a command whose shell had not forked yet |

Why the bounds are enough: every path in the fabric is one leaf, or leaf, spine,
leaf, so two leaves and hosts on the same and on different leaves give every
kind of path; packets do not interact except through the rules, so one packet
against all rule changes is the interesting case (and the theorems have no
such bound).  The controller treats every device and every host alike and
their work is independent but for the order in queues, so one device with two
activations and one failure gives every overlap of an activation, an older one,
events and the loop, and two devices with a host every order of arrivals; what
holds of all of these at once is proved, without such bounds.  The limiter's counter wraps
within a handful of packets when a short goes up to 2: limits below, at and beyond what it
reaches are all there, and a restarted server goes from each to each, within a burst
and between bursts.  A state may be over before, within and after a pause, and the clock
can revive it, since it shows times longer past than it can be set back
(`LimiterAssumption`).

The runner handles switches one at a time, so what one switch can do to
another (a port, a process, an error) shows with two; the networks themselves are
the repository's, whole.  Files differ in what the code tests of them: a missing
file, an unreadable P4Info file, an entry twice, too large, by alias, without
priority.  Numbers are encoded at the edges of their range for the widths around
a whole number of bytes.  A package's topology is chosen for what paths can be:
one way, two of different length, none, through a host, two links of a host, ten
hosts, a wrong link.

`CHECK_DEADLOCK FALSE` in the fabric's runs: the bounds on packets and
operations stop the system; in the controller's, the bounds on loads and
failures.  The runner's and the packages' scripts end.  The limiter never stops.

Fairness.  `Fabric`: weak fairness of `Forward`, a switch goes on processing what
it has queued.  `Controller`: weak fairness of each thread (the loading thread,
each executor, each timer, the two event dispatchers) and of ONOS removing entries
from a device that is available; nothing is assumed of the operator, the devices and
the hosts.  `CongestionLimiter`: the host goes on sending (TCP retransmits
what is dropped; weak fairness of `TcpPacket`), a request can be sent now and then,
the server answers requests and the network delivers answers now and then
(strong fairness of `Ask(TRUE)`, `Serve`, `Answer`); time goes on (weak fairness of
`Tick`), without which a pause would not end, and nothing is assumed of who sets the
clock.  `Exercise`: weak fairness of the script's own steps and of nothing else, and of these
only while the script is not `HeldUp`: `program_switch` waits without a deadline for
arbitration and for each answer, so nothing makes it go on while somebody listens on the
port it has connected to.  No server has to answer, no bmv2 process to bind its ports or to die, no CLI
to run, no other program to leave a port.  `ComesUp` names the two waits of the code
that may therefore last: `HeldUp`, and `AwaitsSimpleSwitch`, the loop of
`check_switch_started` at a simple_switch that neither listens nor dies.  What it excludes is
that anything else keeps the script from the prompt or from an error.  `Forwarding` adds weak fairness of
the hosts' configuration and of the delivery of frames; nothing is assumed of the user, so
`Answered` speaks of pings sent, and of a network that is up for good.  `App`: weak fairness of the
script with the user who leaves a prompt, and of commands, which begin and end if they
can.  `AppEnds` is about packages whose commands can all be stopped (`Stoppable`), since the script waits for any
other without limit; and it excepts the case the code does not handle, a shell that had not forked when the signals
came (`TooEarly`), whose command then runs on while the script waits for it
(`WaitsForUnreached`).

What the properties leave out on purpose: `HostsAccountedWhileUp` is about the time
before a device goes down.  `PassesAreLicensed` and `NoEarlyRetry` count what the clock was
set back, `BurstWithinValue` names the limits the equality at `tcp.hpp:112` misses: 0 and
those of half the range or more, which the signed counter does not meet or only after it has wrapped,
and one that was lowered below what the burst has had.  `NoImpostor` names the ports that another program took
after the constructor had found them free.  `RoutesLead` is about routes to hosts of one
link, since a host of several loses its first address.  `ExitTells` says nothing of a
compiler or script killed by a signal: `WEXITSTATUS` is 0 then and the runner reports
success, which no line of the source denies.

## 5. What is proved

* `FabricProofs!TypeCorrect`: `Spec => []TypeOK`, for every topology of leaves, hosts,
  payloads, traffic and operations; no stack outgrows `data[]`.
* `FabricProofs!Transparency`: `Spec => []TransparencyInv`, if `Careful`.  The
  invariant says for each host packet in flight which records it carries from
  where it is (`Gathered`, `OnPath`), what of them the parser has extracted
  (`Queued`), and that packets are recorded only while all telemetry rules are in the
  store and on the switches (`RecordingIsSafe`).  `PayloadIntact` alone is not
  inductive: it says nothing of a packet before its last switch.  Corollaries:
  `PayloadsIntact`, `ReportsArePaths`.
* `Careful` is the one assumption: recording starts only on a fabric whose setup is
  complete and stops before the application is unloaded.  The code does not
  ensure it; `early_recording` shows what happens without it.
* `FabricWayProofs!Ways`: every packet in flight is on one of three legs from where it
  came in (its own leaf, the spine, another leaf), by a port that its kind and its
  destination allow (`WaysInv`, with no assumption: whatever rules there are, and
  whenever they change between a packet's ingress and egress).  It holds because no
  rule of the application names a group address as an exact match and every leaf's
  only way out is its uplink.  `DiscoveryTells` follows: packet-ins tell the truth.
* `FabricWayProofs!PacketsKeepTheirNumber`: what has one number is one packet.
* `FabricWayProofs!BroadcastsOnce`, with no assumption.  `BroadcastOnce` is not
  inductive, since it says nothing of copies on their way; `FloodInv` gives each copy
  the set of hosts it can still reach, and says that the sets of two copies of a
  packet have nothing in common, nor with the hosts that have it already.  A step
  divides a copy's set among what it becomes.
* `FabricWayProofs!StrippedIsReportedOnce`, if `Careful`.  `StripInv` follows a packet:
  until it leaves the last switch's ingress with its header none of its records is
  reported or on the way to the controller; from then on exactly one report is.
* `FabricWayProofs!ProbesAreReportedTwice`: the finding of `probe_reported_twice` is no
  accident of its instance.  Where the telemetry rules are on the switches from the start and
  there is no clean-up, each probe across the fabric is reported by both leaves, by the
  first with its own metrics alone.  While a fabric is set up a probe may pass a leaf that
  does not report it yet, so both conditions are needed.  It says what the code does, not what it
  should, and so no run asks for it.
* `CongestionLimiterProofs`: `TypeCorrect`, `Licence`, `Retry` and `Bursts`, with no assumption but
  `LimiterAssumption`: any clock, any limits.  `StateInv` says that a state is
  held no longer than it may be and what the clock was set back, which a handler that
  sleeps took up in time, and that drops are counted exactly while an answer is due
  (`CountsDrops`), unless the clock was set back.  `BurstInv` relates the signed counter to the packets of the
  burst, and both to the limit as it was last answered.
* `ControllerProofs!TypeCorrect` and `DevicesAccounted`: with no assumption, for
  every network, every number of loads and failures.  Both rest on
  `LifecycleInv`: a listener is registered only while an activation is under way or
  done, and no clean-up runs then.  Without it a clean-up could take the rules of
  an active component.  The proof follows one device's work from event to task to
  store: every step does it or leaves it where it is.
* `ControllerProofs!HostsAccounted`: no host is forgotten, as long as no device has
  gone down (`HostsAccountedWhileUp`).  The invariant adds that known hosts are at
  available devices and that `deviceFlows` is filled or the setup that fills it is
  still pending; a host whose event comes too early is then met by the loop.  The run
  `controller_skipped_host` shows that the condition is needed.
* `ExerciseProofs!TypeCorrect` and `StreamsAreClosed`, for any setups, files and
  P4Info files.  The second rests on what is true within a call: the switch is the one
  the loop is at, and its stream is open exactly then.
* `ExerciseProofs!Refinement`: `Exercise` implements `Deployment`, with the entries
  on a switch for its contents, the outcome `done` for ready, and dead processes for
  lost.  The invariant says that while a switch is programmed it holds the effect of
  exactly the entries sent, or its process is dead (`EntriesInv`); that only a switch
  whose call has got that far has a pipeline (`CallInv`); and that only a started
  process serves (`ProcessInv`).  Each action maps to one step or a
  stutter: `SetForwardingPipelineConfig` to `Load`, `Insert` to `Extend`,
  `Finish` to `Declare`, the end of a process to a loss.
* `ExerciseProofs!ReadyComplete`: in `Deployment`, a switch that is ready is
  complete or lost.  Through the refinement it is the core of
  `ExerciseProofs!PromptProgrammed`: when a `run.py` gives the user the prompt,
  each switch that serves holds its whole configuration, or had one that was not
  accepted and has no pipeline.  The invariant behind it, `PromptInv`, goes on after the
  prompt, while switches die and are stopped.
* `ExerciseProofs!Encoding`, for every number and width, and with it `EncodingHolds`.
  There is nothing to begin with about powers: `PowerDoubles` takes them from the number
  of subsets of a set.  `DecodeDigits`: the fold over the bytes is the number
  divided by the powers of 256 still to come, since that satisfies the equation of the
  fold and no second function does.
* `ExerciseProofs!DumpsTell`: by `LogInv`, the dump of a switch agrees with what
  the server has accepted but for the last request, while it is being programmed and after:
  request for request, a notice standing for any that is too long.
* `ExerciseProofs!NoImpostors`, `PortsAreOwn` and `CommandsReach`, from `PortsInv`: the
  j-th switch made has the j-th port of each counter and the j-th device number, and
  a port that is not the switch's when it has been found to listen was taken after the
  constructor had looked at it (`intruded`).  Other programs come and go as they like.  They need `OneClass`: the simple_switches of a
  network share one class, and with it the counter, which is so in the four `run.py` and
  in every exercise whose switches share a program; the run
  `exercise_own_programs` shows what happens otherwise.  The first and the last also need
  `PortsForAll`: not so many switches (40961) that thrift ports, from 9090 on, meet
  gRPC ports, from 50051 on.
* `ForwardingProofs!NetRuns`: `NetSpec => Spec`.  Hosts and frames read what `Exercise`
  does and change none of it, so its theorems hold in the composed system, where the run
  checks them.
* `ForwardingProofs!ArrivalsTell`, for every network, whatever its tables and
  topology, while switches die.  `TravelInv`: there are frames only from the prompt on, each
  is of one of three kinds, and tells its way so far.  By `PromptedIsProgrammed` a switch
  that still forwards holds just what its configuration calls for, so the dpid it
  writes is its own (`ForwarderIsProgrammed`); `Processed` says what the five programs
  may do to a frame, `MetricsOnTop` what the stack of records is after `push_front`, and
  `CrossingTells` puts the two together with the count of the way (`SinceGrows`).
* `ForwardingProofs!NothingStrays`: under `AllAddressed`, a host gets only what is for it and
  learns only true addresses.  `Addressed` asks things of each host and of each table by
  itself: no gateway is a host's address, hosts' addresses and ARP tables are true
  (`HostsAddressed`); a switch's table sends to a host's port only that host's address, and
  its default to none (`SwitchAddressed`); a route's next hop is no other host's address, and
  the host's at its port (`L3Addressed`); a router answers with owners' addresses
  (`RouterAddressed`).  It says nothing of the ways between, which may loop or end; what is
  proved is that these local conditions are enough, through ARP requests that wait, answers,
  routers and switches that die.  `StrayInv`: every address a frame carries, a host has
  learned or a datagram waits for is its owner's, and a frame at a host is the host's.
  `ProcessReaches` is the step at a switch, one lemma per program (`TableReaches`,
  `L3Reaches`, `RouterReaches`), and `FarIsHost` says that the last port is that host's.
  It is again `ForwarderIsProgrammed` that turns what is asked of the configurations into what
  is installed.
* `ForwardingProofs!NothingLoops`: under `AllTrees`, no frame comes back to where it has been.
  `Tree` asks for a depth of each switch, such that every link joins a deeper to a less deep
  one and no switch has two links up: a forest, of any size and shape.  Only the root of a
  tree may be a router.  Any other switch must not send up what has come from above: a bridge
  does not, since `Bridge` returns nothing to the port it came by; a switch of exact entries
  has to send each address that an entry of the one above sends to it by another
  port, and the one above has exact entries, too, and another port as its default
  (`LeadsDown`).  `WayInv`: the places a frame has
  been at rank below the one it is at, where `Rank` is less than zero by the depth on the way up
  and above zero by it on the way down; and what has come from above, goes on down (`Descends`).
  `RanksAbove` and `RanksBelow` are the two kinds of hop, `NeverTurns` says that a frame which
  goes up has not come from above, and `DescendsOn` carries this over a link.  That no pair of tables
  sends a frame to and fro cannot be left out: with an entry missing on a leaf
  (`FinishEarly`) its default action sends back up what came down.
* `ForwardingProofs!EveryWayEnds`: under `AllTrees`, too, a frame's way has at most two ports for
  each switch of the network and two more, `WaysAreShort`.  Bridged frames and probes have no
  TTL; that they stop is due to the ranks alone, of which there are no more than that
  (`HopsInv`: each hop takes at least one).  No run checks it by itself.
* `AppProofs!VerdictTells`: the exit status of `p4apprunner`.  `CommandsInv` says which
  hosts' commands have been reaped and which files are open at each point of the two
  loops, `VerdictInv` what must have succeeded for a phase to be reached.
* `AppProofs!PortsTold`, `PathsAreShortest` and `RoutesTold`, for every network.
  `HostsInv` says that the hosts are told nothing, or what the operators of
  `AppNetwork` make of the links; the rest is about these operators
  (`AppNetworkProofs`).  `PortsAreThose`: Mininet numbers ports in the order links are
  made, which is the order `apptopo.py` numbers them in, since both sort
  first.  `RecPathExists` and `RecPathUnfolds`: the recursion of
  `shortest_path.py` is over fewer and fewer nodes and so defines a function.
  `PathIsAsShort`: what it returns ends after as many links as there are layers of
  the graph between the two nodes.  `GatewaysAreKnown`: a gateway is in the host's ARP
  table, behind the interface of the link that the shortest path begins with, and
  `PathGoesOn` says that the rest of that path is as long as a path from there has to be.

The assumptions on constants are `TopologyAssumption` and `InitialRulesAssumption` of
`Fabric`, `MaxRecAssumption` (room for five records, as in `main.p4`), `LimiterAssumption`,
`ControllerAssumption`, `P4RuntimeAssumption` and `ExerciseAssumption` (the
configurations are sequences, and a setup names its switches once each, in the
order they are made and in the order they are programmed), `ForwardingAssumption`
(hosts have names; the network is `Wired`: its nodes have different names, a port has one link, a host is at a switch;
where hosts talk the switches run the five programs that are modelled), and `AppAssumption` (a
package's links are a network, and its commands are of hosts, which the links need not name).  TLC
evaluates each on the runs' instances.  `NothingStrays` has `AllAddressed` and `NothingLoops`
`AllTrees` as a hypothesis instead, for the code does not promise these of configurations in
general: they are facts about the files of the repository, which `MCExercise` assumes as
`RepositoryAssumption` so that TLC evaluates them on the four networks.

The lemmas on header stacks are at the beginning of `FabricProofs`: `parse` after `push`
after `emit` yields the stack again, three clears undo three pushes.

Where a proof calls for induction over data (on the length of a path, on what is left
to visit, on how many switches of the list come before one), the library's induction
theorems do not serve, since they take an operator.  The least number for which the
claim fails takes their place (`AppNetworkProofs!Least`, from `WFMin`); `RecPathExists`
shows in this way that there is a function as the recursion asks for.

Every safety invariant and action property that a passing run checks is proved.
Only model-checked is liveness: `UnicastArrives`, `BroadcastReachesAll`, `StateArrives`, `LoadingEnds`,
`DevicesSetUp`, `HostsLearned`, `ComesUp`, `Answered`, `AppEnds`, for TLAPS proves no
liveness under fairness.

## 6. What is not modelled, and why

* `ArpReplyComponent` is disabled in the source, so `arp_reply_table` stays empty.
* The checksum blocks of `main.p4` are empty; `checksum.hpp` and the checksum
  updates of `l3.p4` compute a function of one packet that no property depends on.
* The contents of a metric (times, queue lengths, CPU load) are only named by
  their switch, since no property but their origin depends on them.  The CPU
  extern behind one of them samples `/proc/stat` in a thread that may be started
  twice; nothing relies on there being one.
* The map of `MetricRecorder` is an unsynchronised `HashMap`: what two packet-in
  threads do to it is undefined in Java, and no line of the source promises that no
  record is lost.  The comparator of `RecordsQuery` never says "less"; what a sort
  does with it is the library's affair.
* Several ONOS nodes and mastership; the driver's error path, which only logs;
  registration of the pipeconf.
* In `core`: reading entries and counters, `ShutdownAllSwitchConnections`, the `main`
  of `simple_controller.py` (which calls `program_switch` without one of its
  arguments) and `read_register` are called by no script.  A package's own topology
  and controller modules are code of the package.  `mn -c`, which
  cleans up after the network is down, changes nothing the models speak of.
* Latencies, bandwidths, logging, CLI output, Mininet's shell, argument parsing,
  build files, drawing (`graph.py`).

* The text of a host's command, in which names become addresses
  (`multi_switch_mininet.py:171`): a function of one text.  The commands of `App` are what
  they do.

A switch may have its broadcast rule and no group: since `cleanUp` only sleeps between the
two, `discovery` floods a fabric whose groups go while rules are still on the switches; and
since a device may be set up before its interfaces are configured, `controller_reload` has
a device that is configured late.  `BroadcastReachesAll` speaks of floods for which every
switch keeps its rule and its group, and `DevicesSetUp` asks for the group of the devices that were
configured all along.
