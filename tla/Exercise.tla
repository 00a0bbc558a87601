------------------------------- MODULE Exercise -------------------------------
(***************************************************************************)
(* Bringing up a network of bmv2 switches: run_exercise.py of              *)
(* major-7sem/core, and the run.py of p4-cpu, l2, l3 and linear, which     *)
(* share its switch classes (p4_mininet.py, p4runtime_switch.py) and       *)
(* program the switches with simple_controller.                            *)
(*                                                                         *)
(* Mininet makes the switches one by one, starts them one by one, and      *)
(* waits for each; a bmv2 process binds its ports in its own time, or dies *)
(* trying.  What is modelled of Mininet and bmv2 is what the scripts use.  *)
(***************************************************************************)
EXTENDS P4Runtime

CONSTANTS
  Setups,    \* what may be run
  Timeout    \* how often a gRPC switch is looked for: 2 * SWITCH_START_TIMEOUT

\* The switches of a setup, as Mininet makes, starts and stops them and as they
\* are programmed.
IsOrder(seq) ==
  /\ seq \in Seq(Switch) /\ seq # <<>>
  /\ \A i, j \in DOMAIN seq : seq[i] = seq[j] => i = j

Elements(seq) == {seq[i] : i \in DOMAIN seq}

ASSUME ExerciseAssumption ==
  /\ \A z \in Setups :
       /\ IsOrder(z.made) /\ IsOrder(z.programs) /\ Elements(z.made) = Elements(z.programs)
       /\ z.conf \in [Switch -> DOMAIN Files]
  /\ Timeout \in Nat \ {0}

VARIABLES
  setup,      \* what is run, fixed
  occupied,   \* the ports that other programs listen on
  intruded,   \* those they have taken from a switch that had been given them
  phase,      \* of the script
  at,         \* the command or the switch it is at
  tries,      \* check_switch_started
  thriftPort, grpcPort, deviceId,   \* what each switch object was given
  process,    \* the bmv2 process of each switch
  cli,        \* the simple_switch_CLI launched for each switch
  commanded   \* the switches whose bmv2 got the commands of a CLI: <<for, at>>

runnerVars == <<phase, at, tries, thriftPort, grpcPort, deviceId>>
processVars == <<process, cli, commanded>>
otherVars == <<occupied, intruded>>
vars == <<clientVars, serving, serverVars, setup, otherVars, runnerVars, processVars>>

Phase == {"compile", "topology", "make", "start", "await", "hosts", "program", "cli", "stop", "ended", "failed"}
NoPort == 0
NamedS == {"s0", "s1", "s2", "s3", "s4"}
FirstThriftPort == 9090
FirstGrpcPort == 50051

\* The scripts named run.py use simple_switch_grpc, and only they compile.
IsRunner == setup.script # "exercise"
InNetwork == Elements(setup.made)
Current == setup.made[at]
Programmed == setup.programs[at]

Init ==
  /\ ClientInit /\ ServerInit
  /\ setup \in Setups /\ conf = setup.conf
  /\ occupied = setup.occupied /\ intruded = {}
  /\ phase = IF IsRunner THEN "compile" ELSE "topology"
  /\ at = 1 /\ tries = 0
  /\ thriftPort = [s \in Switch |-> NoPort]
  /\ grpcPort = [s \in Switch |-> NoPort]
  /\ deviceId = [s \in Switch |-> -1]
  /\ process = [s \in Switch |-> "none"]
  /\ cli = [s \in Switch |-> "none"]
  /\ commanded = {}

Fail == phase' = "failed"

\* On to the next of seq, and after the last one to the next phase.
Advance(seq, again, next) ==
  IF at < Len(seq) THEN at' = at + 1 /\ phase' = again
                   ELSE at' = 1 /\ phase' = next

\* mkdir, and p4c for every program, before anything else: each may fail.
Compile ==
  /\ phase = "compile"
  /\ \/ Fail /\ UNCHANGED at
     \/ Advance(setup.commands, "compile", "make")
  /\ UNCHANGED <<clientVars, serving, serverVars, setup, otherVars, tries,
                 thriftPort, grpcPort, deviceId, processVars>>

\* parse_links and parse_switch_node of an exercise's topology file: a host is
\* linked to a switch named s..., and a switch's end of a link has a port.
TopologyOk ==
  \A link \in setup.links :
    /\ \A h, t \in link : h # t /\ h[1] \in DOMAIN setup.hosts => t[1] \in NamedS
    /\ \A end \in link : end[1] \notin DOMAIN setup.hosts => end[2] # NoPort

ReadTopology ==
  /\ phase = "topology"
  /\ phase' = IF TopologyOk THEN "make" ELSE "failed"
  /\ UNCHANGED <<clientVars, serving, serverVars, setup, otherVars, at, tries,
                 thriftPort, grpcPort, deviceId, processVars>>

-----------------------------------------------------------------------------
(***************************************************************************)
(* Making the switch objects.  A gRPC switch takes its ports from counters *)
(* of P4RuntimeSwitch; a simple_switch takes its thrift port from a        *)
(* counter of the class that configureP4Switch made for it: one class for  *)
(* each switch with a program of its own, one for all the others.          *)
(***************************************************************************)
SameClass(s, r) == setup.grpc \/ (s \notin setup.own /\ r \notin setup.own)
Made == {setup.made[i] : i \in 1..(at - 1)}
NextThriftPortFixed(s) == FirstThriftPort   \* mutant: the counter is not counted up
NextThriftPort(s) ==
  FirstThriftPort + Cardinality({i \in 1..(at - 1) : SameClass(s, setup.made[i])})
NextGrpcPort == FirstGrpcPort + at - 1

\* Who listens on a port: others, or bmv2 processes of this network.
Listeners(port) ==
  {s \in Switch : process[s] = "serving" /\ port \in {thriftPort[s], grpcPort[s]}}
CheckListeningOnPort(port) == port \in occupied \/ Listeners(port) # {}

\* The port the constructor of a switch looks at: the gRPC port, if it has one.
CheckedPortThrift(s) == NextThriftPort(s)   \* mutant: the thrift port in any case
CheckedPort(s) == IF setup.grpc THEN NextGrpcPort ELSE NextThriftPort(s)

MakeSwitch ==
  /\ phase = "make"
  /\ LET s == Current IN
       /\ thriftPort' = [thriftPort EXCEPT ![s] = NextThriftPort(s)]
       /\ grpcPort' = [grpcPort EXCEPT ![s] = IF setup.grpc THEN NextGrpcPort ELSE NoPort]
       /\ IF CheckListeningOnPort(CheckedPort(s))
          THEN Fail /\ UNCHANGED <<at, deviceId>>
          ELSE /\ deviceId' = [deviceId EXCEPT ![s] = at - 1]
               /\ Advance(setup.made, "make", "start")
  /\ UNCHANGED <<clientVars, serving, serverVars, setup, otherVars, tries, processVars>>

-----------------------------------------------------------------------------
(***************************************************************************)
(* Starting them.                                                          *)
(***************************************************************************)
StartSwitch ==
  /\ phase = "start"
  /\ process' = [process EXCEPT ![Current] = "booting"]
  /\ phase' = "await" /\ tries' = 0
  /\ UNCHANGED <<clientVars, serving, serverVars, setup, otherVars, at, thriftPort, grpcPort, deviceId,
                 cli, commanded>>

\* bmv2 binds its ports and serves; it dies if it cannot have them.
PortsFree(s) ==
  \A p \in {thriftPort[s], grpcPort[s]} \ {NoPort} : ~CheckListeningOnPort(p)

Bind(s) ==
  /\ process[s] = "booting" /\ PortsFree(s)
  /\ process' = [process EXCEPT ![s] = "serving"]
  /\ serving' = IF setup.grpc THEN serving \cup {s} ELSE serving
  /\ UNCHANGED <<clientVars, serverVars, setup, otherVars, runnerVars, cli, commanded>>

Die(s) ==
  /\ \/ process[s] = "booting"
     \/ process[s] = "serving" /\ setup.mortal
  /\ process' = [process EXCEPT ![s] = "dead"]
  /\ ServerGone(s)
  /\ UNCHANGED <<clientVars, setup, otherVars, runnerVars, cli, commanded>>

\* check_switch_started asks whether the process is there and whether its port
\* is listened on, by whom it cannot know.  Only a gRPC switch is given up.
AwaitedPort == IF setup.grpc THEN grpcPort[Current] ELSE thriftPort[Current]

GoneUnseen == FALSE   \* mutant: the process is not looked at
Gone == process[Current] = "dead"

CheckSwitchStarted ==
  /\ phase = "await"
  /\ \/ /\ Gone
        /\ Fail /\ UNCHANGED <<at, tries>>
     \/ /\ ~Gone /\ CheckListeningOnPort(AwaitedPort)
        /\ Advance(setup.made, "start", "hosts")
        /\ UNCHANGED tries
     \/ /\ ~Gone /\ ~CheckListeningOnPort(AwaitedPort)
        /\ setup.grpc
        /\ IF tries < Timeout - 1 THEN tries' = tries + 1 /\ UNCHANGED phase
                                  ELSE Fail /\ UNCHANGED tries
        /\ UNCHANGED at
  /\ UNCHANGED <<clientVars, serving, serverVars, setup, otherVars, thriftPort, grpcPort, deviceId, processVars>>

-----------------------------------------------------------------------------
(***************************************************************************)
(* Programming them, the CLI, and stopping them.                           *)
(***************************************************************************)
Linked(h) == \E link \in setup.links : \E end \in link : end[1] = h

\* A host of an exercise that no link names is not in the network.
ProgramHosts ==
  /\ phase = "hosts"
  /\ phase' = IF IsRunner \/ \A h \in DOMAIN setup.hosts : Linked(h) THEN "program" ELSE "failed"
  /\ UNCHANGED <<clientVars, serving, serverVars, setup, otherVars, at, tries,
                 thriftPort, grpcPort, deviceId, processVars>>

\* An exercise launches a CLI for a switch and does not wait for it.  It raises
\* when it comes to a P4Runtime configuration: the name it calls is not imported.
ProgramExerciseSwitch ==
  /\ phase = "program" /\ ~IsRunner
  /\ cli' = IF Programmed \in setup.cliInput THEN [cli EXCEPT ![Programmed] = "running"] ELSE cli
  /\ IF Programmed \in setup.runtimeJson THEN Fail /\ UNCHANGED at
                                         ELSE Advance(setup.programs, "program", "cli")
  /\ UNCHANGED <<clientVars, serving, serverVars, setup, otherVars, tries, thriftPort, grpcPort, deviceId,
                 process, commanded>>

\* The CLI gives its commands to whoever listens on the thrift port.
RunCli(s) ==
  /\ cli[s] = "running"
  /\ cli' = [cli EXCEPT ![s] = "done"]
  /\ commanded' = commanded \cup {<<s, r>> : r \in Listeners(thriftPort[s])}
  /\ UNCHANGED <<clientVars, serving, serverVars, setup, otherVars, runnerVars, process>>

CallProgramSwitch ==
  /\ phase = "program" /\ IsRunner /\ busy = NoSwitch /\ outcome[Programmed] = "none"
  /\ Call(Programmed)
  /\ UNCHANGED <<serving, setup, otherVars, runnerVars, processVars>>

InProgramSwitch ==
  /\ phase = "program" /\ busy = Programmed
  /\ ProgramSwitch(Programmed)
  /\ UNCHANGED <<serving, setup, otherVars, runnerVars, processVars>>

\* program_switch has returned, or raised.
ProgramNext ==
  /\ phase = "program" /\ IsRunner /\ outcome[Programmed] # "none"
  /\ IF outcome[Programmed] = "raised" THEN Fail /\ UNCHANGED at
                                        ELSE Advance(setup.programs, "program", "cli")
  /\ UNCHANGED <<clientVars, serving, serverVars, setup, otherVars, tries, thriftPort, grpcPort, deviceId,
                 processVars>>

\* The user leaves Mininet's CLI.
LeaveCli ==
  /\ phase = "cli"
  /\ phase' = "stop"
  /\ UNCHANGED <<clientVars, serving, serverVars, setup, otherVars, at, tries,
                 thriftPort, grpcPort, deviceId, processVars>>

\* net.stop(): kill, and wait until the process is gone.
StopSwitch ==
  /\ phase = "stop"
  /\ process' = [process EXCEPT ![Current] = "dead"]
  /\ ServerGone(Current)
  /\ Advance(setup.made, "stop", "ended")
  /\ UNCHANGED <<clientVars, setup, otherVars, tries, thriftPort, grpcPort, deviceId, cli, commanded>>

-----------------------------------------------------------------------------
(***************************************************************************)
(* Other programs take ports and leave them at any time.  They speak       *)
(* neither P4Runtime nor Thrift: a request to one fails, or is never       *)
(* answered.                                                               *)
(***************************************************************************)
Occupy(port) ==
  /\ ~CheckListeningOnPort(port)
  /\ occupied' = occupied \cup {port}
  /\ intruded' = intruded \cup {p \in {port} : \E s \in Switch : p \in {thriftPort[s], grpcPort[s]}}
  /\ UNCHANGED <<clientVars, serving, serverVars, setup, runnerVars, processVars>>

Leave(port) ==
  /\ port \in occupied
  /\ occupied' = occupied \ {port}
  /\ UNCHANGED <<clientVars, serving, serverVars, setup, intruded, runnerVars, processVars>>

OtherPrograms == \E port \in setup.contested : Occupy(port) \/ Leave(port)

-----------------------------------------------------------------------------
Script ==
  \/ Compile \/ ReadTopology \/ MakeSwitch \/ StartSwitch \/ CheckSwitchStarted \/ ProgramHosts
  \/ ProgramExerciseSwitch \/ CallProgramSwitch \/ InProgramSwitch \/ ProgramNext
  \/ StopSwitch

Next ==
  \/ Script \/ LeaveCli \/ OtherPrograms
  \/ \E s \in Switch : Bind(s) \/ Die(s) \/ RunCli(s)

Spec == Init /\ [][Next]_vars

\* The client waits for an answer of whoever listens on the gRPC port; where nobody
\* does, the request fails.
HeldUp == \E s \in Switch : AwaitsAnswer(s) /\ CheckListeningOnPort(grpcPort[s])

\* The script goes on unless it waits for an answer.  Nothing makes a server answer,
\* a bmv2 process bind its ports or die, a CLI run, or another program leave a port.
Fairness == WF_vars(Script /\ ~HeldUp)

FairSpec == Spec /\ Fairness

-----------------------------------------------------------------------------
(***************************************************************************)
(* Properties.                                                             *)
(***************************************************************************)
\* Every variable keeps its type, and what holds a pipeline is a server.
TypeOK ==
  /\ busy \in Switch \cup {NoSwitch} /\ step \in Step /\ sent \in Nat
  /\ outcome \in [Switch -> Outcome]
  /\ stream \in [Switch -> {"none", "open", "closed"}]
  /\ serving \subseteq Switch /\ pipeline \subseteq serving
  /\ DOMAIN installed = Switch /\ DOMAIN dump = Switch
  /\ phase \in Phase /\ at \in Nat \ {0} /\ tries \in 0..Timeout
  /\ {thriftPort, grpcPort} \subseteq [Switch -> Nat]
  /\ deviceId \in [Switch -> Nat \cup {-1}]
  /\ process \in [Switch -> {"none", "booting", "serving", "dead"}]
  /\ cli \in [Switch -> {"none", "running", "done"}]
  /\ commanded \subseteq Switch \X Switch
  /\ occupied \subseteq setup.occupied \cup setup.contested /\ intruded \subseteq setup.contested

\* Numbers become bytes and bytes numbers at the edges of their range, for widths
\* around a whole number of bytes.  Stated of the states in which entries are
\* encoded.
EncodingIsFaithful ==
  phase = "program" =>
    \A w \in {1, 2, 7, 8, 9, 16, 17} :
      \A n \in {-(2^w), -(2^(w - 1)) - 1, -(2^(w - 1)), -1, 0, 1, 2^w - 1, 2^w, 2^w + 1} :
        EncodesFaithfully(n, w)

\* The ports and the device of a switch are nobody else's: configureP4Switch is
\* there "to ensure each switch's thrift server is using a unique port".
OwnPorts ==
  \A s, r \in Switch : s # r =>
    /\ thriftPort[s] # NoPort => thriftPort[s] # thriftPort[r]
    /\ grpcPort[s] # NoPort => grpcPort[s] # grpcPort[r]
    /\ deviceId[s] >= 0 => deviceId[s] # deviceId[r]

\* Once check_switch_started has taken a switch as started, the port it looked
\* at is no other switch's; and the switch has had it, unless another program has
\* taken it since the constructor found it free, for by whom it is listened on the
\* script cannot know.
Started == IF phase \in {"start", "await"} THEN Made
           ELSE IF phase \in {"hosts", "program", "cli"} THEN InNetwork ELSE {}
LookedAt(s) == IF setup.grpc THEN grpcPort[s] ELSE thriftPort[s]
NoImpostor ==
  \A s \in Started :
    /\ Listeners(LookedAt(s)) \subseteq {s}
    /\ LookedAt(s) \in occupied \/ process[s] = "booting" => LookedAt(s) \in intruded

\* What a CLI was given for a switch goes to that switch.
CommandsReachTheirSwitch == \A c \in commanded : c[1] = c[2]

\* The file of requests tells what a switch was sent: it has the requests of the
\* configuration in their order, whole or as notices; at most the last of them was
\* refused, and what the switch holds is among them.
RequestAt(s, i) == IF i = 1 THEN PipelineRequest ELSE WireOf(s, i - 1)
DumpTells ==
  \A s \in Switch :
    /\ \A i \in DOMAIN dump[s] : dump[s][i] = Message(RequestAt(s, i))
    /\ s \in serving =>
         /\ \A i \in DOMAIN dump[s] :
              1 < i /\ i < Len(dump[s]) => RequestAt(s, i).key \in Keys(s)
         /\ \A e \in installed[s] : \E i \in DOMAIN dump[s] : e = RequestAt(s, i)

\* A connection is open exactly while program_switch uses it.
NoOpenStreams == \A s \in Switch : stream[s] = "open" <=> busy = s

\* What the first k entries of a configuration amount to on a switch: of those
\* with the same key (default actions) the last one counts.
Effect(requests) ==
  {requests[i] : i \in {i \in DOMAIN requests :
                          \A j \in DOMAIN requests : j > i => requests[j].key # requests[i].key}}
Stages ==
  [n \in DOMAIN Files |->
     [k \in 1..(Len(Requests[n]) + 1) |-> Effect(SubSeq(Requests[n], 1, k - 1))]]
Stage(s, k) == Stages[conf[s]][k + 1]

\* program_switch brings a switch from one stage of its configuration to the
\* next, and returns normally only after the last or if it does not begin.
Deployed == INSTANCE Deployment WITH
  stages <- [s \in Switch |-> Stages[conf[s]]],
  loaded <- pipeline, contents <- installed,
  ready <- {s \in Switch : outcome[s] = "done"},
  lost <- {s \in Switch : process[s] = "dead"}

ProgramsByStages == Deployed!Spec

\* When the user gets the prompt, each switch still running holds what its
\* configuration calls for, if that was accepted at all.
PromptMeansProgrammed ==
  phase = "cli" /\ IsRunner =>
    \A s \in serving :
      IF conf[s] \in Accepted THEN installed[s] = Stage(s, Sends(s)) ELSE s \notin pipeline

\* The script comes to the prompt or fails, or one of the two waits without a
\* deadline holds it up: for an answer of whoever listens on a gRPC port, or for a
\* simple_switch that neither listens nor dies.  Nothing else does: no process that
\* is gone or late, no port of another program, no request that finds nobody.
AwaitsSimpleSwitch == phase = "await" /\ ~setup.grpc /\ process[Current] = "booting"
ComesUp == <>(phase \in {"cli", "failed"}) \/ []<>HeldUp \/ <>[]AwaitsSimpleSwitch
=============================================================================
