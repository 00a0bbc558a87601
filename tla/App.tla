---------------------------------- MODULE App ----------------------------------
(***************************************************************************)
(* Running a packaged application: p4apprunner.py of major-7sem/core       *)
(* compiles the program of a .p4app package and hands it to a backend;     *)
(* multi_switch_mininet.py makes the network of the manifest, runs the     *)
(* hosts' commands, stops them and returns their verdict, and              *)
(* single_switch_mininet.py gives the user the prompt of one switch.       *)
(*                                                                         *)
(* How each bmv2 process is waited for is Exercise's business; here the    *)
(* network starts as a whole, or the script exits.                         *)
(***************************************************************************)
EXTENDS AppNetwork

CONSTANTS Setups,   \* packages, the arguments and the way their commands behave
          None      \* an argument or an entry of the manifest that is not there

\* The commands are of hosts, which the links need not name.
ASSUME AppAssumption ==
  /\ None # 0
  /\ \A z \in Setups :
       /\ IsNetwork(z.config.links)
       /\ DOMAIN z.config.commands \subseteq {n \in Node : IsHost(n)}

VARIABLES
  setup,     \* what is run, fixed
  phase,     \* of the runner or of the script it has launched
  at,        \* the command the script is at
  compiled,  \* how the compiler ended
  script,    \* how the launched program ended
  net,       \* the Mininet network
  hosts,     \* what AppController told each host
  command,   \* the command of each host: its shell, the command itself, its code
  signals,   \* what the processes of a command were sent
  files,     \* the stdout files that are open
  codes,     \* return_codes: <<host, code>>
  exit       \* of the runner

runnerVars == <<phase, at, compiled, script, exit>>
commandVars == <<command, signals, files, codes>>
vars == <<setup, runnerVars, net, hosts, commandVars>>

Manifest == setup.manifest
Chosen ==
  IF setup.target # None THEN setup.target
  ELSE IF Manifest.default # None THEN Manifest.default
  ELSE Manifest.targets[1]
Conf == setup.config   \* of the chosen target
Backend == IF Conf.use # None THEN Conf.use ELSE Chosen

CommandOf(h) == Conf.commands[h]
Commanded == DOMAIN Conf.commands
Order == Sorted(Commanded)
Waits(h) == CommandOf(h).wait
HostProcs == Sorted({h \in Commanded : ~Waits(h)})

Init ==
  /\ setup \in Setups
  /\ phase = "manifest" /\ at = 1
  /\ compiled = "no" /\ script = "no" /\ exit = None
  /\ net = "none" /\ hosts = <<>>
  /\ command = [h \in Commanded |-> "none"]
  /\ signals = [h \in Commanded |-> {}]
  /\ files = {} /\ codes = {}

Exit(code) == exit' = code /\ phase' = "exited"

\* WEXITSTATUS of what os.system returns: 0 when a signal ended the command.
RunCommandIgnored(end) == 0   \* mutant: the status is lost
RunCommand(end) == IF end = "failed" THEN 1 ELSE 0

Ended == {"ok", "failed", "killed"}

-----------------------------------------------------------------------------
(***************************************************************************)
(* p4apprunner.py.                                                         *)
(***************************************************************************)
ReadManifest ==
  /\ phase = "manifest"
  /\ IF /\ {"program", "language", "targets"} \subseteq Manifest.has
        /\ Manifest.targets # <<>>
        /\ Chosen \in ToSet(Manifest.targets)
     THEN phase' = "before" /\ UNCHANGED exit
     ELSE Exit(1)
  /\ UNCHANGED <<setup, at, compiled, script, net, hosts, commandVars>>

\* run-before-compile is a list, the language is known, the flags are a list.
\* An unknown backend is found out before any of this.
Dispatch ==
  /\ phase = "before"
  /\ IF /\ Backend \in {"mininet", "multiswitch", "stf", "custom", "compile-bmv2"}
        /\ Conf.before # "other" /\ Manifest.language \in {"p4-14", "p4-16"}
        /\ Conf.flags # "other"
     THEN phase' = "compile" /\ UNCHANGED exit
     ELSE Exit(1)
  /\ UNCHANGED <<setup, at, compiled, script, net, hosts, commandVars>>

Compile ==
  /\ phase = "compile"
  /\ compiled' \in IF setup.killable THEN Ended ELSE Ended \ {"killed"}
  /\ phase' = "after"
  /\ UNCHANGED <<setup, at, script, exit, net, hosts, commandVars>>

\* run-after-compile comes before the compiler's verdict is looked at.
AfterCompile ==
  /\ phase = "after"
  /\ IF Conf.after = "other" \/ RunCommand(compiled) # 0 THEN Exit(1)
     ELSE IF Backend = "compile-bmv2" THEN Exit(0)
     ELSE /\ phase' = "launch" /\ UNCHANGED exit
  /\ UNCHANGED <<setup, at, compiled, script, net, hosts, commandVars>>

\* The backend's program: an STF test, the package's own program, or one of the
\* two Mininet scripts.
LaunchBackend ==
  /\ phase = "launch"
  /\ CASE Backend \in {"stf", "custom"} /\ ~Conf.program -> Exit(1)
       [] Backend \in {"stf", "custom"} /\ Conf.program -> phase' = "test" /\ UNCHANGED exit
       [] Backend = "mininet" -> phase' = "start" /\ UNCHANGED exit
       [] Backend = "multiswitch" -> phase' = "topology" /\ UNCHANGED exit
  /\ UNCHANGED <<setup, at, compiled, script, net, hosts, commandVars>>

ScriptEnds(end) == script' = end /\ phase' = "return"

RunTest ==
  /\ phase = "test"
  /\ \E end \in Ended \ {"killed"} : ScriptEnds(end)
  /\ UNCHANGED <<setup, at, compiled, exit, net, hosts, commandVars>>

\* Whatever program is running may be killed.
KillScript ==
  /\ setup.killable
  /\ phase \notin {"manifest", "before", "compile", "after", "launch", "return", "exited"}
  /\ ScriptEnds("killed")
  /\ UNCHANGED <<setup, at, compiled, exit, net, hosts, commandVars>>

Return ==
  /\ phase = "return"
  /\ Exit(RunCommand(script))
  /\ UNCHANGED <<setup, at, compiled, script, net, hosts, commandVars>>

-----------------------------------------------------------------------------
(***************************************************************************)
(* single_switch_mininet.py.                                               *)
(***************************************************************************)
\* Every switch starts, or the script exits and leaves those that did.
StartNet ==
  /\ phase = "start"
  /\ \/ /\ net' = "up"
        /\ phase' = IF Backend = "mininet" THEN "configure" ELSE "controller"
        /\ UNCHANGED script
     \/ net' \in {"none", "partly"} /\ ScriptEnds("failed")
  /\ UNCHANGED <<setup, at, compiled, exit, hosts, commandVars>>

\* The commands for the switch are text, and the pipe to the CLI takes bytes:
\* unless they are empty, communicate raises.  Without a file they are read
\* from the standard input, which is closed then.
ConfigureSwitch ==
  /\ phase = "configure"
  /\ hosts' = [h \in {<<"h", n>> : n \in 1..Conf.numHosts} |-> SingleHostConfig(h)]
  /\ \/ /\ Conf.switchConfig # "text"
        /\ phase' = "prompt" /\ UNCHANGED script
     \/ /\ Conf.switchConfig # "empty"
        /\ ScriptEnds("failed")
  /\ UNCHANGED <<setup, at, compiled, exit, net, commandVars>>

LeavePrompt ==
  /\ phase = "prompt"
  /\ \/ phase' = (IF Backend = "mininet" THEN "stop" ELSE "commands") /\ UNCHANGED script
     \/ /\ Backend = "mininet" /\ Conf.switchConfig = "none"
        /\ ScriptEnds("failed")
  /\ UNCHANGED <<setup, at, compiled, exit, net, hosts, commandVars>>

-----------------------------------------------------------------------------
(***************************************************************************)
(* multi_switch_mininet.py.                                                *)
(***************************************************************************)
MakeTopology ==
  /\ phase = "topology"
  /\ IF HostsAreLinkedToSwitches(Conf.links)
     THEN phase' = "start" /\ UNCHANGED script
     ELSE ScriptEnds("failed")
  /\ UNCHANGED <<setup, at, compiled, exit, net, hosts, commandVars>>

InNet == ToSet(HostNames(Conf.links))

\* What the controller tells the hosts of each network that may be run.
Tells ==
  [links \in {z.config.links : z \in {z \in Setups : HostsAreLinkedToSwitches(z.config.links)}} |->
     [h \in ToSet(HostNames(links)) |-> HostConfig(links, h)]]

\* The controller, if there is one, configures the hosts and then gives each
\* switch its entries, as text: the first switch that has any makes it raise.
StartController ==
  /\ phase = "controller"
  /\ hosts' = IF Conf.auto THEN Tells[Conf.links] ELSE hosts
  /\ IF Conf.auto /\ Conf.entries # {} THEN ScriptEnds("failed")
     ELSE phase' = (IF Conf.cli THEN "prompt" ELSE "commands") /\ UNCHANGED script
  /\ UNCHANGED <<setup, at, compiled, exit, net, commandVars>>

\* The commands are run host by host; one with "wait" is waited for.
AfterCommand ==
  IF at < Len(Order) THEN at' = at + 1 /\ phase' = "commands" ELSE at' = 1 /\ phase' = "interrupt"

\* Popen returns when there is a shell; a host that no link names is not in the
\* network, and the script fails, whatever runs by then.
Popen ==
  /\ phase = "commands" /\ Order # <<>>
  /\ LET h == Order[at] IN
       IF h \in InNet
       THEN /\ command' = [command EXCEPT ![h] = "shell"]
            /\ files' = files \cup {h}
            /\ IF Waits(h) THEN phase' = "wait" /\ UNCHANGED at ELSE AfterCommand
            /\ UNCHANGED script
       ELSE ScriptEnds("failed") /\ UNCHANGED <<at, command, files>>
  /\ UNCHANGED <<setup, compiled, exit, net, hosts, signals, codes>>

NoCommands ==
  /\ phase = "commands" /\ Order = <<>>
  /\ phase' = "interrupt"
  /\ UNCHANGED <<setup, at, compiled, script, exit, net, hosts, commandVars>>

\* The shell forks the command, or the command takes its place.
CommandBegins(h) ==
  /\ command[h] = "shell"
  /\ command' = [command EXCEPT ![h] = "running"]
  /\ UNCHANGED <<setup, runnerVars, net, hosts, signals, files, codes>>

\* A command ends by itself, or because of a signal it obeys.
CommandEnds(h) ==
  /\ command[h] = "running"
  /\ CommandOf(h).ends \/ signals[h] \cap CommandOf(h).obeys # {}
  /\ \E code \in {"zero", "other"} : command' = [command EXCEPT ![h] = code]
  /\ UNCHANGED <<setup, runnerVars, net, hosts, signals, files, codes>>

Reap(h) ==
  /\ command[h] \in {"zero", "other"}
  /\ codes' = codes \cup {<<h, command[h]>>}
  /\ files' = files \ {h}

WaitForExit ==
  /\ phase = "wait"
  /\ Reap(Order[at]) /\ AfterCommand
  /\ UNCHANGED <<setup, compiled, script, exit, net, hosts, command, signals>>

\* Then the others are stopped, one by one.  pkill -P signals the children of
\* the shell: a shell that has not forked yet has none, and a command that took
\* the shell's place is none.
Children(h) == command[h] = "running" /\ CommandOf(h).forked
Send(h, signal) ==
  signals' = IF Children(h) THEN [signals EXCEPT ![h] = @ \cup {signal}] ELSE signals

Interrupt ==
  /\ phase = "interrupt" /\ at <= Len(HostProcs)
  /\ Send(HostProcs[at], "INT")
  /\ phase' = "check"
  /\ UNCHANGED <<setup, at, compiled, script, exit, net, hosts, command, files, codes>>

StillRunningNever(h) == FALSE   \* mutant: TERM is never sent
StillRunning(h) == Children(h)

Check ==
  /\ phase = "check"
  /\ phase' = IF StillRunning(HostProcs[at]) THEN "terminate" ELSE "reap"
  /\ UNCHANGED <<setup, at, compiled, script, exit, net, hosts, commandVars>>

Terminate ==
  /\ phase = "terminate"
  /\ Send(HostProcs[at], "TERM")
  /\ phase' = "reap"
  /\ UNCHANGED <<setup, at, compiled, script, exit, net, hosts, command, files, codes>>

ReapStopped ==
  /\ phase = "reap"
  /\ Reap(HostProcs[at])
  /\ at' = at + 1 /\ phase' = "interrupt"
  /\ UNCHANGED <<setup, compiled, script, exit, net, hosts, command, signals>>

\* The commands of "after", whose results nobody looks at, and net.stop().
Stopping ==
  /\ phase = "interrupt" /\ at > Len(HostProcs)
  /\ phase' = "stop"
  /\ UNCHANGED <<setup, at, compiled, script, exit, net, hosts, commandVars>>

BadCodes == {c \in codes : c[2] # "zero"}

StopNet ==
  /\ phase = "stop"
  /\ net' = "down"
  /\ ScriptEnds(IF BadCodes # {} THEN "failed" ELSE "ok")
  /\ UNCHANGED <<setup, at, compiled, exit, hosts, commandVars>>

-----------------------------------------------------------------------------
Runner ==
  \/ ReadManifest \/ Dispatch \/ Compile \/ AfterCompile \/ LaunchBackend \/ RunTest \/ Return
  \/ StartNet \/ ConfigureSwitch \/ MakeTopology \/ StartController \/ Popen \/ NoCommands
  \/ WaitForExit \/ Interrupt \/ Check \/ Terminate \/ ReapStopped \/ Stopping \/ StopNet

Next ==
  \/ Runner \/ LeavePrompt \/ KillScript
  \/ \E h \in Commanded : CommandBegins(h) \/ CommandEnds(h)

Spec == Init /\ [][Next]_vars

\* The runner and its script go on, the user leaves the prompt, and commands
\* begin, and end if they can (each does once, so they all get to).
Fairness ==
  /\ WF_vars(Runner \/ LeavePrompt)
  /\ WF_vars(\E h \in Commanded : CommandBegins(h) \/ CommandEnds(h))
FairSpec == Spec /\ Fairness

-----------------------------------------------------------------------------
(***************************************************************************)
(* Properties.                                                             *)
(***************************************************************************)
\* The runner reports success only if the program compiled and what it then ran
\* succeeded: for a network, every command of every host was run, waited for
\* and returned 0, its output file is closed and the network is down.  (What a
\* signal ended is reported as a success.)
ExitTells ==
  exit = 0 /\ "killed" \notin {compiled, script} =>
    /\ compiled = "ok"
    /\ Backend # "compile-bmv2" => script = "ok"
    /\ Backend = "multiswitch" =>
         codes = Commanded \X {"zero"} /\ files = {} /\ net = "down"

\* The numbers in the topology object (_host_links, _sw_links), by which a
\* controller addresses a switch's ports, are those Mininet gives the ports.
PortsAgree ==
  phase = "controller" =>
    \A s \in ToSet(SwitchNames(Conf.links)) :
      \A n \in Nodes(Conf.links) :
        Linked(Conf.links, s, n) =>
          PortTo(Conf.links, s, n) = MininetPort(Conf.links, s, n)

\* A path is a way along the links from a to b, through no host, and none is
\* shorter; there is none only if there is no way.
PathIsShortest ==
  phase = "controller" =>
    \A a, b \in Nodes(Conf.links) :
      LET path == Path(Conf.links, a, b)
          layer == Layer(Conf.links, a)
      IN  IF b \notin layer[Cardinality(Nodes(Conf.links))] THEN path = NoPath
          ELSE /\ path[1] = a /\ Last(path) = b
               /\ \A i \in 1..(Len(path) - 1) : Linked(Conf.links, path[i], path[i + 1])
               /\ \A i \in 2..(Len(path) - 1) : ~IsHost(path[i])
               /\ Len(path) > 1 => b \notin layer[Len(path) - 2]

\* A host that was configured finds its gateways: each is the address of one it
\* has in its ARP table, the default one in its own network.  Between hosts with
\* a way, if the other has one link, there is a route to the address it has, whose
\* gateway is behind an interface that leads to a switch as near to the other as
\* the path wants it.
SwitchAt(h, idx) == Other(LinksOf(Conf.links, h)[idx + 1], h)
RoutesLead ==
  phase \in {"prompt", "commands"} => \A h \in DOMAIN hosts :
    /\ {hosts[h].default} \cup {r[2] : r \in hosts[h].routes} \subseteq {e[2] : e \in hosts[h].arp}
    /\ hosts[h].default[1] = hosts[h].ip[1]
    /\ Backend = "multiswitch" =>
         \A g \in InNet \ {h} :
           Len(LinksOf(Conf.links, g)) = 1 /\ Path(Conf.links, h, g) # NoPath =>
             \E r \in hosts[h].routes : \E e \in hosts[h].arp :
               /\ r[1] = hosts[g].ip /\ r[2] = e[2]
               /\ g \in Layer(Conf.links, SwitchAt(h, e[1]))[Len(Path(Conf.links, h, g)) - 2]

\* If each command ends by itself, or is to be a child of its shell, not waited
\* for, and obeys INT or TERM, then the runner exits: unless the script came to a
\* command whose shell had not forked yet, and then waits for one that no signal
\* it obeys has reached.
Stoppable(c) == c.ends \/ (c.forked /\ ~c.wait /\ c.obeys # {})
TooEarly ==
  phase = "interrupt" /\ at <= Len(HostProcs) /\ command[HostProcs[at]] = "shell"
WaitsForUnreached ==
  /\ phase = "reap" /\ command[HostProcs[at]] = "running"
  /\ signals[HostProcs[at]] \cap CommandOf(HostProcs[at]).obeys = {}
AppEnds ==
  (\A h \in Commanded : Stoppable(CommandOf(h))) =>
    \/ <>(exit # None)
    \/ <>TooEarly /\ <>[]WaitsForUnreached
=============================================================================
