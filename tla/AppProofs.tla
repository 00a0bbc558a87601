------------------------------- MODULE AppProofs -------------------------------
(***************************************************************************)
(* The verdict of p4apprunner.py on a packaged application, whatever its   *)
(* commands do, and what the controller works out of the network, for      *)
(* every package.                                                          *)
(***************************************************************************)
EXTENDS App, AppNetworkProofs

-----------------------------------------------------------------------------
(***************************************************************************)
(* The verdict.  It is told from return_codes and from the exit statuses   *)
(* of what was run: every command that was waited for at once has been     *)
(* reaped when the others are interrupted, the others are reaped one by    *)
(* one, and only then does the network go down.                            *)
(***************************************************************************)
Reaped == {c[1] : c \in codes}
Background == {h \in Commanded : ~Waits(h)}
Past(seq, k) == {seq[i] : i \in 1..(k - 1)}

Before == {"manifest", "before", "compile", "after", "launch", "test", "topology", "start",
           "configure", "controller", "prompt"}
Stopped == {"interrupt", "check", "terminate", "reap"}

\* Where the script is in its two loops, and what is open and reaped there.
CommandsInv ==
  /\ setup \in Setups
  /\ codes \subseteq Commanded \X {"zero", "other"}
  /\ DOMAIN command = Commanded
  /\ phase \in Before => codes = {} /\ files = {} /\ at = 1
  /\ phase = "commands" =>
       /\ at \in 1..Len(Order) \/ (at = 1 /\ Order = <<>>)
       /\ Reaped = Past(Order, at) \ Background
       /\ files = Past(Order, at) \cap Background
  /\ phase = "wait" =>
       /\ at \in 1..Len(Order) /\ Order[at] \notin Background
       /\ Reaped = Past(Order, at) \ Background
       /\ files = (Past(Order, at) \cap Background) \cup {Order[at]}
  /\ phase \in Stopped =>
       /\ at \in 1..(Len(HostProcs) + 1) /\ (phase # "interrupt" => at <= Len(HostProcs))
       /\ Reaped = (Commanded \ Background) \cup Past(HostProcs, at)
       /\ files = Background \ Past(HostProcs, at)
  /\ phase = "stop" /\ Backend # "mininet" => Reaped = Commanded /\ files = {}

\* What has succeeded when a phase is reached.
VerdictInv ==
  /\ compiled \in {"no"} \cup Ended /\ script \in {"no"} \cup Ended
  /\ phase \in {"compile", "after"} =>
       Backend \in {"mininet", "multiswitch", "stf", "custom", "compile-bmv2"}
  /\ phase = "after" => compiled \in Ended
  /\ phase = "launch" => Backend \in {"mininet", "multiswitch", "stf", "custom"}
  /\ phase \notin {"manifest", "before", "compile", "after", "exited"} => compiled \in {"ok", "killed"}
  /\ phase \notin {"return", "exited"} => script = "no"
  /\ phase = "return" => script # "no"
  /\ phase = "test" => Backend \in {"stf", "custom"}
  /\ script = "ok" /\ Backend = "multiswitch" =>
       codes = Commanded \X {"zero"} /\ files = {} /\ net = "down"
  /\ exit = 0 =>
       /\ phase = "exited" /\ compiled \in {"ok", "killed"}
       /\ Backend = "compile-bmv2" \/ script \in {"ok", "killed"}

AppInv == CommandsInv /\ VerdictInv

LEMMA InitApp == Init => AppInv
<1> SUFFICES ASSUME Init PROVE AppInv
  OBVIOUS
<1>1. CommandsInv
  BY DEF Init, CommandsInv, Before, Stopped
<1>2. VerdictInv
  BY AppAssumption DEF Init, VerdictInv
<1>3. QED
  BY <1>1, <1>2 DEF AppInv

LEMMA SortedListsAll ==
  ASSUME NEW S, S \subseteq Hosts
  PROVE  Len(Sorted(S)) \in Nat /\ {Sorted(S)[i] : i \in 1..Len(Sorted(S))} = S
<1>1. Sorted(S) \in Seq(S) /\ ToSet(Sorted(S)) = S
  BY SortedLists
<1>2. DOMAIN Sorted(S) = 1..Len(Sorted(S)) /\ Len(Sorted(S)) \in Nat
  BY <1>1
<1>3. QED
  BY <1>1, <1>2 DEF ToSet

\* The two lists the script goes through are of all the commands, and of those
\* in the background.
LEMMA ListsAreWhole ==
  ASSUME setup \in Setups
  PROVE  /\ Len(Order) \in Nat /\ Past(Order, Len(Order) + 1) = Commanded
         /\ Len(HostProcs) \in Nat /\ Past(HostProcs, Len(HostProcs) + 1) = Background
         /\ Background \subseteq Commanded
         /\ \A i \in 1..Len(Order) : Order[i] \in Commanded
         /\ \A i \in 1..Len(HostProcs) : HostProcs[i] \in Background
<1>1. Commanded \subseteq Hosts /\ Background \subseteq Hosts
  BY AppAssumption DEF Commanded, Conf, Background, Hosts
<1>2. Len(Order) \in Nat /\ {Order[i] : i \in 1..Len(Order)} = Commanded
  BY <1>1, SortedListsAll DEF Order
<1>3. Len(HostProcs) \in Nat /\ {HostProcs[i] : i \in 1..Len(HostProcs)} = Background
  BY <1>1, SortedListsAll DEF HostProcs, Background
<1>4. Past(Order, Len(Order) + 1) = Commanded /\ Past(HostProcs, Len(HostProcs) + 1) = Background
  <2>1. (Len(Order) + 1) - 1 = Len(Order) /\ (Len(HostProcs) + 1) - 1 = Len(HostProcs)
    BY <1>2, <1>3
  <2>2. QED
    BY <1>2, <1>3, <2>1 DEF Past
<1>5. QED
  BY <1>2, <1>3, <1>4 DEF Background

LEMMA PastOneMore ==
  ASSUME NEW seq, NEW k \in Nat \ {0}
  PROVE  Past(seq, k + 1) = Past(seq, k) \cup {seq[k]} /\ Past(seq, 1) = {}
<1>1. 1..((k + 1) - 1) = (1..(k - 1)) \cup {k} /\ 1..(1 - 1) = {}
  OBVIOUS
<1>2. QED
  BY <1>1 DEF Past

LEMMA EmptyOrder == ASSUME setup \in Setups, Len(Order) = 0 PROVE Order = <<>>
<1>1. Commanded \subseteq Hosts
  BY AppAssumption DEF Commanded, Conf, Hosts
<1>2. Order \in Seq(Commanded)
  BY <1>1, SortedLists DEF Order
<1>3. QED
  BY <1>2

\* The next command, or the next phase.
LEMMA AfterCommandInv ==
  ASSUME setup \in Setups, UNCHANGED setup, at \in 1..Len(Order), AfterCommand,
         codes' \subseteq Commanded \X {"zero", "other"}, DOMAIN command' = Commanded,
         Reaped' = Past(Order, at + 1) \ Background,
         files' = Past(Order, at + 1) \cap Background
  PROVE  CommandsInv'
<1>0. /\ Len(Order) \in Nat /\ Past(Order, Len(Order) + 1) = Commanded
      /\ Len(HostProcs) \in Nat /\ Background \subseteq Commanded
      /\ Past(HostProcs, 1) = {}
  BY ListsAreWhole, PastOneMore
<1>1. UNCHANGED <<Commanded, Background, Order, HostProcs, Backend>>
  BY DEF Commanded, Background, Order, HostProcs, Backend, Conf, Waits, CommandOf, Chosen, Manifest
<1>2. CASE at < Len(Order)
  <2>1. at' = at + 1 /\ phase' = "commands"
    BY <1>2 DEF AfterCommand
  <2>2. QED
    BY <1>0, <1>1, <1>2, <2>1 DEF CommandsInv, Before, Stopped, Past
<1>3. CASE ~(at < Len(Order))
  <2>1. at' = 1 /\ phase' = "interrupt" /\ at = Len(Order)
    BY <1>0, <1>3 DEF AfterCommand
  <2>2. Reaped' = Commanded \ Background /\ files' = Background
    BY <1>0, <2>1
  <2>3. QED
    BY <1>0, <1>1, <2>1, <2>2 DEF CommandsInv, Before, Stopped, Past
<1>4. QED
  BY <1>2, <1>3

LEMMA ReapInv ==
  ASSUME codes \subseteq Commanded \X {"zero", "other"}, NEW h \in Commanded, Reap(h)
  PROVE  /\ codes' \subseteq Commanded \X {"zero", "other"}
         /\ Reaped' = Reaped \cup {h} /\ files' = files \ {h}
<1>1. codes' = codes \cup {<<h, command[h]>>} /\ command[h] \in {"zero", "other"} /\ files' = files \ {h}
  BY DEF Reap
<1> DEFINE last == <<h, command[h]>>
<1>2. last[1] = h /\ codes' = codes \cup {last}
  BY <1>1
<1> HIDE DEF last
<1>3. Reaped' = Reaped \cup {h}
  BY <1>2 DEF Reaped
<1>4. QED
  BY <1>1, <1>3

LEMMA StepCommands == AppInv /\ [Next]_vars => CommandsInv'
<1> SUFFICES ASSUME CommandsInv, VerdictInv, [Next]_vars PROVE CommandsInv'
  BY DEF AppInv
<1>0. /\ setup \in Setups /\ UNCHANGED setup
      /\ codes \subseteq Commanded \X {"zero", "other"} /\ DOMAIN command = Commanded
  BY DEF CommandsInv, Next, Runner, ReadManifest, Dispatch, Compile, AfterCompile, LaunchBackend,
         RunTest, Return, StartNet, ConfigureSwitch, MakeTopology, StartController, Popen, NoCommands,
         WaitForExit, Interrupt, Check, Terminate, ReapStopped, Stopping, StopNet, LeavePrompt,
         KillScript, CommandBegins, CommandEnds, vars
<1>1. UNCHANGED <<Commanded, Background, Order, HostProcs, Backend>>
  BY <1>0 DEF Commanded, Background, Order, HostProcs, Backend, Conf, Waits, CommandOf, Chosen, Manifest
<1>2. /\ Len(Order) \in Nat /\ Past(Order, Len(Order) + 1) = Commanded
      /\ Len(HostProcs) \in Nat /\ Past(HostProcs, Len(HostProcs) + 1) = Background
      /\ Background \subseteq Commanded
      /\ \A i \in 1..Len(Order) : Order[i] \in Commanded
      /\ \A i \in 1..Len(HostProcs) : HostProcs[i] \in Background
  BY <1>0, ListsAreWhole
<1>3. \A k : UNCHANGED <<Past(Order, k), Past(HostProcs, k)>>
  BY <1>1 DEF Past
<1> DEFINE Same == UNCHANGED <<phase, at, codes, files>> /\ DOMAIN command' = DOMAIN command
           Early == /\ phase \in Before /\ UNCHANGED <<at, commandVars>>
                    /\ phase' \in Before \cup {"return", "exited"}
           Over == phase' \in {"return", "exited"} /\ UNCHANGED <<at, commandVars>>
<1>4. Same => CommandsInv'
  BY <1>0, <1>1, <1>3 DEF CommandsInv, Reaped
<1>5. Early => CommandsInv'
  BY <1>0, <1>1 DEF CommandsInv, Before, Stopped, commandVars
<1>6. Over => CommandsInv'
  BY <1>0, <1>1 DEF CommandsInv, Before, Stopped, commandVars
<1>7. ReadManifest \/ Dispatch \/ Compile \/ AfterCompile \/ LaunchBackend => Early
  <2>1. LaunchBackend => Early
    BY DEF LaunchBackend, VerdictInv, Exit, Before
  <2>2. QED
    BY <2>1 DEF ReadManifest, Dispatch, Compile, AfterCompile, Exit, Before
<1>8. RunTest \/ StartNet \/ ConfigureSwitch \/ MakeTopology => Early
  BY DEF RunTest, StartNet, ConfigureSwitch, MakeTopology, ScriptEnds, Before
<1>9. Return \/ KillScript \/ StopNet => Over
  BY DEF Return, KillScript, StopNet, Exit, ScriptEnds
\* The loop over the commands begins.
<1>10. ASSUME phase \in Before, phase' = "commands", UNCHANGED <<at, commandVars>> PROVE CommandsInv'
  <2>1. at = 1 /\ codes = {} /\ files = {} /\ Past(Order, 1) = {}
    <3>1. Past(Order, 1) = {}
      <4>1. 1 \in Nat \ {0}
        OBVIOUS
      <4>2. QED
        BY <4>1, PastOneMore
    <3>2. at = 1 /\ codes = {} /\ files = {}
      BY <1>10, Zenon DEF CommandsInv
    <3>3. QED
      BY <3>1, <3>2
  <2>2. at \in 1..Len(Order) \/ Order = <<>>
    <3>1. CASE Len(Order) = 0
      BY <1>0, <3>1, EmptyOrder
    <3>2. CASE Len(Order) # 0
      BY <1>2, <2>1, <3>2
    <3>3. QED
      BY <3>1, <3>2
  <2>3. QED
    BY <1>0, <1>1, <1>3, <1>10, <2>1, <2>2 DEF CommandsInv, Before, Stopped, commandVars, Reaped
<1>11. StartController => CommandsInv'
  <2> SUFFICES ASSUME StartController PROVE CommandsInv'
    OBVIOUS
  <2>1. phase \in Before /\ UNCHANGED <<at, commandVars>>
        /\ phase' \in {"return", "prompt", "commands"}
    BY DEF StartController, ScriptEnds, Before
  <2>2. CASE phase' = "commands"
    BY <1>10, <2>1, <2>2
  <2>3. CASE phase' # "commands"
    BY <1>5, <2>1, <2>3 DEF Before
  <2>4. QED
    BY <2>2, <2>3
<1>12. LeavePrompt => CommandsInv'
  <2> SUFFICES ASSUME LeavePrompt PROVE CommandsInv'
    OBVIOUS
  <2>1. phase \in Before /\ UNCHANGED <<at, commandVars>>
        /\ phase' \in {"return", "stop", "commands"} /\ (phase' = "stop" => Backend = "mininet")
    BY DEF LeavePrompt, ScriptEnds, Before
  <2>2. CASE phase' = "commands"
    BY <1>10, <2>1, <2>2
  <2>3. CASE phase' = "return"
    BY <1>6, <2>1, <2>3
  <2>4. CASE phase' = "stop"
    BY <1>0, <1>1, <2>1, <2>4 DEF CommandsInv, Before, Stopped, commandVars
  <2>5. QED
    BY <2>1, <2>2, <2>3, <2>4
<1>13. ASSUME Popen, Order[at] \notin InNet PROVE Over
  BY <1>13 DEF Popen, ScriptEnds, commandVars
<1>14. ASSUME Popen, Order[at] \in InNet PROVE CommandsInv'
  <2> USE <1>14
  <2>1. /\ at \in 1..Len(Order) /\ at \in Nat \ {0} /\ Order[at] \in Commanded
        /\ Reaped = Past(Order, at) \ Background /\ files = Past(Order, at) \cap Background
    BY <1>2 DEF Popen, CommandsInv
  <2>2. Past(Order, at + 1) = Past(Order, at) \cup {Order[at]}
    BY <2>1, PastOneMore
  <2>3. /\ files' = files \cup {Order[at]} /\ UNCHANGED codes /\ DOMAIN command' = Commanded
        /\ Reaped' = Reaped
    BY <1>0 DEF Popen, Reaped
  <2>4. CASE Waits(Order[at])
    <3>1. phase' = "wait" /\ UNCHANGED at /\ Order[at] \notin Background
      BY <2>4 DEF Popen, Background
    <3>2. files' = (Past(Order, at) \cap Background) \cup {Order[at]}
      BY <2>1, <2>3
    <3>3. QED
      BY <1>0, <1>1, <1>3, <2>1, <2>3, <3>1, <3>2 DEF CommandsInv, Before, Stopped
  <2>5. CASE ~Waits(Order[at])
    <3>1. AfterCommand /\ Order[at] \in Background
      BY <2>1, <2>5 DEF Popen, Background
    <3>2. Reaped' = Past(Order, at + 1) \ Background /\ files' = Past(Order, at + 1) \cap Background
      BY <2>1, <2>2, <2>3, <3>1
    <3>3. QED
      BY <1>0, <2>1, <2>3, <3>1, <3>2, AfterCommandInv
  <2>6. QED
    BY <2>4, <2>5
<1>15. NoCommands => CommandsInv'
  <2> SUFFICES ASSUME NoCommands PROVE CommandsInv'
    OBVIOUS
  <2>1. phase = "commands" /\ Order = <<>> /\ phase' = "interrupt" /\ UNCHANGED <<at, commandVars>>
    BY DEF NoCommands
  <2>2. at = 1 /\ Commanded = {} /\ Background = {} /\ Past(Order, 1) = {} /\ Past(HostProcs, 1) = {}
    BY <1>2, <2>1, PastOneMore DEF CommandsInv
  <2>3. QED
    BY <1>0, <1>1, <1>2, <1>3, <2>1, <2>2 DEF CommandsInv, Before, Stopped, commandVars, Reaped
<1>16. WaitForExit => CommandsInv'
  <2> SUFFICES ASSUME WaitForExit PROVE CommandsInv'
    OBVIOUS
  <2>1. /\ at \in 1..Len(Order) /\ at \in Nat \ {0} /\ Order[at] \in Commanded \ Background
        /\ Reaped = Past(Order, at) \ Background
        /\ files = (Past(Order, at) \cap Background) \cup {Order[at]}
    BY <1>2 DEF WaitForExit, CommandsInv
  <2>2. Past(Order, at + 1) = Past(Order, at) \cup {Order[at]}
    BY <2>1, PastOneMore
  <2>3. /\ codes' \subseteq Commanded \X {"zero", "other"}
        /\ Reaped' = Reaped \cup {Order[at]} /\ files' = files \ {Order[at]}
    BY <1>0, <2>1, ReapInv DEF WaitForExit
  <2>4. AfterCommand /\ DOMAIN command' = Commanded
    BY <1>0 DEF WaitForExit
  <2>5. Reaped' = Past(Order, at + 1) \ Background /\ files' = Past(Order, at + 1) \cap Background
    BY <2>1, <2>2, <2>3
  <2>6. QED
    BY <1>0, <2>1, <2>3, <2>4, <2>5, AfterCommandInv
<1>17. Interrupt \/ Check \/ Terminate => CommandsInv'
  <2> SUFFICES ASSUME Interrupt \/ Check \/ Terminate PROVE CommandsInv'
    OBVIOUS
  <2>1. /\ phase \in Stopped /\ phase' \in Stopped \ {"interrupt"} /\ at <= Len(HostProcs)
        /\ UNCHANGED <<at, codes, files, command>>
    BY DEF Interrupt, Check, Terminate, Stopped, commandVars, CommandsInv
  <2>2. QED
    BY <1>0, <1>1, <1>2, <1>3, <2>1 DEF CommandsInv, Before, Stopped, Reaped
<1>18. ReapStopped => CommandsInv'
  <2> SUFFICES ASSUME ReapStopped PROVE CommandsInv'
    OBVIOUS
  <2>1. /\ at \in 1..Len(HostProcs) /\ at \in Nat \ {0} /\ HostProcs[at] \in Background
        /\ Reaped = (Commanded \ Background) \cup Past(HostProcs, at)
        /\ files = Background \ Past(HostProcs, at)
    BY <1>2 DEF ReapStopped, CommandsInv, Stopped
  <2>2. Past(HostProcs, at + 1) = Past(HostProcs, at) \cup {HostProcs[at]}
    BY <2>1, PastOneMore
  <2>3. /\ codes' \subseteq Commanded \X {"zero", "other"}
        /\ Reaped' = Reaped \cup {HostProcs[at]} /\ files' = files \ {HostProcs[at]}
    BY <1>0, <1>2, <2>1, ReapInv DEF ReapStopped
  <2>4. at' = at + 1 /\ phase' = "interrupt" /\ DOMAIN command' = Commanded
    BY <1>0 DEF ReapStopped
  <2>5. /\ Reaped' = (Commanded \ Background) \cup Past(HostProcs, at + 1)
        /\ files' = Background \ Past(HostProcs, at + 1)
    BY <2>1, <2>2, <2>3
  <2>6. at + 1 \in 1..(Len(HostProcs) + 1)
    BY <1>2, <2>1
  <2>7. QED
    BY <1>0, <1>1, <1>3, <2>3, <2>4, <2>5, <2>6 DEF CommandsInv, Before, Stopped, Past
<1>19. Stopping => CommandsInv'
  <2> SUFFICES ASSUME Stopping PROVE CommandsInv'
    OBVIOUS
  <2>1. /\ phase' = "stop" /\ UNCHANGED <<codes, files, command>>
        /\ at \in 1..(Len(HostProcs) + 1) /\ at > Len(HostProcs)
        /\ Reaped = (Commanded \ Background) \cup Past(HostProcs, at)
        /\ files = Background \ Past(HostProcs, at)
    BY DEF Stopping, CommandsInv, Stopped, commandVars
  <2>2. at = Len(HostProcs) + 1
    BY <1>2, <2>1
  <2>3. Reaped = Commanded /\ files = {}
    BY <1>2, <2>1, <2>2
  <2>4. QED
    BY <1>0, <1>1, <2>1, <2>3 DEF CommandsInv, Before, Stopped, Reaped
<1>20. ASSUME NEW h \in Commanded, CommandBegins(h) \/ CommandEnds(h) PROVE Same
  BY <1>20 DEF CommandBegins, CommandEnds, runnerVars
<1>21. UNCHANGED vars => Same
  BY DEF vars, runnerVars, commandVars
<1> HIDE DEF Same, Early, Over
<1>22. QED
  BY <1>4, <1>5, <1>6, <1>7, <1>8, <1>9, <1>11, <1>12, <1>13, <1>14, <1>15, <1>16, <1>17, <1>18, <1>19,
     <1>20, <1>21 DEF Next, Runner

LEMMA StepVerdict == AppInv /\ [Next]_vars => VerdictInv'
<1> SUFFICES ASSUME CommandsInv, VerdictInv, [Next]_vars PROVE VerdictInv'
  BY DEF AppInv
<1>0. setup \in Setups /\ UNCHANGED setup /\ codes \subseteq Commanded \X {"zero", "other"}
  BY DEF CommandsInv, Next, Runner, ReadManifest, Dispatch, Compile, AfterCompile, LaunchBackend,
         RunTest, Return, StartNet, ConfigureSwitch, MakeTopology, StartController, Popen, NoCommands,
         WaitForExit, Interrupt, Check, Terminate, ReapStopped, Stopping, StopNet, LeavePrompt,
         KillScript, CommandBegins, CommandEnds, vars
<1>1. UNCHANGED <<Commanded, Backend>>
  BY <1>0 DEF Commanded, Backend, Conf, Chosen, Manifest
<1> DEFINE Same == UNCHANGED <<phase, compiled, script, net, exit, codes, files>>
           Loops == /\ phase \in {"commands", "wait"} \cup Stopped
                    /\ phase' \in {"commands", "wait", "stop"} \cup Stopped
                    /\ UNCHANGED <<compiled, script, exit>>
<1>2. Same => VerdictInv'
  BY <1>1 DEF VerdictInv
\* Where nothing has ended yet, nothing is claimed of it.
<1>3. Loops => VerdictInv'
  BY <1>1 DEF VerdictInv, Stopped
<1> USE <1>1 DEF VerdictInv, commandVars
<1>4. ReadManifest => VerdictInv'
  BY AppAssumption DEF ReadManifest, Exit
<1>5. Dispatch => VerdictInv'
  BY DEF Dispatch, Exit
<1>6. Compile => VerdictInv'
  BY DEF Compile, Ended
<1>7. AfterCompile => VerdictInv'
  <2> SUFFICES ASSUME AfterCompile PROVE VerdictInv'
    OBVIOUS
  <2>1. compiled \in {"no"} \cup Ended /\ script = "no" /\ exit # 0
    BY DEF AfterCompile
  <2>2. phase' \in {"exited", "launch"} /\ UNCHANGED <<compiled, script, net, codes, files>>
    BY DEF AfterCompile, Exit
  <2>3. CASE RunCommand(compiled) # 0 \/ Conf.after = "other"
    BY <2>1, <2>2, <2>3 DEF AfterCompile, Exit
  <2>4. CASE RunCommand(compiled) = 0 /\ Conf.after # "other"
    <3>1. compiled \in {"ok", "killed"}
      BY <2>4 DEF AfterCompile, RunCommand, Ended
    <3>2. CASE Backend = "compile-bmv2"
      <4>1. phase' = "exited" /\ exit' = 0
        BY <2>4, <3>2 DEF AfterCompile, Exit
      <4>2. QED
        BY <2>1, <2>2, <3>1, <3>2, <4>1
    <3>3. CASE Backend # "compile-bmv2"
      <4>1. phase' = "launch" /\ exit' = exit
        BY <2>4, <3>3 DEF AfterCompile, Exit
      <4>2. Backend \in {"mininet", "multiswitch", "stf", "custom"}
        BY <3>3 DEF AfterCompile
      <4>3. QED
        BY <2>1, <2>2, <3>1, <4>1, <4>2
    <3>4. QED
      BY <3>2, <3>3
  <2>5. QED
    BY <2>3, <2>4
<1>8. LaunchBackend => VerdictInv'
  <2> SUFFICES ASSUME LaunchBackend PROVE VerdictInv'
    OBVIOUS
  <2>1. /\ phase = "launch" /\ script = "no" /\ exit # 0 /\ compiled \in {"ok", "killed"}
        /\ UNCHANGED <<compiled, script, net, codes, files>>
    BY DEF LaunchBackend
  <2>2. CASE Backend \in {"stf", "custom"}
    <3>1. (phase' = "exited" /\ exit' = 1) \/ (phase' = "test" /\ exit' = exit)
      BY <2>2 DEF LaunchBackend, Exit
    <3>2. QED
      BY <2>1, <2>2, <3>1 DEF Ended
  <2>3. CASE Backend \in {"mininet", "multiswitch"}
    <3>1. phase' \in {"start", "topology"} /\ exit' = exit
      BY <2>3 DEF LaunchBackend
    <3>2. QED
      BY <2>1, <3>1 DEF Ended
  <2>4. QED
    BY <2>1, <2>2, <2>3
<1>9. RunTest => VerdictInv'
  BY DEF RunTest, ScriptEnds, Ended
<1>10. KillScript => VerdictInv'
  BY DEF KillScript, ScriptEnds, Ended
<1>11. Return => VerdictInv'
  BY DEF Return, Exit, RunCommand, Ended
<1>12. StartNet \/ ConfigureSwitch \/ LeavePrompt \/ MakeTopology \/ StartController => VerdictInv'
  BY DEF StartNet, ConfigureSwitch, LeavePrompt, MakeTopology, StartController, ScriptEnds, Ended
<1>13. Popen => Loops \/ VerdictInv'
  <2> SUFFICES ASSUME Popen PROVE Loops \/ VerdictInv'
    OBVIOUS
  <2>1. CASE Order[at] \in InNet
    BY <2>1 DEF Popen, AfterCommand, Stopped
  <2>2. CASE Order[at] \notin InNet
    <3>1. /\ phase = "commands" /\ phase' = "return" /\ script' = "failed"
          /\ UNCHANGED <<compiled, exit>>
      BY <2>2 DEF Popen, ScriptEnds
    <3>2. VerdictInv'
      BY <3>1 DEF Ended
    <3>3. QED
      BY <3>2
  <2>3. QED
    BY <2>1, <2>2
<1>14. NoCommands \/ WaitForExit => Loops
  BY DEF NoCommands, WaitForExit, AfterCommand, Stopped, runnerVars
<1>15. Interrupt \/ Check \/ Terminate \/ ReapStopped \/ Stopping => Loops
  BY DEF Interrupt, Check, Terminate, ReapStopped, Stopping, Stopped
<1>16. StopNet => VerdictInv'
  <2> SUFFICES ASSUME StopNet PROVE VerdictInv'
    OBVIOUS
  <2>1. /\ phase = "stop" /\ phase' = "return" /\ net' = "down"
        /\ script' = (IF BadCodes # {} THEN "failed" ELSE "ok")
        /\ UNCHANGED <<compiled, exit, codes, files>>
    BY DEF StopNet, ScriptEnds
  <2>2. ASSUME BadCodes = {}, Backend = "multiswitch"
        PROVE  codes = Commanded \X {"zero"} /\ files = {}
    <3>1. Reaped = Commanded /\ files = {}
      BY <2>1, <2>2 DEF CommandsInv
    <3>2. \A c \in codes : c[2] = "zero"
      BY <2>2 DEF BadCodes
    <3>3. codes \subseteq Commanded \X {"zero"}
      BY <1>0, <3>2
    <3>4. ASSUME NEW h \in Commanded PROVE <<h, "zero">> \in codes
      <4>1. PICK c \in codes : c[1] = h
        BY <3>1 DEF Reaped
      <4>2. c = <<h, "zero">>
        BY <3>3, <4>1
      <4>3. QED
        BY <4>2
    <3>5. QED
      BY <3>1, <3>3, <3>4
  <2>3. QED
    BY <2>1, <2>2 DEF Ended
<1>17. ASSUME NEW h \in Commanded, CommandBegins(h) \/ CommandEnds(h) PROVE Same
  BY <1>17 DEF CommandBegins, CommandEnds, runnerVars
<1>18. UNCHANGED vars => Same
  BY DEF vars, runnerVars
<1> HIDE DEF Same, Loops, VerdictInv
<1>19. QED
  BY <1>2, <1>3, <1>4, <1>5, <1>6, <1>7, <1>8, <1>9, <1>10, <1>11, <1>12, <1>13, <1>14, <1>15,
     <1>16, <1>17, <1>18 DEF Next, Runner

\* The runner reports success only if the program compiled and what it then ran
\* succeeded, which for a network means that every command was run, waited for
\* and returned 0, its output file is closed and the network is down.
THEOREM VerdictTells == Spec => []ExitTells
<1>1. AppInv => ExitTells
  BY DEF AppInv, VerdictInv, ExitTells
<1>2. AppInv /\ [Next]_vars => AppInv'
  BY StepCommands, StepVerdict DEF AppInv
<1>3. QED
  BY <1>1, <1>2, InitApp, PTL DEF Spec

-----------------------------------------------------------------------------
(***************************************************************************)
(* What the controller works out of the links: the ports by which it       *)
(* addresses the hosts, the paths between them and their routes.           *)
(***************************************************************************)
LEMMA HostsAreNamed ==
  ASSUME setup \in Setups
  PROVE  /\ IsNetwork(Conf.links) /\ InNet = {n \in Nodes(Conf.links) : IsHost(n)}
         /\ InNet \subseteq Hosts
<1>1. IsNetwork(Conf.links)
  BY AppAssumption DEF Conf
<1>2. QED
  BY <1>1, NetworkFacts, SortedLists DEF InNet, HostNames, Hosts

\* The hosts of single_switch_mininet.py.
SingleHosts == [h \in {<<"h", n>> : n \in 1..Conf.numHosts} |-> SingleHostConfig(h)]

\* Which script runs, and what its hosts have been told.
HostsInv ==
  /\ setup \in Setups
  /\ phase \in {"start", "configure", "controller"} => Backend \in {"mininet", "multiswitch"}
  /\ phase = "configure" => Backend = "mininet"
  /\ phase \in {"topology", "controller"} => Backend = "multiswitch"
  /\ phase = "start" /\ Backend = "multiswitch" => HostsAreLinkedToSwitches(Conf.links)
  /\ phase = "controller" => HostsAreLinkedToSwitches(Conf.links)
  /\ \/ hosts = <<>>
     \/ Backend = "mininet" /\ hosts = SingleHosts
     \/ /\ Backend = "multiswitch" /\ HostsAreLinkedToSwitches(Conf.links)
        /\ hosts = Tells[Conf.links]

LEMMA InitHosts == Init => HostsInv
  BY DEF Init, HostsInv

LEMMA StepHosts == AppInv /\ HostsInv /\ [Next]_vars => HostsInv'
<1> SUFFICES ASSUME AppInv, HostsInv, [Next]_vars PROVE HostsInv'
  OBVIOUS
<1>0. setup \in Setups /\ UNCHANGED setup
  BY DEF HostsInv, Next, Runner, ReadManifest, Dispatch, Compile, AfterCompile, LaunchBackend,
         RunTest, Return, StartNet, ConfigureSwitch, MakeTopology, StartController, Popen, NoCommands,
         WaitForExit, Interrupt, Check, Terminate, ReapStopped, Stopping, StopNet, LeavePrompt,
         KillScript, CommandBegins, CommandEnds, vars
<1>1. UNCHANGED <<Conf, Backend, SingleHosts>>
  BY <1>0 DEF Backend, Conf, Chosen, Manifest, SingleHosts
<1> DEFINE Late == /\ UNCHANGED hosts
                   /\ phase' = phase \/ phase' \notin {"topology", "start", "configure", "controller"}
<1>2. Late => HostsInv'
  BY <1>0, <1>1 DEF HostsInv
<1> USE DEF commandVars
<1>3. ReadManifest \/ Dispatch \/ Compile \/ AfterCompile \/ RunTest \/ Return => Late
  BY DEF ReadManifest, Dispatch, Compile, AfterCompile, RunTest, Return, Exit, ScriptEnds
<1>4. LaunchBackend => HostsInv'
  <2> SUFFICES ASSUME LaunchBackend PROVE HostsInv'
    OBVIOUS
  <2>1. Backend \in {"mininet", "multiswitch", "stf", "custom"} /\ UNCHANGED hosts
    BY DEF LaunchBackend, AppInv, VerdictInv
  <2>2. CASE Backend \in {"stf", "custom"}
    <3>1. phase' \in {"exited", "test"}
      BY <2>2 DEF LaunchBackend, Exit
    <3>2. QED
      BY <1>0, <1>1, <2>1, <3>1 DEF HostsInv
  <2>3. CASE Backend \in {"mininet", "multiswitch"}
    <3>1. phase' = (IF Backend = "mininet" THEN "start" ELSE "topology")
      BY <2>3 DEF LaunchBackend
    <3>2. QED
      BY <1>0, <1>1, <2>1, <2>3, <3>1 DEF HostsInv
  <2>4. QED
    BY <2>1, <2>2, <2>3
<1>5. MakeTopology => HostsInv'
  BY <1>0, <1>1 DEF MakeTopology, ScriptEnds, HostsInv
<1>6. StartNet => HostsInv'
  BY <1>0, <1>1 DEF StartNet, ScriptEnds, HostsInv
<1>7. ConfigureSwitch => HostsInv'
  <2> SUFFICES ASSUME ConfigureSwitch PROVE HostsInv'
    OBVIOUS
  <2>1. Backend = "mininet" /\ hosts' = SingleHosts /\ phase' \in {"prompt", "return"}
    BY DEF ConfigureSwitch, ScriptEnds, HostsInv, SingleHosts
  <2>2. QED
    BY <1>0, <1>1, <2>1 DEF HostsInv
<1>8. StartController => HostsInv'
  <2> SUFFICES ASSUME StartController PROVE HostsInv'
    OBVIOUS
  <2>1. /\ Backend = "multiswitch" /\ HostsAreLinkedToSwitches(Conf.links)
        /\ hosts' = Tells[Conf.links] \/ hosts' = hosts
        /\ phase' \in {"prompt", "commands", "return"}
    BY DEF StartController, ScriptEnds, HostsInv
  <2>2. QED
    BY <1>0, <1>1, <2>1 DEF HostsInv
<1>9. LeavePrompt \/ KillScript \/ Popen \/ NoCommands \/ WaitForExit => Late
  BY DEF LeavePrompt, KillScript, ScriptEnds, Popen, NoCommands, WaitForExit, AfterCommand
<1>10. Interrupt \/ Check \/ Terminate \/ ReapStopped \/ Stopping \/ StopNet => Late
  BY DEF Interrupt, Check, Terminate, ReapStopped, Stopping, StopNet, ScriptEnds
<1>11. ASSUME NEW h \in Commanded, CommandBegins(h) \/ CommandEnds(h) PROVE Late
  BY <1>11 DEF CommandBegins, CommandEnds, runnerVars
<1>12. UNCHANGED vars => Late
  BY DEF vars, runnerVars
<1> HIDE DEF Late
<1>13. QED
  BY <1>2, <1>3, <1>4, <1>5, <1>6, <1>7, <1>8, <1>9, <1>10, <1>11, <1>12 DEF Next, Runner

LEMMA HostsHold == Spec => []HostsInv
<1>1. AppInv /\ [Next]_vars => AppInv'
  BY StepCommands, StepVerdict DEF AppInv
<1>2. QED
  BY <1>1, InitApp, InitHosts, StepHosts, PTL DEF Spec

\* The port numbers in the topology object, by which a controller addresses a
\* switch's ports, are those Mininet gives the ports, whatever order the
\* manifest lists the links in.
THEOREM PortsTold == Spec => []PortsAgree
<1>1. HostsInv => PortsAgree
  <2> SUFFICES ASSUME HostsInv, NEW s \in ToSet(SwitchNames(Conf.links)), NEW n,
                      Linked(Conf.links, s, n)
               PROVE  PortTo(Conf.links, s, n) = MininetPort(Conf.links, s, n)
    BY DEF PortsAgree
  <2>1. IsNetwork(Conf.links)
    BY HostsAreNamed DEF HostsInv
  <2>2. s \in Nodes(Conf.links) /\ ~IsHost(s)
    BY <2>1, NetworkFacts, SortedLists DEF SwitchNames, Switches
  <2>3. QED
    BY <2>1, <2>2, PortsAreThose
<1>2. QED
  BY <1>1, HostsHold, PTL

\* A path of ShortestPath.get is a way along the links from a to b, through no
\* host, and none is shorter; there is none only if there is no way.
THEOREM PathsAreShortest == Spec => []PathIsShortest
<1>1. HostsInv => PathIsShortest
  <2> SUFFICES ASSUME HostsInv, NEW a \in Nodes(Conf.links), NEW b \in Nodes(Conf.links)
               PROVE  LET path == Path(Conf.links, a, b)
                          layer == Layer(Conf.links, a)
                      IN  IF b \notin layer[Cardinality(Nodes(Conf.links))] THEN path = NoPath
                          ELSE /\ path[1] = a /\ Last(path) = b
                               /\ \A i \in 1..(Len(path) - 1) : Linked(Conf.links, path[i], path[i + 1])
                               /\ \A i \in 2..(Len(path) - 1) : ~IsHost(path[i])
                               /\ Len(path) > 1 => b \notin layer[Len(path) - 2]
    BY DEF PathIsShortest
  <2>1. IsNetwork(Conf.links)
    BY HostsAreNamed DEF HostsInv
  <2> DEFINE path == Path(Conf.links, a, b)
             layer == Layer(Conf.links, a)
  <2>2. /\ path # NoPath => IsWay(Conf.links, path, a, b)
        /\ (path = NoPath <=> b \notin layer[Cardinality(Nodes(Conf.links))])
        /\ path # NoPath /\ Len(path) > 1 => b \notin layer[Len(path) - 2]
    BY <2>1, PathIsAsShort
  <2> HIDE DEF path, layer
  <2>3. path # NoPath =>
          /\ path[1] = a /\ Last(path) = b
          /\ \A i \in 1..(Len(path) - 1) : Linked(Conf.links, path[i], path[i + 1])
          /\ \A i \in 2..(Len(path) - 1) : ~IsHost(path[i])
    BY <2>2 DEF IsWay, Last
  <2>4. QED
    BY <2>2, <2>3 DEF path, layer
<1>2. QED
  BY <1>1, HostsHold, PTL

\* A host that was configured finds its gateways: each is the address of one it
\* has in its ARP table, the default one in its own network.  Between hosts with
\* a way, if the other has one link, there is a route to the address it has, by an
\* interface that leads to a switch as near to the other as the path wants it.
THEOREM RoutesTold == Spec => []RoutesLead
<1>1. HostsInv => RoutesLead
  <2> SUFFICES ASSUME HostsInv, NEW h \in DOMAIN hosts
               PROVE  /\ {hosts[h].default} \cup {r[2] : r \in hosts[h].routes}
                            \subseteq {e[2] : e \in hosts[h].arp}
                      /\ hosts[h].default[1] = hosts[h].ip[1]
                      /\ Backend = "multiswitch" =>
                           \A g \in InNet \ {h} :
                             Len(LinksOf(Conf.links, g)) = 1 /\ Path(Conf.links, h, g) # NoPath =>
                               \E r \in hosts[h].routes : \E e \in hosts[h].arp :
                                 LeadsOn(Conf.links, h, g, r, e, hosts[g].ip)
    BY DEF RoutesLead, LeadsOn, SwitchAt
  <2>1. hosts # <<>>
    OBVIOUS
  <2>2. CASE Backend = "mininet" /\ hosts = SingleHosts
    <3>1. hosts[h] = SingleHostConfig(h)
      BY <2>2 DEF SingleHosts
    <3> DEFINE e == <<0, <<h[2] - 1, 1>>, <<0, h[2] - 1>> >>
    <3>2. /\ hosts[h].routes = {} /\ hosts[h].default = e[2] /\ hosts[h].arp = {e}
          /\ hosts[h].default[1] = hosts[h].ip[1]
      BY <3>1 DEF SingleHostConfig
    <3> HIDE DEF e
    <3>3. QED
      BY <2>2, <3>2
  <2>3. CASE /\ Backend = "multiswitch" /\ HostsAreLinkedToSwitches(Conf.links)
             /\ hosts = Tells[Conf.links]
    <3>1. setup \in Setups /\ IsNetwork(Conf.links) /\ InNet = {n \in Nodes(Conf.links) : IsHost(n)}
      BY HostsAreNamed DEF HostsInv
    <3>2. hosts = [g \in InNet |-> HostConfig(Conf.links, g)]
      <4>1. Conf.links \in {z.config.links : z \in {z \in Setups : HostsAreLinkedToSwitches(z.config.links)}}
        BY <2>3, <3>1 DEF Conf
      <4>2. QED
        BY <2>3, <4>1 DEF Tells, InNet
    <3>3. h \in InNet /\ h \in Nodes(Conf.links) /\ IsHost(h) /\ InNet = ToSet(HostNames(Conf.links))
      BY <3>1, <3>2 DEF InNet
    <3> DEFINE config == HostConfig(Conf.links, h)
    <3>4. /\ {config.default} \cup {r[2] : r \in Routes(Conf.links, h)} \subseteq {e[2] : e \in config.arp}
          /\ config.default[1] = config.ip[1]
          /\ \A g \in InNet \ {h} :
               Len(LinksOf(Conf.links, g)) = 1 /\ Path(Conf.links, h, g) # NoPath =>
                 \E r \in Routes(Conf.links, h), e \in config.arp :
                   LeadsOn(Conf.links, h, g, r, e, HostConfig(Conf.links, g).ip)
      BY <3>1, <3>3, GatewaysAreKnown
    <3>5. config.routes = Routes(Conf.links, h)
      BY DEF HostConfig
    <3> HIDE DEF config
    <3>6. hosts[h] = config /\ \A g \in InNet : hosts[g] = HostConfig(Conf.links, g)
      BY <3>2, <3>3 DEF config
    <3>7. QED
      BY <3>4, <3>5, <3>6
  <2>4. QED
    BY <2>1, <2>2, <2>3 DEF HostsInv
<1>2. QED
  BY <1>1, HostsHold, PTL
=============================================================================
