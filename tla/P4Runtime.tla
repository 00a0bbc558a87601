------------------------------- MODULE P4Runtime -------------------------------
(***************************************************************************)
(* The P4Runtime client of major-7sem/core/p4runtime_lib: program_switch of *)
(* simple_controller.py with the SwitchConnection of switch.py it opens,   *)
(* and the server of the switch it talks to, which is not part of the      *)
(* repository.  The client has one thread and programs a switch at a time. *)
(***************************************************************************)
EXTENDS P4Info

CONSTANTS
  Switch,
  NoSwitch,
  Files,     \* the runtime configurations: the content of each JSON file
  Infos,     \* the P4Info files, by program
  TooLong    \* the requests of MSG_LOG_MAX_LEN characters or more

VARIABLES
  conf,       \* the file that has the runtime configuration of each switch, fixed
  busy,       \* the switch program_switch is at, or NoSwitch
  step,       \* where in program_switch
  sent,       \* how many of its entries have been sent
  outcome,    \* of program_switch, by switch
  stream,     \* the StreamChannel of each switch's connection
  dump,       \* the file of the GrpcRequestLogger
  serving,    \* the switches whose P4Runtime server is there
  pipeline,   \* those that run the pipeline they were sent
  installed   \* the entries on each switch

clientVars == <<conf, busy, step, sent, outcome, stream, dump>>
serverVars == <<pipeline, installed>>

\* Table entries go first, then multicast groups, then clone sessions.
EntriesOf(c) == c.table_entries \o c.multicast_group_entries \o c.clone_session_entries

ASSUME P4RuntimeAssumption ==
  /\ NoSwitch \notin Switch
  /\ \A n \in DOMAIN Files :
       EntriesOf(Files[n]) \in Seq({EntriesOf(Files[n])[i] : i \in DOMAIN EntriesOf(Files[n])})

NotBuilt == [update |-> "none", key |-> <<>>, does |-> <<>>]
PipelineRequest == [update |-> "pipeline", key |-> <<>>, does |-> <<>>]

\* What is written of a request: a notice stands for one that is too long.
Notice == [update |-> "too long", key |-> <<>>, does |-> <<>>]
Message(request) == IF request \in TooLong THEN Notice ELSE request

\* What goes out for an entry, if it is valid and can be built.
Request(c, e) ==
  LET built == IF c.p4info \in DOMAIN Infos THEN Wire(Infos[c.p4info], e) ELSE {}
  IN  IF built = {} THEN NotBuilt ELSE CHOOSE w \in built : TRUE

\* What the files amount to: the requests of each, those that are accepted, and
\* those whose P4Info file is one.
Requests ==
  [n \in DOMAIN Files |->
     [i \in DOMAIN EntriesOf(Files[n]) |-> Request(Files[n], EntriesOf(Files[n])[i])]]

CheckSwitchConf(c) ==
  /\ c.target = "bmv2"
  /\ \A key \in {"p4info", "bmv2_json"} : c[key] \notin {"absent", "no file"}

Accepted == {n \in DOMAIN Files : CheckSwitchConf(Files[n])}
Readable == {n \in DOMAIN Files : Files[n].p4info \in DOMAIN Infos}

Sends(s) == Len(Requests[conf[s]])
WireOf(s, i) == Requests[conf[s]][i]
CanBuild(s, i) == WireOf(s, i) # NotBuilt

Step == {"arbitration", "pipeline", "entries", "returned"}
Outcome == {"none", "skipped", "done", "raised"}

ClientInit ==
  /\ busy = NoSwitch /\ step = "returned" /\ sent = 0
  /\ outcome = [s \in Switch |-> "none"]
  /\ stream = [s \in Switch |-> "none"]
  /\ dump = [s \in Switch |-> <<>>]

ServerInit ==
  /\ serving = {} /\ pipeline = {}
  /\ installed = [s \in Switch |-> {}]

-----------------------------------------------------------------------------
(***************************************************************************)
(* The server.                                                             *)
(***************************************************************************)
Keys(s) == {e.key : e \in installed[s]}

\* An entry that is there is not inserted again; a default action replaces.
Write(s, e) ==
  /\ s \in serving /\ s \in pipeline
  /\ e.update = "INSERT" => e.key \notin Keys(s)
  /\ installed' = [installed EXCEPT ![s] = {f \in @ : f.key # e.key} \cup {e}]
  /\ UNCHANGED pipeline

Load(s) ==
  /\ s \in serving
  /\ pipeline' = pipeline \cup {s}
  /\ installed' = [installed EXCEPT ![s] = {}]

-----------------------------------------------------------------------------
(***************************************************************************)
(* program_switch.                                                         *)
(***************************************************************************)
Return(s, result) ==
  /\ busy' = NoSwitch /\ step' = "returned" /\ sent' = 0
  /\ outcome' = [outcome EXCEPT ![s] = result]

\* The configuration is not accepted: an error is printed, nothing is raised.
SkipSwitch(s) ==
  /\ busy = NoSwitch
  /\ conf[s] \notin Accepted
  /\ Return(s, "skipped")
  /\ UNCHANGED <<conf, stream, dump, serverVars>>

\* The P4Info file is not one: raised before there is a connection.
BadP4Info(s) ==
  /\ busy = NoSwitch
  /\ conf[s] \in Accepted \ Readable
  /\ Return(s, "raised")
  /\ UNCHANGED <<conf, stream, dump, serverVars>>

Connect(s) ==
  /\ busy = NoSwitch
  /\ conf[s] \in Accepted \cap Readable
  /\ busy' = s /\ step' = "arbitration" /\ sent' = 0
  /\ stream' = [stream EXCEPT ![s] = "open"]
  /\ dump' = [dump EXCEPT ![s] = <<>>]
  /\ UNCHANGED <<conf, outcome, serverVars>>

\* One answer is waited for on the stream, without a deadline, and not looked at.
MasterArbitrationUpdate(s) ==
  /\ busy = s /\ step = "arbitration" /\ s \in serving
  /\ step' = "pipeline"
  /\ UNCHANGED <<conf, busy, sent, outcome, stream, dump, serverVars>>

LogMessageLast(s, request) ==   \* mutant: the file is written anew
  dump' = [dump EXCEPT ![s] = <<Message(request)>>]

\* The logger writes to its file before a request goes out.
LogMessage(s, request) == dump' = [dump EXCEPT ![s] = Append(@, Message(request))]

SetForwardingPipelineConfig(s) ==
  /\ busy = s /\ step = "pipeline"
  /\ LogMessage(s, PipelineRequest)
  /\ Load(s)
  /\ step' = "entries"
  /\ UNCHANGED <<conf, busy, sent, outcome, stream>>

\* The next table entry, multicast group or clone session, in this order.
Insert(s) ==
  /\ busy = s /\ step = "entries" /\ sent < Sends(s)
  /\ CanBuild(s, sent + 1)
  /\ LogMessage(s, WireOf(s, sent + 1))
  /\ Write(s, WireOf(s, sent + 1))
  /\ sent' = sent + 1
  /\ UNCHANGED <<conf, busy, step, outcome, stream>>

ShutdownNot(s) == UNCHANGED stream   \* mutant: the stream is left open

\* The finally block: the queue's sentinel ends the stream.
Shutdown(s) == stream' = [stream EXCEPT ![s] = "closed"]

FinishEarly(s) ==   \* mutant: the last entry is left out
  /\ busy = s /\ step = "entries" /\ sent + 1 >= Sends(s)
  /\ Shutdown(s) /\ Return(s, "done")
  /\ UNCHANGED <<conf, dump, serverVars>>

Finish(s) ==
  /\ busy = s /\ step = "entries" /\ sent = Sends(s)
  /\ Shutdown(s) /\ Return(s, "done")
  /\ UNCHANGED <<conf, dump, serverVars>>

\* A request that the server refuses, or that finds none, has been logged; an
\* entry that is not valid or cannot be built has not.
Refused(s) ==
  \/ /\ step = "arbitration"
     /\ UNCHANGED dump
  \/ /\ step = "pipeline"
     /\ LogMessage(s, PipelineRequest)
  \/ /\ step = "entries" /\ sent < Sends(s)
     /\ CanBuild(s, sent + 1)
     /\ LogMessage(s, WireOf(s, sent + 1))
  \/ /\ step = "entries" /\ sent < Sends(s)
     /\ ~CanBuild(s, sent + 1)
     /\ UNCHANGED dump

RaiseSwallowed(s) ==   \* mutant: the exception is not passed on
  /\ busy = s
  /\ Refused(s)
  /\ Shutdown(s) /\ Return(s, "done")
  /\ UNCHANGED <<conf, serverVars>>

Raise(s) ==
  /\ busy = s
  /\ Refused(s)
  /\ Shutdown(s) /\ Return(s, "raised")
  /\ UNCHANGED <<conf, serverVars>>

Call(s) == SkipSwitch(s) \/ BadP4Info(s) \/ Connect(s)

\* The client's next step while it programs s.
ProgramSwitch(s) ==
  \/ MasterArbitrationUpdate(s) \/ SetForwardingPipelineConfig(s)
  \/ Insert(s) \/ Finish(s) \/ Raise(s)

\* The client has asked the server of s for something and has no deadline for the
\* answer: the arbitration, the pipeline, an entry.
AwaitsAnswer(s) ==
  /\ busy = s
  /\ \/ step \in {"arbitration", "pipeline"}
     \/ step = "entries" /\ sent < Sends(s) /\ CanBuild(s, sent + 1)

ServerGoneOnly(s) ==   \* mutant: its pipeline is kept
  /\ serving' = serving \ {s}
  /\ UNCHANGED serverVars

\* The server of a switch is gone, and all it held.
ServerGone(s) ==
  /\ serving' = serving \ {s} /\ pipeline' = pipeline \ {s}
  /\ installed' = [installed EXCEPT ![s] = {}]

=============================================================================
