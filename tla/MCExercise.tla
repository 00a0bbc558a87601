------------------------------ MODULE MCExercise ------------------------------
(***************************************************************************)
(* What TLC brings up: the four networks of the run.py scripts, in good    *)
(* order and with traffic; two switches of linear with all that can be     *)
(* wrong with a configuration, a port or a process; and exercises.         *)
(***************************************************************************)
EXTENDS Forwarding, Networks

AllSwitches == {"r1", "s0", "s1", "s2", "s3", "s4"}
AllHosts == UNION {DOMAIN n.hosts : n \in {L2Network, L3Network, LinearNetwork, CpuNetwork}}

\* A network with what else a setup says of it.
SetupOf(network, file, grpc, own, input, json, taken, contested, mortal, talks) ==
  [conf |-> file, grpc |-> grpc, own |-> own, cliInput |-> input, runtimeJson |-> json,
   occupied |-> taken, contested |-> contested, mortal |-> mortal, talks |-> talks] @@ network

\* Every host talks to every other, and some at the same time.
Pairs(hosts) == {p \in hosts \X hosts : p[1] # p[2]}
Alone(hosts, what) == {{<<p[1], p[2], what>>} : p \in Pairs(hosts)}
Together(talks, what) == {{<<t[1], t[2], what>> : t \in talks}}

Good(network, talks) ==
  SetupOf(network,
    [s \in AllSwitches |-> IF s \in Elements(network.made) THEN RuntimeJson(network.script, s) ELSE "unused"],
    TRUE, {}, {}, {}, {}, {}, FALSE, talks)

Networked ==
  {Good(L2Network, Together({<<"h1", "h2">>, <<"h2", "h1">>}, "ping")),
   Good(L3Network, Together({<<"h1", "h2">>, <<"h2", "h1">>}, "ping")),
   Good(LinearNetwork,
        Alone({"h1", "h2", "h3", "h4"}, "ping")
          \cup Together({<<"h1", "h3">>, <<"h3", "h1">>}, "ping")),
   Good(CpuNetwork,
        Alone({"h10", "h11", "h20", "h31", "h41"}, "probe") \cup Alone({"h10", "h41"}, "ping")
          \cup Together({<<"h10", "h41">>, <<"h41", "h10">>}, "probe"))}

-----------------------------------------------------------------------------
\* Two switches of linear: the default action is set twice, all kinds of
\* entries are there, and one match is ternary.
List(v, w) == [type |-> "list", items |-> <<v, w>>]
AclInfo == [BridgeInfo EXCEPT !.tables = @ \cup {Table("acl", "a", [port |-> [type |-> "TERNARY", bits |-> 9]])}]
Acl(priority) ==
  [Entry("acl", [port |-> List(Num(1), Num(511))], "mac_forward", None) EXCEPT !.priority = priority]
Clone == [kind |-> "clone", id |-> 1, replicas |-> {1}]

TwoEntries(e) == Configuration("bridge", <<Bridged(Mac(1), 2), e>>, <<>>)
SmallRouter == Configuration("linear/l3", <<RouterDrop, Route(Wan(0), 2), RouterDrop>>, <<>>)
SmallBridge ==
  [Configuration("bridge", <<Uplink, Acl(1)>>, <<Flood>>) EXCEPT !.clone_session_entries = <<Clone>>]

\* A file that is not there, a P4Info file that is none, an entry twice, a port
\* that is too large, a match by the table's alias, a ternary match without a
\* priority.
SmallFiles ==
  [unused |-> TwoEntries(Uplink), router |-> SmallRouter, bridge |-> SmallBridge,
   noFile |-> [SmallBridge EXCEPT !.bmv2_json = "no file"],
   noTarget |-> [SmallBridge EXCEPT !.target = "absent"],
   malformed |-> [SmallBridge EXCEPT !.p4info = "malformed"],
   twice |-> TwoEntries(Bridged(Mac(1), 3)), tooLarge |-> TwoEntries(Bridged(Mac(2), 512)),
   alias |-> TwoEntries([Bridged(Mac(2), 3) EXCEPT !.table = "mac_table"]),
   noPriority |-> TwoEntries(Acl(0))]

Pair(script, hosts, links) ==
  [LinearNetwork EXCEPT !.script = script, !.made = <<"r1", "s1">>, !.programs = <<"r1", "s1">>,
                        !.hosts = hosts, !.links = links]

\* One of the first two thrift ports or of the first two gRPC ports may be taken: when
\* the script starts, or by a program that comes and goes.
TakenPorts ==
  {<<{}, {}>>} \cup {<<{p}, {}>> : p \in {9090, 9091, 50051}}
    \cup {<<{}, {p}>> : p \in {9091, 50052}}

Faulty ==
  {SetupOf(Pair("linear", None, {}), [s \in AllSwitches |-> IF s = "r1" THEN "router" ELSE f],
           TRUE, {}, {}, {}, o[1], o[2], m, {}) :
     o \in TakenPorts, m \in BOOLEAN, f \in DOMAIN SmallFiles \ {"unused", "router"}}

-----------------------------------------------------------------------------
\* Exercises: the switches share a program, and the topology file may be
\* malformed or leave a host out.
GoodLinks == {{<<"h1", 0>>, <<"s1", 1>>}, {<<"s1", 2>>, <<"s2", 1>>}}
BadLinks ==
  {{{<<"h1", 0>>, <<"h2", 0>>}}, {{<<"h1", 0>>, <<"r1", 1>>}}, {{<<"h1", 0>>, <<"s1", 0>>}}, {}}

ExerciseOf(g, own, j, l, o) ==
  SetupOf([Pair("exercise", [h1 |-> None] @@ (IF l = GoodLinks THEN None ELSE [h2 |-> None]), l)
             EXCEPT !.made = <<"s1", "s2">>, !.programs = <<"s1", "s2">>],
          [s \in AllSwitches |-> "unused"], g, own, {"s1", "s2"} \ j, j, o[1], o[2], FALSE, {})

Exercises ==
  {ExerciseOf(g, {}, j, GoodLinks, o) : g \in BOOLEAN, j \in {{}, {"s2"}}, o \in TakenPorts}
    \cup {ExerciseOf(FALSE, {}, {}, l, <<{}, {}>>) : l \in BadLinks}

\* Or each has its own.
OwnPrograms == {ExerciseOf(FALSE, {"s1", "s2"}, {}, GoodLinks, <<{}, {}>>)}

MCFiles == SmallFiles @@ RuntimeFiles
MCInfos == ("bridge" :> AclInfo) @@ ProgramInfos
\* The pipeline and, as if it had many replicas, the group.
LongRequests == {PipelineRequest, Request(SmallBridge, Flood)}
MCSetups == Networked \cup Faulty \cup Exercises

\* The networks of the repository are such that nothing strays and nothing loops.
ASSUME RepositoryAssumption == AllAddressed /\ AllTrees
=============================================================================
