--------------------------------- MODULE MCApp ---------------------------------
(***************************************************************************)
(* Packages for TLC: manifests that are right and wrong, every backend,    *)
(* networks with one way, several and none between their hosts, and        *)
(* commands of every behaviour.                                            *)
(***************************************************************************)
EXTENDS App, TLC

h(n) == <<"h", n>>
s(n) == <<"s", n>>

Line == << <<h(1), s(1)>>, <<s(1), h(2)>> >>
\* Two ways between the switches, the longer one listed first.
Ring == << <<s(1), s(3)>>, <<s(3), s(2)>>, <<h(1), s(1)>>, <<s(1), s(2)>>, <<h(2), s(2)>>, <<h(3), s(3)>> >>
Islands == << <<h(1), s(1)>>, <<h(2), s(2)>> >>
\* A host with two links, whose switches are also joined.
TwoLinks == << <<h(1), s(1)>>, <<h(1), s(2)>>, <<h(2), s(2)>>, <<s(1), s(2)>> >>
\* Two switches joined only by a host, which does not forward.
ByHost == << <<h(1), s(1)>>, <<h(2), s(1)>>, <<h(2), s(2)>>, <<h(3), s(2)>> >>
TenHosts == << <<h(1), s(1)>>, <<h(10), s(1)>>, <<h(2), s(1)>> >>
HostToHost == << <<h(1), s(1)>>, <<h(1), h(2)>> >>
Networks == {Line, Ring, Islands, TwoLinks, ByHost, TenHosts, HostToHost}

NoCommand == <<>>
BaseConf ==
  [use |-> None, before |-> "list", flags |-> "none", after |-> "none", program |-> TRUE,
   switchConfig |-> "none", numHosts |-> 2, auto |-> TRUE, entries |-> {}, cli |-> FALSE,
   links |-> Line, commands |-> NoCommand]
BaseManifest ==
  [has |-> {"program", "language", "targets"}, targets |-> <<"multiswitch">>, default |-> None,
   language |-> "p4-16"]
BaseSetup ==
  [manifest |-> BaseManifest, target |-> None, config |-> BaseConf, killable |-> FALSE]

Command(wait, ends, forked, obeys) ==
  [wait |-> wait, ends |-> ends, forked |-> forked, obeys |-> obeys]
\* One that is waited for is not signalled, and one that took its shell's place
\* is sent no signal.
CommandKinds ==
  {Command(w, e, FALSE, {}) : w, e \in BOOLEAN}
    \cup {Command(FALSE, e, TRUE, o) : e \in BOOLEAN, o \in {{}, {"INT"}, {"TERM"}, {"INT", "TERM"}}}

\* Every pair of commands on the line, one of them with a prompt before, and one
\* after it for a host that no link names.
WithCommands ==
  {[BaseSetup EXCEPT !.config.commands = (h(1) :> a) @@ (h(2) :> b), !.config.auto = FALSE] :
     a, b \in CommandKinds}
  \cup {[BaseSetup EXCEPT !.config.commands = (h(1) :> a), !.config.cli = TRUE] : a \in CommandKinds}
  \cup {[BaseSetup EXCEPT !.config.commands = (h(1) :> a) @@ (h(3) :> a)] : a \in CommandKinds}

\* Every network, with commands for all its hosts.
ForAll(links) == [g \in ToSet(HostNames(links)) |-> Command(TRUE, TRUE, FALSE, {})]
WithNetworks ==
  {[BaseSetup EXCEPT !.config.links = l, !.config.commands = ForAll(l), !.config.auto = a] :
     l \in Networks, a \in BOOLEAN}

\* Every backend, with what may be missing or wrong in its target, and a signal
\* at any time.
Backends == {"mininet", "multiswitch", "stf", "custom", "compile-bmv2", "p4runtime"}
WithBackends ==
  {[BaseSetup EXCEPT !.config = [BaseConf EXCEPT !.use = u, !.program = p, !.switchConfig = f,
                                                 !.entries = e, !.after = x],
                     !.killable = k] :
     u \in Backends, p, k \in BOOLEAN, f \in {"none", "text", "empty"}, e \in {{}, {s(1)}},
     x \in {"list", "other"}}

\* Manifests that lack something, and targets chosen in every way.
WithManifests ==
  {[BaseSetup EXCEPT !.manifest = [BaseManifest EXCEPT !.has = a, !.targets = t, !.default = d,
                                                       !.language = l],
                     !.target = c] :
     a \in SUBSET BaseManifest.has, t \in {<<>>, <<"stf">>, <<"compile-bmv2", "stf">>},
     d \in {None, "stf", "custom"}, l \in {"p4-14", "p4-17"}, c \in {None, "stf", "custom"}}

MCSetups == WithCommands \cup WithNetworks \cup WithBackends \cup WithManifests
=============================================================================
